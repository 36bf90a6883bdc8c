------------------------ MODULE AtMostOnceSubmission ------------------------
(***************************************************************************)
(* What the durable journal promises about one client order id: at most    *)
(* one placement request for it ever leaves any process of the deployment, *)
(* and an intent closed by a local refusal ("no broker POST attempted") is *)
(* one for which none ever did and none ever will.                         *)
(***************************************************************************)
EXTENDS Naturals

VARIABLES posts,                   \* placement requests written to a socket
          refused                  \* the intent was closed as never sent

Init == posts = 0 /\ refused = FALSE

Send == posts = 0 /\ ~refused /\ posts' = 1 /\ UNCHANGED refused

Refuse == posts = 0 /\ ~refused /\ refused' = TRUE /\ UNCHANGED posts

Spec == Init /\ [][Send \/ Refuse]_<<posts, refused>>
=============================================================================
