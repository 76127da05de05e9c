------------------------------ MODULE Connections ------------------------------
(***************************************************************************)
(* What RakNet promises of connections to the two games that use it.       *)
(*                                                                         *)
(* A client that tries to connect is answered once. What it learns later   *)
(* is at most that an accepted connection was lost. The server has a       *)
(* connection only to a client that was accepted, and to at most limit of  *)
(* them at a time.                                                         *)
(***************************************************************************)
EXTENDS Naturals

CONSTANTS Guids, Limits

VARIABLES answer,     \* "none", "accepted", "failed" or "lost", for each client
          sessions,   \* the clients the server is connected to
          limit       \* how many there may be

connectionsVars == <<answer, sessions, limit>>

ConnectionsInit == /\ answer = [g \in Guids |-> "none"]
                   /\ sessions = {}
                   /\ limit \in Limits

Moves(g, from, to) == /\ answer[g] = from
                      /\ answer' = [answer EXCEPT ![g] = to]
                      /\ UNCHANGED <<sessions, limit>>

\* A session is opened for one client that has been accepted, or one is closed.
Opens(g) == /\ answer[g] \in {"accepted", "lost"}
            /\ g \notin sessions
            /\ sessions' = sessions \cup {g}
            /\ \E place \in [sessions' -> 1..limit] :
                   \A h, k \in sessions' : place[h] = place[k] => h = k
            /\ UNCHANGED <<answer, limit>>

Closes(g) == /\ g \in sessions
             /\ sessions' = sessions \ {g}
             /\ UNCHANGED <<answer, limit>>

ConnectionsNext ==
    \E g \in Guids : \/ Moves(g, "none", "accepted")
                     \/ Moves(g, "none", "failed")
                     \/ Moves(g, "accepted", "lost")
                     \/ Opens(g)
                     \/ Closes(g)

ConnectionsSpec == ConnectionsInit /\ [][ConnectionsNext]_connectionsVars
================================================================================
