---------------------------- MODULE ServerState ----------------------------
(***************************************************************************)
(* What the requests of one server share besides the token (AppState): the *)
(* models cache and the conversation log.  Requests for models use one,    *)
(* requests for messages the other.                                        *)
(***************************************************************************)
EXTENDS ModelsCache, ConversationLog

vars == <<cacheVars, logVars>>

\* A request is of one kind.
Init ==
    /\ CacheInit /\ LogInit
    /\ \A r \in Readers \cup Writers :
          (r \in Readers /\ step[r] = "idle") # (r \in Writers /\ at[r] = "idle")

Idle ==
    /\ ~Watched
    /\ \A r \in Writers : at[r] \in {"gone", "none"}
    /\ UNCHANGED vars

Next ==
    \/ CacheNext /\ UNCHANGED logVars
    \/ LogNext /\ UNCHANGED cacheVars
    \/ Idle

Spec == Init /\ [][Next]_vars

TypeOK == CacheTypeOK /\ LogTypeOK
=============================================================================
