----------------------------- MODULE MCStorage -----------------------------
(***************************************************************************)
(* TLC instances of the storage session, of the outbox and of the file     *)
(* stores.  A behaviour runs one of them, `focus'.  The outbox has two     *)
(* messages and a third that reuses the event of one and the key of the    *)
(* other, and three leases, so that a batch can be claimed and one of its  *)
(* messages claimed again.                                                 *)
(***************************************************************************)
EXTENDS MCSession, Outbox, MCFiles

CONSTANTS c1, c2, k1, k2

TwoMessages == {[event |-> 1, key |-> k1, created |-> 1],
                [event |-> 2, key |-> k2, created |-> 0],
                [event |-> 2, key |-> k1, created |-> 0]}
MCClients == {c1, c2}
MCTimes == 0..2

StorageInit ==
    /\ focus \in {"session", "outbox", "volume", "uploads", "listing"}
    /\ Init /\ OutboxInit /\ FilesInit

StorageNext ==
    \/ focus = "session" /\ Next /\ UNCHANGED <<focus, outboxVars, filesVars>>
    \/ focus = "outbox" /\ OutboxNext /\ UNCHANGED <<focus, vars, filesVars>>
    \/ focus \notin {"session", "outbox"} /\ FilesNext /\ UNCHANGED <<focus, vars, outboxVars>>

StorageSpec == StorageInit /\ [][StorageNext]_<<focus, vars, outboxVars, filesVars>>

Symmetric == Permutations(MCClients) \cup Permutations(AssetTokens)

=============================================================================
