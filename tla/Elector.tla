-------------------------------- MODULE Elector --------------------------------
(***************************************************************************)
(* Leader election of internal/elector: the election loop of every         *)
(* instance over an etcd mutex, the flag IsLeader answers with, and the    *)
(* leader-scoped context of the continuity checker.                        *)
(*                                                                         *)
(* etcd and its client are external, modelled from how elector.go uses     *)
(* concurrency.Session and concurrency.Mutex: a session is a lease etcd    *)
(* keeps and a goroutine that keeps it alive; every session that waits for *)
(* the mutex has a key under that lease, and the key created first owns    *)
(* the mutex.  A session is <<instance, number>>.                          *)
(***************************************************************************)
EXTENDS Integers, FiniteSets

CONSTANTS
    Instances,   \* the instances of the service
    MaxSessions, \* bound on the sessions an instance opens
    MaxFaults,   \* bound on lost leases, ended keepalives, failed revokes, crashes
    MayStop      \* the instances that may be told to stop

ASSUME BoundsAssumption == MaxSessions \in Nat /\ MaxFaults \in Nat
ASSUME MayStopAssumption == MayStop \subseteq Instances

VARIABLES
    \* etcd.
    leases,    \* the sessions whose lease etcd has
    keys,      \* the sessions that have a key of the mutex
    rev,       \* per session, the revision its key was created at
    nextRev,   \* the next revision
    \* The instances.
    epc,       \* per instance, the step the election loop is at
    cur,       \* per instance, the number of its latest session
    kept,      \* the sessions whose Done channel is open
    isLeader,  \* per instance, Elector.isLeader
    live,      \* the sessions whose leader context the elector has not cancelled
    checkers,  \* the sessions whose continuity checker runs
    stopping,  \* the instances whose root context is cancelled
    faults

etcd     == <<leases, keys, rev, nextRev>>
election == <<epc, cur, kept>>
leading  == <<isLeader, live, checkers>>
vars     == <<etcd, election, leading, stopping, faults>>

Session == Instances \X (1..MaxSessions)
S(i) == <<i, cur[i]>>

Steps == {"start", "put", "wait", "won", "lead", "unlock", "close", "exited"}

(* The key created first owns the mutex. *)
Owner(s) == s \in keys /\ \A t \in keys : rev[s] <= rev[t]

(* The number of faults so far leaves room for one more. *)
Fault == faults < MaxFaults /\ faults' = faults + 1

Init ==
    /\ leases = {}
    /\ keys = {}
    /\ rev = [s \in Session |-> 0]
    /\ nextRev = 1
    /\ epc = [i \in Instances |-> "start"]
    /\ cur = [i \in Instances |-> 0]
    /\ kept = {}
    /\ isLeader = [i \in Instances |-> FALSE]
    /\ live = {}
    /\ checkers = {}
    /\ stopping = {}
    /\ faults = 0

-----------------------------------------------------------------------------
(* tryLead *)

(* concurrency.NewSession; on an error the loop sleeps and tries again. *)
NewSession(i) ==
    /\ epc[i] = "start"
    /\ i \notin stopping
    /\ cur[i] < MaxSessions
    /\ cur' = [cur EXCEPT ![i] = @ + 1]
    /\ leases' = leases \cup {<<i, cur[i] + 1>>}
    /\ kept' = kept \cup {<<i, cur[i] + 1>>}
    /\ epc' = [epc EXCEPT ![i] = "put"]
    /\ UNCHANGED <<keys, rev, nextRev, leading, stopping, faults>>

(* mutex.Lock, its first half: the key is created under the lease. *)
PutKey(i) ==
    /\ epc[i] = "put"
    /\ S(i) \in leases
    /\ keys' = keys \cup {S(i)}
    /\ rev' = [rev EXCEPT ![S(i)] = nextRev]
    /\ nextRev' = nextRev + 1
    /\ epc' = [epc EXCEPT ![i] = "wait"]
    /\ UNCHANGED <<leases, cur, kept, leading, stopping, faults>>

(* Acquired of a variant that does not wait for the keys created earlier. *)
AcquiredAtOnce(i) == S(i) \in keys

(* The wait for the keys created earlier is over. *)
Acquired(i) == Owner(S(i))

(* mutex.Lock, its second half. *)
Lock(i) ==
    /\ epc[i] = "wait"
    /\ Acquired(i)
    /\ epc' = [epc EXCEPT ![i] = "won"]
    /\ UNCHANGED <<etcd, cur, kept, leading, stopping, faults>>

(* mutex.Lock returns an error: the context is cancelled, or the lease and the
   key with it are gone.  What is left of the key is deleted. *)
LockFails(i) ==
    /\ epc[i] \in {"put", "wait"}
    /\ i \in stopping \/ S(i) \notin leases
    /\ keys' = keys \ {S(i)}
    /\ epc' = [epc EXCEPT ![i] = "close"]
    /\ UNCHANGED <<leases, rev, nextRev, cur, kept, leading, stopping, faults>>

(* becomeLeader: the flag and the context under e.mu, then the goroutine that
   starts the continuity checker. *)
BecomeLeader(i) ==
    /\ epc[i] = "won"
    /\ IF isLeader[i]
         THEN UNCHANGED leading
         ELSE /\ isLeader' = [isLeader EXCEPT ![i] = TRUE]
              /\ live' = live \cup {S(i)}
              /\ checkers' = checkers \cup {S(i)}
    /\ epc' = [epc EXCEPT ![i] = "lead"]
    /\ UNCHANGED <<etcd, cur, kept, stopping, faults>>

(* LeftLive of a variant that forgets the cancel function. *)
LeftUncancelled(i) == live

(* The leader contexts that are live after becomeFollower. *)
LeftLive(i) == {s \in live : s[1] # i}

BecomeFollower(i) ==
    /\ isLeader' = [isLeader EXCEPT ![i] = FALSE]
    /\ live' = LeftLive(i)
    /\ UNCHANGED checkers

(* Done of a variant that waits for the root context only. *)
NeverDone(i) == i \notin Instances

(* session.Done() is closed. *)
Done(i) == S(i) \notin kept

(* The select at the end of tryLead: the session is done. *)
SessionDone(i) ==
    /\ epc[i] = "lead"
    /\ Done(i)
    /\ BecomeFollower(i)
    /\ epc' = [epc EXCEPT ![i] = "close"]
    /\ UNCHANGED <<etcd, cur, kept, stopping, faults>>

(* Its other branch: the root context is cancelled. *)
StepDown(i) ==
    /\ epc[i] = "lead"
    /\ i \in stopping
    /\ BecomeFollower(i)
    /\ epc' = [epc EXCEPT ![i] = "unlock"]
    /\ UNCHANGED <<etcd, cur, kept, stopping, faults>>

(* mu.Unlock deletes the key, or fails: main closes the client meanwhile. *)
Unlock(i) ==
    /\ epc[i] = "unlock"
    /\ keys' \in {keys, keys \ {S(i)}}
    /\ epc' = [epc EXCEPT ![i] = "close"]
    /\ UNCHANGED <<leases, rev, nextRev, cur, kept, leading, stopping, faults>>

(* The deferred session.Close: the keepalive ends and the lease is revoked,
   unless etcd cannot be reached or the session's context, which is that of
   the whole instance, is cancelled. *)
CloseSession(i) ==
    /\ epc[i] = "close"
    /\ kept' = kept \ {S(i)}
    /\ \/ /\ leases' = leases \ {S(i)}
          /\ keys' = keys \ {S(i)}
          /\ UNCHANGED faults
       \/ /\ IF i \in stopping THEN UNCHANGED faults ELSE Fault
          /\ UNCHANGED <<leases, keys>>
    /\ epc' = [epc EXCEPT ![i] = "start"]
    /\ UNCHANGED <<rev, nextRev, cur, leading, stopping>>

(* Run returns. *)
RunExit(i) ==
    /\ epc[i] = "start"
    /\ i \in stopping
    /\ epc' = [epc EXCEPT ![i] = "exited"]
    /\ UNCHANGED <<etcd, cur, kept, leading, stopping, faults>>

-----------------------------------------------------------------------------
(* etcd and its client *)

(* A lease runs out: nobody keeps it alive any more, or the keepalives are
   late.  Its key goes with it; the instance is not told. *)
LeaseExpires(s) ==
    /\ s \in leases
    /\ IF s \in kept THEN Fault ELSE UNCHANGED faults
    /\ leases' = leases \ {s}
    /\ keys' = keys \ {s}
    /\ UNCHANGED <<rev, nextRev, election, leading, stopping>>

(* The client closes the Done channel of a session: etcd has answered that the
   lease is gone, or has not answered for the TTL, or the root context that the
   session was opened with is cancelled. *)
KeepAliveEnds(s) ==
    /\ s \in kept
    /\ IF s \in leases /\ s[1] \notin stopping THEN Fault ELSE UNCHANGED faults
    /\ kept' = kept \ {s}
    /\ UNCHANGED <<etcd, epc, cur, leading, stopping>>

-----------------------------------------------------------------------------
(* What leadership guards *)

(* The continuity checker of a cancelled context returns; the context is a child
   of the root context. *)
CheckerExit(s) ==
    /\ s \in checkers
    /\ s \notin live \/ s[1] \in stopping
    /\ checkers' = checkers \ {s}
    /\ UNCHANGED <<etcd, election, isLeader, live, stopping, faults>>

-----------------------------------------------------------------------------
(* The processes *)

Stop(i) ==
    /\ i \in MayStop \ stopping
    /\ stopping' = stopping \cup {i}
    /\ UNCHANGED <<etcd, election, leading, faults>>

(* The process dies and is started again; etcd keeps its lease for the TTL. *)
Crash(i) ==
    /\ Fault
    /\ epc' = [epc EXCEPT ![i] = "start"]
    /\ kept' = {s \in kept : s[1] # i}
    /\ isLeader' = [isLeader EXCEPT ![i] = FALSE]
    /\ live' = {s \in live : s[1] # i}
    /\ checkers' = {s \in checkers : s[1] # i}
    /\ stopping' = stopping \ {i}
    /\ UNCHANGED <<etcd, cur>>

-----------------------------------------------------------------------------
ElectionStep(i) ==
    \/ NewSession(i) \/ PutKey(i) \/ Lock(i) \/ LockFails(i) \/ BecomeLeader(i)
    \/ SessionDone(i) \/ StepDown(i) \/ Unlock(i) \/ CloseSession(i) \/ RunExit(i)

Next ==
    \/ \E i \in Instances : ElectionStep(i) \/ Stop(i) \/ Crash(i)
    \/ \E s \in Session : LeaseExpires(s) \/ KeepAliveEnds(s) \/ CheckerExit(s)

Spec == Init /\ [][Next]_vars

(* Every election loop is scheduled and reaches etcd in the end, a lease that
   nobody keeps alive runs out, and a client learns that its lease is gone. *)
Fairness ==
    /\ \A i \in Instances : WF_vars(ElectionStep(i))
    /\ \A s \in Session :
          /\ WF_vars(s \notin kept /\ LeaseExpires(s))
          /\ WF_vars(s \notin leases /\ KeepAliveEnds(s))

FairSpec == Spec /\ Fairness

-----------------------------------------------------------------------------
(* Properties *)

(* The type invariant. *)
TypeOK ==
    /\ leases \subseteq Session
    /\ keys \subseteq leases
    /\ rev \in [Session -> Nat]
    /\ nextRev \in Nat
    /\ epc \in [Instances -> Steps]
    /\ cur \in [Instances -> 0..MaxSessions]
    /\ kept \subseteq Session
    /\ isLeader \in [Instances -> BOOLEAN]
    /\ live \subseteq Session
    /\ \A i \in Instances : isLeader[i] <=> epc[i] = "lead"
    /\ \A i \in Instances : isLeader[i] <=> S(i) \in live
    /\ checkers \subseteq Session
    /\ stopping \subseteq Instances
    /\ faults \in 0..MaxFaults

(* An instance that takes itself for the leader owns the mutex as long as etcd
   has its lease: stepping down, unlocking and closing the session come in an
   order that never frees the mutex under a leader. *)
LeaderOwnsLock ==
    \A i \in Instances : isLeader[i] /\ S(i) \in leases => Owner(S(i))

(* No two instances with a lease take themselves for the leader: two leaders
   there can only be while one of them has not yet heard that its lease is
   gone. *)
OneLeaderWithLease ==
    \A i, j \in Instances :
        isLeader[i] /\ isLeader[j] /\ {S(i), S(j)} \subseteq leases => i = j

(* Only the context of the present term of a leader is live, so a continuity
   checker of an earlier term has been told to return. *)
OnlyLeadersCheck == \A s \in live : isLeader[s[1]] /\ s = S(s[1])

(* While some instance stays up, there is a leader again and again, whatever
   leases are lost and whatever instances crash or stop. *)
Failover == []<>(\E i \in Instances : isLeader[i] /\ S(i) \in leases)
=============================================================================
