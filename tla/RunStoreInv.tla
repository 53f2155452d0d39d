---------------------------- MODULE RunStoreInv -----------------------------
(***************************************************************************)
(* The inductive invariant of RunStore.  TInv types the variables,         *)
(* LocalInv relates one client's call and object to the disk, GlobalInv is *)
(* about the disk alone.                                                   *)
(***************************************************************************)
EXTENDS RunStore

\* A call that works on a run has one.
CallInv == \A p \in Client : pc[p] \in {"mkData", "mkMeta", "update"} =>
                /\ target[p] \in Run
                /\ slot[p] \in Writer
                /\ at[p] \in 0..Len(batch[p])

TInv == TypeOK /\ CallInv

VersionSupported == /\ VersionComplete
                    /\ version["major"] = "current"
                    /\ version["serializer"] = "current"

\* The LOCK is held wherever the code is between DB::Open and the end of
\* closeDatabase.
Held(p) == pc[p] \in Session \cup VersionKey => lock = p /\ exists

\* The object lists what is on disk, and only a session has an object.
Mirror(p) ==
    /\ pc[p] \in Session =>
          /\ handles[p] = cfs
          /\ RunsOf(cfs) \subseteq runs[p]
          /\ isNew[p] => made[p] = cfs
    /\ pc[p] \notin Session =>
          handles[p] = {} /\ made[p] = {} /\ runs[p] = {}

\* What is known of the version at each point of an open.
Versions(p) ==
    /\ pc[p] \in Opening => version["major"] \in {"unset", "current"}
    /\ pc[p] = "open" => exists
    /\ pc[p] \in VersionKey => cfs = {}
    /\ pc[p] \in {"minor", "serializer"} => version["major"] = "current"
    /\ pc[p] = "serializer" => version["minor"] = "current"
    /\ pc[p] \in Session => VersionSupported
    /\ pc[p] = "drop" => ~isNew[p]

\* The run that addRunWriter works on.
Names(p) ==
    /\ pc[p] \in {"mkData", "mkMeta"} =>
          /\ target[p] \in runs[p]
          /\ Meta(target[p]) \notin cfs
          /\ at[p] = 0
    /\ pc[p] = "mkData" => Data(target[p]) \notin cfs
    /\ pc[p] = "mkMeta" => Data(target[p]) \in cfs

\* Where a run may be half there although nothing was cut short.
Clean(p) == ~torn =>
    /\ pc[p] \in {"ready", "mkData", "update"} => RunsWhole(cfs)
    /\ pc[p] = "mkMeta" =>
          \A r \in Run : r # target[p] => (Data(r) \in cfs <=> Meta(r) \in cfs)
    /\ pc[p] = "drop" => \A r \in Run : Data(r) \in cfs => Meta(r) \in cfs
    /\ lock = p /\ pc[p] \notin Session \cup VersionKey =>
          /\ version["serializer"] = "newer"
          /\ VersionComplete
          /\ RunsWhole(cfs)

Stored(p) == pc[p] = "update" =>
    \A i \in 1..at[p] : Written(p)[batch[p][i][1]] = batch[p][i][2]

LocalInv(p) == /\ Held(p)
               /\ Mirror(p)
               /\ Versions(p)
               /\ Names(p)
               /\ Clean(p)
               /\ Stored(p)

GlobalInv ==
    /\ ~exists => /\ version = [k \in VersionKey |-> "unset"]
                  /\ cfs = {}
                  /\ lock = NoClient
    /\ cfs # {} => VersionSupported
    /\ CleanDiskReopens
    /\ \A r \in Run : Meta(r) \notin cfs => meta[r] = NoMeta

\* All of it: what every step of every client preserves.
IInv == /\ TInv
        /\ GlobalInv
        /\ \A p \in Client : LocalInv(p)
=============================================================================
