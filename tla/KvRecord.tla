------------------------------ MODULE KvRecord ------------------------------
(***************************************************************************)
(* Writing a whole record into the host's key-value store                  *)
(* (src/kvRecord.ts).  A record is a function of its keys, in which the    *)
(* value `none` stands for a key that is not there.                        *)
(***************************************************************************)

Keep == [op |-> "keep"]
Drop == [op |-> "drop"]
Put(value) == [op |-> "put", value |-> value]

\* The host's store setter: it merges the keys it is given into what is there,
\* and deletes only those given an explicit `undefined`.
KvMerge(prev, patch, none) ==
  [k \in DOMAIN prev |-> CASE patch[k].op = "keep" -> prev[k]
                           [] patch[k].op = "drop" -> none
                           [] OTHER                -> patch[k].value]

\* Mutant: the plain set that writeKvRecord replaces.
WriteKvRecordPlain(prev, snapshot, none) ==
  KvMerge(prev, [k \in DOMAIN prev |->
                   IF snapshot[k] # none THEN Put(snapshot[k]) ELSE Keep], none)

\* What the record holds once `snapshot` has been written over it.
WriteKvRecord(prev, snapshot, none) ==
  KvMerge(prev, [k \in DOMAIN prev |->
                   IF snapshot[k] # none THEN Put(snapshot[k])
                   ELSE IF prev[k] # none THEN Drop ELSE Keep], none)
=============================================================================
