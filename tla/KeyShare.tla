----------------------------- MODULE KeyShare -----------------------------
(***************************************************************************)
(* KeyShare: the public keys by the name of their owner, from a directory  *)
(* that is read at the start and asked again for names that are missing,   *)
(* and from callers.  Files may appear later.                              *)
(***************************************************************************)
EXTENDS Integers, Sequences, SequencesExt, FiniteSets

CONSTANTS
  Names,     \* numbers, in the order of the names
  MaxAdd     \* AddKey calls

VARIABLES
  file,                  \* file[n]: the key in n.pub, "no" file, or a "bad" one
  fs_enabled, _keys, _sorted_keys,
  added,                 \* who was added by a caller
  found                  \* the last GetKey: what Contains said and what came

vars == <<file, fs_enabled, _keys, _sorted_keys, added, found>>

NoKey == "no"
Put(f, n, v) == [m \in DOMAIN f \cup {n} |-> IF m = n THEN v ELSE f[m]]

\* The name goes in front of the first greater one.
InsertName(s, n) ==
  LET before == SelectSeq(s, LAMBDA m : m <= n)
      after == SelectSeq(s, LAMBDA m : m > n)
  IN before \o <<n>> \o after

\* CheckPath: valid files only.
Loaded(f) == {n \in Names : f[n] \notin {NoKey, "bad"}}
Init ==
  /\ file \in [Names -> {NoKey, "bad", "file"}] /\ fs_enabled \in BOOLEAN
  /\ _keys = IF fs_enabled THEN [n \in Loaded(file) |-> file[n]] ELSE <<>>
  /\ _sorted_keys = IF fs_enabled THEN SetToSortSeq(Loaded(file), LAMBDA a, b : a < b) ELSE <<>>
  /\ added = <<>> /\ found = <<>>

AddKey == \E n \in Names :
  /\ Len(added) < MaxAdd
  /\ _keys' = Put(_keys, n, "caller") /\ _sorted_keys' = InsertName(_sorted_keys, n)
  /\ added' = Append(added, n) /\ found' = <<>>
  /\ UNCHANGED <<file, fs_enabled>>

ContainsName(n) == n \in DOMAIN _keys \/ (fs_enabled /\ file[n] # NoKey)

\* A key that is read here stays, but its name does not get into the list.
GetKey == \E n \in Names :
  LET has == n \in DOMAIN _keys
      read == ~has /\ fs_enabled /\ file[n] # NoKey
  IN /\ _keys' = IF read THEN Put(_keys, n, file[n]) ELSE _keys
     /\ found' = <<n, ContainsName(n), IF n \in DOMAIN _keys' THEN _keys'[n] ELSE NoKey>>
     /\ UNCHANGED <<file, fs_enabled, _sorted_keys, added>>

\* The file system, outside of the program.
FileAppears == \E n \in Names :
  /\ file[n] = NoKey /\ file' = [file EXCEPT ![n] = "file"] /\ found' = <<>>
  /\ UNCHANGED <<fs_enabled, _keys, _sorted_keys, added>>

Next == AddKey \/ GetKey \/ FileAppears
Spec == Init /\ [][Next]_vars

-----------------------------------------------------------------------------
(* Properties *)

\* Contains promises what GetKey delivers; a caller's key wins over a file that
\* comes later; the iterator goes through names in order and has a valid key
\* for each, every added name among them.
SharesKeys ==
  /\ found # <<>> => (found[2] <=> found[3] # NoKey)
  /\ \A i \in DOMAIN added : _keys[added[i]] = "caller" /\ ContainsName(added[i])
  /\ \A i \in 1..(Len(_sorted_keys) - 1) : _sorted_keys[i] <= _sorted_keys[i + 1]
  /\ \A i \in DOMAIN _sorted_keys : _keys[_sorted_keys[i]] \notin {NoKey, "bad"}
  /\ Range(added) \subseteq Range(_sorted_keys)

=============================================================================
