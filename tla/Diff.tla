-------------------------------- MODULE Diff --------------------------------
(***************************************************************************)
(* internal/diff: the rows an audit reports and an enforce deletes from.   *)
(*                                                                         *)
(* A snapshot maps every entry to what a listing shows of it: the value of *)
(* a variable, only the presence (Hidden) of a secret, None when absent.   *)
(* The rows are a function on Keys; the status "absent" marks an entry     *)
(* that gets no row.                                                       *)
(***************************************************************************)
EXTENDS Plan

CONSTANTS
  Hidden,   \* a secret is there; its value is never shown
  Empty,    \* the empty string, the desired value a dry run compares with
  Garbage   \* what a secret sealed with the wrong key decrypts to

ASSUME SeenAssumption == /\ Hidden \notin Values /\ Empty \notin Values
                         /\ Garbage \notin Values /\ None # Hidden /\ None # Empty
                         /\ None # Garbage /\ Hidden # Garbage

Seen == Values \cup {Garbage, Hidden, None}

Statuses == {"match", "mismatch", "present", "missing", "extra", "ignored", "absent"}

\* Fault: a variable counts as a match as soon as it is there.
ManagedStatusByPresence(desired, seen) ==
  CASE seen = None -> "missing" [] seen = Hidden -> "present" [] OTHER -> "match"

ManagedStatus(desired, seen) ==
  CASE seen = None        -> "missing"
    [] seen = Hidden      -> "present"
    [] seen = desired /\ seen \notin {None, Hidden} -> "match"
    [] OTHER              -> "mismatch"

UnmanagedStatus(k, intents, seen) ==
  CASE seen # None /\ k \in EffectiveIgnored(intents) -> "ignored"
    [] seen # None /\ k \notin EffectiveIgnored(intents) -> "extra"
    [] seen = None /\ intents[k].shields -> "ignored"
    [] OTHER -> "absent"

Override(intent) == CASE intent.overrides -> "managed"
                      [] intent.shields   -> "ignored"
                      [] OTHER            -> "none"

Compute(intents, desired, snapshot) ==
  [k \in Keys |->
     [status   |-> IF intents[k].action = "managed"
                   THEN ManagedStatus(desired[k], snapshot[k])
                   ELSE UnmanagedStatus(k, intents, snapshot[k]),
      override |-> Override(intents[k])]]

\* Fault: ignored entries are deleted with the extra ones.
ExtrasAndIgnored(rows) == {k \in Keys : rows[k].status \in {"extra", "ignored"}}

Extras(rows) == {k \in Keys : rows[k].status = "extra"}

HasDrift(rows) == \E k \in Keys : rows[k].status \notin {"match", "present", "ignored", "absent"}

\* The rows writeStanza prints, and whether it prints the header at all.
Shown(rows, showIgnored, verbose) ==
  {k \in Keys : /\ rows[k].status # "absent"
                /\ rows[k].status = "ignored" => showIgnored
                /\ rows[k].status = "match" => verbose}

PrintsStanza(rows, showIgnored, verbose) == verbose \/ Shown(rows, showIgnored, verbose) # {}

=============================================================================
