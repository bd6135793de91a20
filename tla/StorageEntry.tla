---------------------------- MODULE StorageEntry ----------------------------
(***************************************************************************)
(* The value every storage backend keeps per key (src/storage/entry.rs).   *)
(* One record type serves every algorithm; a field an algorithm does not   *)
(* use keeps its default.  `metadata` is never set by the library and is   *)
(* left out.  `tokens` is an f64 in the code, here an exact number of      *)
(* fractions of a token (TokenBucket says which).                          *)
(***************************************************************************)
EXTENDS Naturals, Sequences

CONSTANT None      \* Option::None, for an absent entry or an unset field

ASSUME NoneAssumption == None \notin Nat /\ None \notin Seq(Nat)

StorageEntry ==
  [count        : Nat,
   window_start : Nat,
   tat          : Nat \cup {None},
   tokens       : Nat \cup {None},
   last_update  : Nat,
   prev_count   : Nat \cup {None},
   timestamps   : Seq(Nat) \cup {None}]

\* StorageEntry::new: an entry of the window-based algorithms.
NewEntry(count, window_start) ==
  [count        |-> count,
   window_start |-> window_start,
   tat          |-> None,
   tokens       |-> None,
   last_update  |-> window_start,
   prev_count   |-> None,
   timestamps   |-> None]

\* StorageEntry::with_tat: an entry of GCRA, all its times set to the TAT.
WithTat(tat) == [NewEntry(0, tat) EXCEPT !.tat = tat]

\* StorageEntry::with_tokens: an entry of the token and leaky buckets.
WithTokens(tokens, last_update) ==
  [NewEntry(0, last_update) EXCEPT !.tokens = tokens]

\* StorageEntry::with_timestamps: an entry of the sliding log, dated by its
\* last request.
WithTimestamps(timestamps) ==
  LET now == IF timestamps = <<>> THEN 0 ELSE timestamps[Len(timestamps)]
  IN  [NewEntry(Len(timestamps), now) EXCEPT !.timestamps = timestamps]
=============================================================================
