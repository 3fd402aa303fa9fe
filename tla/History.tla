------------------------------- MODULE History -------------------------------
(***************************************************************************)
(* The record history (history.c): a chain of fixed-size lists, newest     *)
(* list first, of which each entry names a key, a version number and the   *)
(* data block that holds that version.                                     *)
(*                                                                         *)
(* The chain is kept as one sequence of entries in the order they were     *)
(* added; entry p is in list ListOf(p).  An erased entry stays in place.   *)
(* The field val is not in the code: it is what the block held when the    *)
(* entry was made, for the properties.                                     *)
(***************************************************************************)
EXTENDS Integers, Sequences

CONSTANTS
    HistListSize,   \* HISTORY_LIST_SIZE
    NoKey           \* an all-zero quid

ASSUME HistListAssumption == HistListSize \in Nat \ {0, 1}

Erased == [quid |-> NoKey, version |-> 0, offset |-> 0, val |-> NoKey]

ListOf(p) == (p - 1) \div HistListSize

(***************************************************************************)
(* Every function of history.c walks the chain from the newest list to the *)
(* oldest and each list from its first entry to its last.                  *)
(***************************************************************************)
Earlier(p, q) == \/ ListOf(p) > ListOf(q)
                 \/ ListOf(p) = ListOf(q) /\ p < q

FirstSeen(S) == CHOOSE p \in S : \A q \in S : p = q \/ Earlier(p, q)

LastSeen(S) == CHOOSE p \in S : \A q \in S : p = q \/ Earlier(q, p)

EntriesOf(h, key) == {p \in DOMAIN h : h[p].quid = key}

\* history_get_next_version(): one more than the version seen last on the walk.
NextVersion(h, key) ==
    IF EntriesOf(h, key) = {} THEN 0
    ELSE h[LastSeen(EntriesOf(h, key))].version + 1

\* history_get_version_offset(): the block of a version, 0 if there is none.
VersionOffset(h, key, version) ==
    LET S == {p \in EntriesOf(h, key) : h[p].version = version /\ h[p].offset # 0}
    IN  IF S = {} THEN 0 ELSE h[FirstSeen(S)].offset

\* history_delete(): erases the first entry of a block, fails if there is none.
HoldersOf(h, offset) == {p \in DOMAIN h : h[p].offset = offset}

HistoryDeleteFails(h, offset) == HoldersOf(h, offset) = {}

HistoryDeleteNothing(h, offset) == h    \* mutant: leaves the entry

HistoryDelete(h, offset) ==
    IF HistoryDeleteFails(h, offset) THEN h
    ELSE [h EXCEPT ![FirstSeen(HoldersOf(h, offset))] = Erased]

\* history_add(): the entry goes to the end of the newest list ...
HistoryAddFirst(h, key, offset, val) ==     \* mutant: numbers nothing
    Append(h, [quid |-> key, version |-> 0, offset |-> offset, val |-> val])

HistoryAdd(h, key, offset, val) ==
    Append(h, [quid |-> key, version |-> NextVersion(h, key),
               offset |-> offset, val |-> val])

\* ... and a list is taken from the pager for the first entry, and whenever an
\* entry fills up the newest list.
TakesList(h) == h = <<>> \/ (Len(h) + 1) % HistListSize = 0
=============================================================================
