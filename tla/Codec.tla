------------------------------- MODULE Codec -------------------------------
(***************************************************************************)
(* The encodings of src/src/storage/codec.rs: how an entry, a hard state   *)
(* and a configuration are laid out, and what is read from a row that may  *)
(* have lost its tail, which is what the length checks are there for.  A   *)
(* cell stands for a number of fixed width, a length or a byte.  Messages  *)
(* and snapshots are prost's, and left out.                                *)
(***************************************************************************)
EXTENDS Integers, Sequences, SequencesExt

CONSTANTS
    CodecNumbers, \* values of a cell
    CodecStrings  \* sequences of them: data, contexts and lists of node ids

ASSUME CodecAssumption == CodecNumbers \subseteq Nat /\ CodecStrings \subseteq Seq(Nat)

VARIABLES
    written, \* what was serialized [what, value]
    cells    \* the row, whole or cut short

codecVars == <<written, cells>>

NothingWritten == [what |-> "nothing"]
Refused == [what |-> "refused"]

Cell(flag) == IF flag THEN 1 ELSE 0
WithLength(s) == <<Len(s)>> \o s

(* A length and as many cells, from position at.                           *)
Fits(row, at) == at <= Len(row) /\ at + row[at] <= Len(row)
ReadString(row, at) == SubSeq(row, at + 1, at + row[at])
After(row, at) == at + row[at] + 1

---------------------------------------------------------------------------
(* Entries *)

SerializeEntry(e) ==
    <<e.index, e.term, e.entry_type>> \o WithLength(e.data) \o WithLength(e.context)
        \o <<Cell(e.sync_log)>>

(* A slip: a flag that is missing is FALSE. *)
SlipDeserializeEntry(row) ==
    IF Len(row) < 6 \/ ~Fits(row, 4) \/ ~Fits(row, After(row, 4)) THEN Refused
    ELSE LET context == After(row, 4)
             sync == After(row, context)
         IN  [what |-> "entry", value |->
                [index |-> row[1], term |-> row[2], entry_type |-> row[3],
                 data |-> ReadString(row, 4), context |-> ReadString(row, context),
                 sync_log |-> sync <= Len(row) /\ row[sync] # 0]]

DeserializeEntry(row) ==
    IF Len(row) < 6 \/ ~Fits(row, 4) \/ ~Fits(row, After(row, 4)) THEN Refused
    ELSE LET context == After(row, 4)
             sync == After(row, context)
         IN  IF sync > Len(row) THEN Refused
             ELSE [what |-> "entry", value |->
                     [index |-> row[1], term |-> row[2], entry_type |-> row[3],
                      data |-> ReadString(row, 4), context |-> ReadString(row, context),
                      sync_log |-> row[sync] # 0]]

---------------------------------------------------------------------------
(* Hard states *)

SerializeHardState(hs) == <<hs.term, hs.vote, hs.commit>>

DeserializeHardState(row) ==
    IF Len(row) = 3
    THEN [what |-> "hard state", value |-> [term |-> row[1], vote |-> row[2], commit |-> row[3]]]
    ELSE Refused

---------------------------------------------------------------------------
(* Configurations *)

SerializeConfState(cs) ==
    WithLength(cs.voters) \o WithLength(cs.learners) \o WithLength(cs.voters_outgoing)
        \o WithLength(cs.learners_next) \o <<Cell(cs.auto_leave)>>

(* The flag at the end may be missing.                                     *)
DeserializeConfState(row) ==
    LET learners == After(row, 1)
        outgoing == After(row, learners)
        next == After(row, outgoing)
        leave == After(row, next)
    IN  IF /\ Len(row) >= 4
           /\ Fits(row, 1) /\ Fits(row, learners) /\ Fits(row, outgoing) /\ Fits(row, next)
        THEN [what |-> "configuration", value |->
                [voters |-> ReadString(row, 1), learners |-> ReadString(row, learners),
                 voters_outgoing |-> ReadString(row, outgoing),
                 learners_next |-> ReadString(row, next),
                 auto_leave |-> leave <= Len(row) /\ row[leave] # 0]]
        ELSE Refused

---------------------------------------------------------------------------
(* A row *)

CodecInit == written = NothingWritten /\ cells = <<>>

Write(record, row) ==
    /\ written = NothingWritten
    /\ written' = record /\ cells' = row

WriteEntry(e) == Write([what |-> "entry", value |-> e], SerializeEntry(e))
WriteHardState(hs) == Write([what |-> "hard state", value |-> hs], SerializeHardState(hs))
WriteConfState(cs) == Write([what |-> "configuration", value |-> cs], SerializeConfState(cs))

LoseTail ==
    /\ cells # <<>>
    /\ cells' = Front(cells)
    /\ UNCHANGED written

CodecNext ==
    \/ \E i, t \in CodecNumbers, kind \in {0, 1}, data, context \in CodecStrings, sync \in BOOLEAN :
         WriteEntry([index |-> i, term |-> t, entry_type |-> kind, data |-> data,
                     context |-> context, sync_log |-> sync])
    \/ \E t, v, c \in CodecNumbers : WriteHardState([term |-> t, vote |-> v, commit |-> c])
    \/ \E v, l, o, n \in CodecStrings, leave \in BOOLEAN :
         WriteConfState([voters |-> v, learners |-> l, voters_outgoing |-> o,
                         learners_next |-> n, auto_leave |-> leave])
    \/ LoseTail

Read ==
    CASE written.what = "entry"         -> DeserializeEntry(cells)
      [] written.what = "hard state"    -> DeserializeHardState(cells)
      [] written.what = "configuration" -> DeserializeConfState(cells)

Serialized ==
    CASE written.what = "entry"         -> SerializeEntry(written.value)
      [] written.what = "hard state"    -> SerializeHardState(written.value)
      [] written.what = "configuration" -> SerializeConfState(written.value)

---------------------------------------------------------------------------
(* Properties *)

(* A row reads back as what was written, and one that lost any part of its *)
(* tail is refused, although the lengths in it are not told from its data. *)
(* The exception is a configuration that lost its last flag only, which    *)
(* reads as one that does not leave a joint configuration by itself.       *)
ReadsBackOrRefuses ==
    written # NothingWritten =>
        \/ cells = Serialized /\ Read = written
        \/ cells # Serialized /\ Read = Refused
        \/ /\ written.what = "configuration" /\ cells = Front(Serialized)
           /\ Read = [written EXCEPT !.value.auto_leave = FALSE]
=============================================================================
