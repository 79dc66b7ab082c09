----------------------------- MODULE CharBuffer -----------------------------
(***************************************************************************)
(* src/src/utilities.c: cp_wchar(); cp_dchar() does the same to the        *)
(* buffers of debugger_t, but for one switch that forgets MAIN_PATH_BUF    *)
(* and is not modelled.  Characters are copied one by one into a           *)
(* heap buffer that doubles up to MAX_DOUBLE_TIMES times and then loops    *)
(* back to its start.  The buffer is reset before every reload but keeps   *)
(* its size.  The cell one past the allocation is part of the model.       *)
(***************************************************************************)
EXTENDS Naturals, Sequences, FiniteSets

CONSTANTS Chars, Nul,
          Undefined,        \* what memory that nothing was written to holds
          OrigBufLen,       \* ORIG_BUF_LEN (16384 in the code)
          MaxDoubleTimes,   \* MAX_DOUBLE_TIMES (3 in the code)
          MaxText           \* bound on the characters copied between two resets

ASSUME CharsAssumption == Nul \notin Chars /\ Undefined \notin Chars \cup {Nul}
ASSUME SizesAssumption ==
  OrigBufLen \in Nat \ {0} /\ MaxDoubleTimes \in Nat /\ MaxText \in Nat

VARIABLES buff, buff_pos, buff_len, times_doubled,    \* buff_data_t
          text,             \* history: the characters copied since the last reset
          doubled_before,   \* history: times_doubled at that reset
          looped            \* history: the buffer looped back since that reset

buffData == <<buff, buff_pos, buff_len, times_doubled>>
vars == <<buff, buff_pos, buff_len, times_doubled, text, doubled_before, looped>>

(* allocate_plugin_windows() leaves the memory as malloc() returned it,    *)
(* configure_debugger() terminates it.                                     *)
Init ==
  /\ \E first \in {Nul, Undefined} :
       buff = [i \in 0 .. OrigBufLen |-> IF i = 0 THEN first ELSE Undefined]
  /\ buff_pos = 0 /\ buff_len = OrigBufLen /\ times_doubled = 0
  /\ text = <<>> /\ doubled_before = 0 /\ looped = FALSE

-----------------------------------------------------------------------------
(* The first two statements.                                               *)
Written(ch) == [buff EXCEPT ![buff_pos] = ch, ![buff_pos + 1] = Nul]

Copied(ch) == Len(text) < MaxText /\ text' = Append(text, ch)

Advance_ToEnd(ch) ==
  /\ buff_pos < buff_len
  /\ Copied(ch)
  /\ buff' = Written(ch)
  /\ buff_pos' = buff_pos + 1
  /\ UNCHANGED <<buff_len, times_doubled, doubled_before, looped>>

Advance_NoWrite(ch) ==
  /\ buff_pos < buff_len - 1
  /\ Copied(ch)
  /\ buff_pos' = buff_pos + 1
  /\ UNCHANGED <<buff, buff_len, times_doubled, doubled_before, looped>>

Advance(ch) ==
  /\ buff_pos < buff_len - 1
  /\ Copied(ch)
  /\ buff' = Written(ch)
  /\ buff_pos' = buff_pos + 1
  /\ UNCHANGED <<buff_len, times_doubled, doubled_before, looped>>

DoubleBuffer_FromStart(ch) ==
  /\ buff_pos >= buff_len - 1 /\ times_doubled < MaxDoubleTimes
  /\ Copied(ch)
  /\ buff_len' = 2 * buff_len
  /\ times_doubled' = times_doubled + 1
  /\ buff' = [i \in 0 .. 2 * buff_len |-> IF i < buff_len THEN Written(ch)[i] ELSE Undefined]
  /\ buff_pos' = 0
  /\ UNCHANGED <<doubled_before, looped>>

(* realloc() keeps what was inside the old allocation.                     *)
DoubleBuffer(ch) ==
  /\ buff_pos >= buff_len - 1 /\ times_doubled < MaxDoubleTimes
  /\ Copied(ch)
  /\ buff_len' = 2 * buff_len
  /\ times_doubled' = times_doubled + 1
  /\ buff' = [i \in 0 .. 2 * buff_len |-> IF i < buff_len THEN Written(ch)[i] ELSE Undefined]
  /\ UNCHANGED <<buff_pos, doubled_before, looped>>

LoopBack(ch) ==
  /\ buff_pos >= buff_len - 1 /\ times_doubled >= MaxDoubleTimes
  /\ Copied(ch)
  /\ buff' = Written(ch)
  /\ buff_pos' = 0
  /\ looped' = TRUE
  /\ UNCHANGED <<buff_len, times_doubled, doubled_before>>

cp_wchar(ch) == Advance(ch) \/ DoubleBuffer(ch) \/ LoopBack(ch)

Reset_ForgetsPos ==
  /\ text' = <<>> /\ doubled_before' = times_doubled /\ looped' = FALSE
  /\ UNCHANGED <<buff, buff_pos, buff_len, times_doubled>>

(* parse_debugger_output() also terminates the buffer, the windows do not. *)
Reset ==
  /\ buff_pos' = 0
  /\ buff' \in {buff, [buff EXCEPT ![0] = Nul]}
  /\ text' = <<>> /\ doubled_before' = times_doubled /\ looped' = FALSE
  /\ UNCHANGED <<buff_len, times_doubled>>

Next == Reset \/ \E ch \in Chars : cp_wchar(ch)

Spec == Init /\ [][Next]_vars

-----------------------------------------------------------------------------
TypeOK ==
  /\ buff_len \in Nat \ {0} /\ times_doubled \in 0 .. MaxDoubleTimes
  /\ buff \in [0 .. buff_len -> Chars \cup {Nul, Undefined}]
  /\ buff_pos \in 0 .. buff_len - 1
  /\ text \in Seq(Chars) /\ Len(text) <= MaxText
  /\ doubled_before \in 0 .. times_doubled
  /\ looped \in BOOLEAN

(* A reader that stops at buff_pos meets characters only, never memory     *)
(* nobody wrote, whatever was reset, doubled and looped before.            *)
PrefixDefined == \A i \in 0 .. buff_pos - 1 : buff[i] \in Chars

(* Each doubling swallows exactly one character: buff_pos stays where it   *)
(* is and the next character is written over the one that was just copied. *)
LossAccounted ==
  ~looped => buff_pos + (times_doubled - doubled_before) = Len(text)

(* The buffer holds the text from its start, without the characters that   *)
(* sat in the last cell when it doubled.                                   *)
LengthAfter[doublings \in 0 .. MaxDoubleTimes] ==
  IF doublings = 0 THEN OrigBufLen ELSE 2 * LengthAfter[doublings - 1]
DroppedBefore(i) ==
  Cardinality({k \in doubled_before .. times_doubled - 1 : LengthAfter[k] - 1 <= i})
CopiesText ==
  ~looped => \A i \in 0 .. buff_pos - 1 : buff[i] = text[i + 1 + DroppedBefore(i)]
=============================================================================
