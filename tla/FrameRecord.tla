----------------------------- MODULE FrameRecord -----------------------------
(***************************************************************************)
(* What one line of the frame log says: the record of a frame and its      *)
(* timestamp, from src/observability/frame_log.rs.                         *)
(*                                                                         *)
(* A payload is a sequence of bytes, of which a few stand for all: ASCII,  *)
(* the three bytes of U+FFFD, a lead byte of two, another continuation,    *)
(* and a byte that UTF-8 never holds.  Of the lead bytes of three, EF is   *)
(* the only one, of four there is none.                                    *)
(***************************************************************************)
EXTENDS Integers, Sequences, SequencesExt, FiniteSetsExt

Bytes == {"ascii", "EF", "BF", "BD", "C3", "80", "FF"}
Continuations == {"BF", "BD", "80"}
Replacement == <<"EF", "BF", "BD">>

Characters ==
    {<<"ascii">>} \cup ({"C3"} \X Continuations) \cup ({"EF"} \X Continuations \X Continuations)

\* The offsets up to which a payload is a run of the given characters.
Runs(bytes, characters) ==
    LET reached[n \in 0..Len(bytes)] ==
            n = 0 \/ \E k \in 1..3 : /\ k <= n /\ reached[n - k]
                                      /\ SubSeq(bytes, n - k + 1, n) \in characters
    IN  {n \in 0..Len(bytes) : reached[n]}

\* std::str::from_utf8 and Utf8Error::valid_up_to
ValidUpTo(bytes) == Max(Runs(bytes, Characters))
IsText(bytes) == ValidUpTo(bytes) = Len(bytes)

None == -1

\* str::find of the replacement character: a byte offset from zero.
Find(text) ==
    LET at == {i \in 1..Len(text) - 2 : SubSeq(text, i, i + 2) = Replacement}
    IN  IF at = {} THEN None ELSE Min(at) - 1

\* Invalid bytes are reported where they are, whatever came before them.
FirstFaultByteSlip(bytes) == IF IsText(bytes) THEN Find(bytes) ELSE ValidUpTo(bytes)

\* first_fault_byte
FirstFaultByte(bytes) ==
    IF IsText(bytes) THEN Find(bytes)
    ELSE LET invalidAt == ValidUpTo(bytes)
             inPrefix == Find(SubSeq(bytes, 1, invalidAt))
         IN  IF inPrefix # None THEN inPrefix ELSE invalidAt

Record(kind, bytes, fault) ==
    [kind |-> kind, bytes |-> Len(bytes), fffd |-> fault # None, fault_byte_offset |-> fault]

TextRecord(text) == Record("text", text, Find(text))
BinaryRecord(bytes) == Record("binary", bytes, FirstFaultByte(bytes))

\* The century correction within an era is forgotten.
CivilFromDaysSlip(days) ==
    LET z == days + 719468
        era == z \div 146097
        doe == z - era * 146097
        yoe == (doe - doe \div 1460) \div 365
        doy == doe - (365 * yoe + yoe \div 4 - yoe \div 100)
        mp == (5 * doy + 2) \div 153
        month == IF mp < 10 THEN mp + 3 ELSE mp - 9
    IN  <<yoe + era * 400 + (IF month <= 2 THEN 1 ELSE 0), month,
          doy - (153 * mp + 2) \div 5 + 1>>

\* civil_from_days, of the days since 1970 (never before: duration_since).
CivilFromDays(days) ==
    LET z == days + 719468
        era == z \div 146097
        doe == z - era * 146097
        yoe == (doe - doe \div 1460 + doe \div 36524 - doe \div 146096) \div 365
        doy == doe - (365 * yoe + yoe \div 4 - yoe \div 100)
        mp == (5 * doy + 2) \div 153
        month == IF mp < 10 THEN mp + 3 ELSE mp - 9
    IN  <<yoe + era * 400 + (IF month <= 2 THEN 1 ELSE 0), month,
          doy - (153 * mp + 2) \div 5 + 1>>

\* The clock of timestamp, of the seconds since midnight.
Clock(rem) == <<rem \div 3600, (rem % 3600) \div 60, rem % 60>>

-----------------------------------------------------------------------------
(* Properties *)

\* The offset logged of a frame is where its first fault begins: up to it the
\* payload is sound text without a replacement character, and there it no longer
\* goes on as such.  A text frame is recorded as the same bytes in a binary frame
\* would be.
FaultIsTheFirst(bytes) ==
    LET sound == Runs(bytes, Characters \ {Replacement})
        record == BinaryRecord(bytes)
    IN  /\ record.fffd <=> Len(bytes) \notin sound
        /\ record.fffd => record.fault_byte_offset = Max(sound)
        /\ IsText(bytes) => TextRecord(bytes) = [record EXCEPT !.kind = "text"]

Leap(year) == year % 4 = 0 /\ (year % 100 # 0 \/ year % 400 = 0)
MonthLength(year, month) ==
    CASE month = 2 -> IF Leap(year) THEN 29 ELSE 28
      [] month \in {4, 6, 9, 11} -> 30
      [] OTHER -> 31

\* The date of the day after, by the rules of the calendar.
Tomorrow(date) ==
    CASE date[3] < MonthLength(date[1], date[2]) -> <<date[1], date[2], date[3] + 1>>
      [] date[3] = MonthLength(date[1], date[2]) /\ date[2] < 12 -> <<date[1], date[2] + 1, 1>>
      [] OTHER -> <<date[1] + 1, 1, 1>>

\* Divisions around eras, leap years and a year that begins in March arrive at the
\* date one gets by counting days, and the clock at the second it was given.
DatesFollowTheCalendar(days, date, rem) ==
    /\ CivilFromDays(days) = date
    /\ LET clock == Clock(rem)
       IN  /\ clock \in (0..23) \X (0..59) \X (0..59)
           /\ (clock[1] * 60 + clock[2]) * 60 + clock[3] = rem
=============================================================================
