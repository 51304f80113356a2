------------------------------ MODULE LogLine ------------------------------
(***************************************************************************)
(* elog_output of logger/elog.c: a line is put together in log_buf, which  *)
(* keeps what the line before has left in it, and goes out under the lock. *)
(*                                                                         *)
(* A byte is a name for what it belongs to.  Colours are compiled in, and  *)
(* may be on or off.  The head is what comes before the message: level,    *)
(* tag, time, place.                                                       *)
(***************************************************************************)
EXTENDS Naturals, SequencesExt

CONSTANTS
  LineSize,       \* ELOG_LINE_BUF_SIZE
  Colour,         \* CSI_START with the colour of the level
  ColourEnd,      \* CSI_END
  Newline,        \* ELOG_NEWLINE_SIGN
  Heads,          \* bound: the heads of lines
  LogTexts,       \* bound: the messages
  Keyword,        \* the byte the keyword filter looks for
  Nul             \* the byte that ends a string

ASSUME LineAssumption ==
  /\ LineSize \in Nat /\ Len(ColourEnd) + Len(Newline) \in 1 .. LineSize
  /\ \A s \in {Colour, ColourEnd, Newline} \cup Heads \cup LogTexts :
       s \in Seq(Range(s)) /\ Nul \notin Range(s)

VARIABLES
  coloured,  \* elog.text_color_enabled
  filtered,  \* a keyword is set
  log_buf,   \* the bytes of the line buffer
  line,      \* the line that went out last
  meant,     \* history: the bytes that should have come before its end
  unprinted  \* history: vsnprintf failed for that line

lineVars == <<coloured, filtered, log_buf, line, meant, unprinted>>

LineInit ==
  /\ coloured \in BOOLEAN /\ filtered \in BOOLEAN
  /\ log_buf = [i \in 1 .. LineSize |-> Nul]
  /\ line = << >> /\ meant = << >> /\ unprinted = FALSE

Smaller(m, n) == IF m < n THEN m ELSE n
\* The line of n bytes in buf.
LineOf(buf, n) == [bytes |-> buf, log_len |-> n]

\* elog_strcpy: as much of s as there is room for.
Copied(b, s) ==
  LineOf([i \in 1 .. LineSize |->
            IF i - b.log_len \in DOMAIN s THEN s[i - b.log_len] ELSE b.bytes[i]],
         Smaller(LineSize, b.log_len + Len(s)))

\* vsnprintf: as much of s as there is room for with a Nul behind it.  It says
\* how long all of s is, and a line that is longer than the buffer is cut.
Printed(b, s) ==
  LET room == LineSize - b.log_len
      text == Append(SubSeq(s, 1, Smaller(Len(s), room - 1)), Nul)
  IN LineOf(IF room = 0 THEN b.bytes ELSE Copied(b, text).bytes,
            Smaller(LineSize, b.log_len + Len(s)))

\* When it fails half way, which a negative number says, the whole buffer counts as
\* the line, and what another line has left there with it.
PrintFailed(b, s) == LineOf(Printed(b, s).bytes, LineSize)

\* Faulty variant: no place is kept for the newline sign.
ReservedColour(b) ==
  LineOf(b.bytes, Smaller(b.log_len, LineSize - Len(ColourEnd)))

\* Place is kept for the end of the colour, whether it is on or off, and for
\* the newline sign.
Reserved(b) ==
  LineOf(b.bytes, Smaller(b.log_len, LineSize - Len(ColourEnd) - Len(Newline)))

\* strstr finds the keyword: it is there, and no Nul in front of it.
KeywordIn(b) ==
  \E i \in 1 .. b.log_len : b.bytes[i] = Keyword /\ \A j \in 1 .. i : b.bytes[j] # Nul

\* One call, with the text vsnprintf makes, or has made until it fails.  A line
\* without the keyword does not go out, but is in the buffer.
Output(head, text, fails) ==
  LET begun == IF coloured THEN Copied(LineOf(log_buf, 0), Colour) ELSE LineOf(log_buf, 0)
      printed == IF fails THEN PrintFailed(Copied(begun, head), text) ELSE Printed(Copied(begun, head), text)
      body == Reserved(printed)
      whole == IF coloured THEN Copied(body, ColourEnd) ELSE body
      done == Copied(whole, Newline)
  IN /\ UNCHANGED <<coloured, filtered>>
     /\ IF filtered /\ ~KeywordIn(body)
        THEN /\ log_buf' = [i \in 1 .. LineSize |-> IF i = body.log_len + 1 THEN Nul ELSE body.bytes[i]]
             /\ UNCHANGED <<line, meant, unprinted>>
        ELSE /\ log_buf' = done.bytes
             /\ line' = SubSeq(done.bytes, 1, done.log_len)
             /\ meant' = (IF coloured THEN Colour ELSE << >>) \o head \o text
             /\ unprinted' = fails

LineNext == \E head \in Heads, text \in LogTexts, fails \in BOOLEAN : Output(head, text, fails)

LineSpec == LineInit /\ [][LineNext]_lineVars

-----------------------------------------------------------------------------
(* Properties *)

\* A line that goes out is what was meant or, only when that does not fit, the
\* beginning of it, and neither the Nul of vsnprintf nor bytes of an earlier line are
\* in it - unless vsnprintf failed, after which they are.  Whole, cut or failed, it
\* closes its colour, ends with a newline and holds the keyword it was let through
\* for.  (elog_output, elog_strcpy)
LineWhole ==
  line # << >> =>
    LET end == (IF coloured THEN ColourEnd ELSE << >>) \o Newline
        body == SubSeq(line, 1, Len(line) - Len(end))
    IN /\ IsSuffix(end, line)
       /\ ~unprinted => IsPrefix(body, meant)
       /\ ~unprinted => body = meant \/ Len(meant) + Len(ColourEnd) + Len(Newline) > LineSize
       /\ filtered => Keyword \in Range(body)

=============================================================================
