---------------------------- MODULE StreamParser ----------------------------
(***************************************************************************)
(* The parsers of sip/parser/: the stream parser (stream.go and            *)
(* parserbuffer.go), which takes the bytes of a connection in pieces of    *)
(* any size and must find the messages in them again, and the packet       *)
(* parser (packet.go), which takes one message at a time.                  *)
(*                                                                         *)
(* The unit of text is the line, and so is the unit of Content-Length: a   *)
(* message is a sequence of lines.  One goroutine writes into a pipe, one  *)
(* parses, and reads ahead of what it parses.  The receivers of output and *)
(* errs never stop receiving (module ConnPool).                            *)
(***************************************************************************)
EXTENDS Integers, SequencesExt

CONSTANTS
  Messages,    \* what peers send: sequences of lines
  MaxMessages, \* bound: messages of a stream
  MaxResets    \* bound: calls of Reset

\* Lines: a start line, good or bad; headers, good, without a colon, or a continuation;
\* Content-Length; the empty line; a line of a body.
Length   == [L0 |-> 0, L1 |-> 1, L2 |-> 2]
IsLength(line) == line \in DOMAIN Length
Lines    == {"start", "bad", "header", "nocolon", "cont", "", "body"} \cup DOMAIN Length

ASSUME ParserAssumption == Messages \subseteq Seq(Lines) /\ MaxMessages \in Nat /\ MaxResets \in Nat

VARIABLES
  streamed,  \* the mode of the parser
  sent,      \* the messages that the peer sends on this stream
  net,       \* lines that have not been written
  pipe,      \* lines written, that the parser has not taken
  buf,       \* lines that the parser has read ahead (bufio.Reader)
  stopped,   \* Stop has been called, and has closed the pipe
  pc,        \* where parse is
  msg,       \* the lines read of the message at hand
  lens,      \* unstreamed: body length and message length that Write has put
  skip,      \* skipStreamedErr
  out,       \* messages sent down output
  errs,      \* number of errors sent down errs
  resets

vars == <<streamed, sent, net, pipe, buf, stopped, pc, msg, lens, skip, out, errs, resets>>

-----------------------------------------------------------------------------
(***************************************************************************)
(* The packet parser, which the stream parser shares its parts with.       *)
(***************************************************************************)

\* the number of lines after the first empty line, -1 if there is none
getBodyLength(data) ==
  IF "" \in ToSet(data) THEN Len(data) - SelectInSeq(data, LAMBDA l : l = "") ELSE -1

parseStartLine(line) == line = "start"

\* Each header is a line and its continuations; a continuation at the start is dropped,
\* and so is a header without a colon, with its continuations.
fillHeaders(lines) ==
  LET add(hs, line) == IF line # "cont" THEN Append(hs, <<line>>)
                       ELSE IF hs = <<>> THEN hs
                       ELSE [hs EXCEPT ![Len(hs)] = Append(@, line)]
  IN  SelectSeq(FoldLeft(add, <<>>, lines), LAMBDA h : h[1] # "nocolon")

\* msg.GetHeaders("Content-Length")
contentLengthHeaders(hs) == SelectSeq(hs, LAMBDA h : IsLength(h[1]))

Message(headers, body) == [headers |-> headers, body |-> body]
Fault == Message(<<>>, <<"fault">>)

\* ParseMessage: the body is what follows the first empty line
ParseMessage(data) ==
  LET bodyStart == Len(data) - getBodyLength(data)
      filtered  == SelectSeq(SubSeq(data, 1, bodyStart), LAMBDA l : l # "")
  IN  IF getBodyLength(data) = -1 \/ filtered = <<>> \/ ~parseStartLine(filtered[1])
      THEN Fault
      ELSE Message(fillHeaders(Tail(filtered)), SubSeq(data, bodyStart + 1, Len(data)))

-----------------------------------------------------------------------------
(***************************************************************************)
(* The writer.                                                             *)
(***************************************************************************)

\* Write takes a piece of the stream and waits until the parser has taken it.
WriteStreamed ==
  /\ streamed
  /\ ~stopped /\ pipe = <<>>
  /\ \E n \in 1..Len(net) :
       /\ pipe' = SubSeq(net, 1, n)
       /\ net' = SubSeq(net, n + 1, Len(net))
  /\ UNCHANGED <<streamed, sent, buf, stopped, pc, msg, lens, skip, out, errs, resets>>

\* Unstreamed, a message at a time, if it has an empty line, with its lengths before it.
WritePacket ==
  /\ ~streamed
  /\ ~stopped /\ pipe = <<>> /\ net # <<>>
  /\ LET data == sent[Len(sent) - Len(net) + 1]
         bl   == getBodyLength(data)
     IN  IF bl = -1 THEN UNCHANGED <<pipe, lens>>
         ELSE /\ pipe' = <<"prefix">> \o data
              /\ lens' = Append(lens, <<bl, Len(data)>>)
  /\ net' = Tail(net)
  /\ UNCHANGED <<streamed, sent, buf, stopped, pc, msg, skip, out, errs, resets>>

\* Stop: what is in the pipe is lost, what has been read ahead is not
Stop ==
  /\ ~stopped
  /\ stopped' = TRUE
  /\ pipe' = <<>>
  /\ UNCHANGED <<streamed, sent, net, buf, pc, msg, lens, skip, out, errs, resets>>

\* A new stream of messages, and a parser that has read nothing of it.  (Unstreamed, net
\* holds a line for each message.)
NewStream(messages, mode) ==
  [net |-> IF mode THEN FlattenSeq(messages) ELSE [i \in 1..Len(messages) |-> "message"],
   pc  |-> IF mode THEN "start" ELSE "prefix"]

\* Reset: once the parser has stopped, a new pipe, and an empty buffer, for a new stream
Reset ==
  /\ stopped /\ pc = "done" /\ resets < MaxResets
  /\ resets' = resets + 1
  /\ sent' \in SeqOf(Messages, MaxMessages)
  /\ net' = NewStream(sent', streamed).net /\ pc' = NewStream(sent', streamed).pc
  /\ stopped' = FALSE /\ pipe' = <<>> /\ buf' = <<>>
  /\ msg' = <<>> /\ lens' = <<>> /\ skip' = FALSE
  /\ out' = <<>> /\ errs' = 0
  /\ UNCHANGED streamed

-----------------------------------------------------------------------------
(***************************************************************************)
(* The parser.                                                             *)
(***************************************************************************)
parserVars == <<streamed, sent, net, pipe, stopped, resets>>

\* bufio.Reader reads ahead when it runs out of what it has
Fill ==
  /\ pc # "done" /\ pipe # <<>>
  /\ \E n \in 1..Len(pipe) :
       /\ buf' = buf \o SubSeq(pipe, 1, n)
       /\ pipe' = SubSeq(pipe, n + 1, Len(pipe))
  /\ UNCHANGED <<streamed, sent, net, stopped, pc, msg, lens, skip, out, errs, resets>>

\* NextLine has a line, or fails: nothing is left, and the pipe is closed
HasLine == buf # <<>>
Closed  == buf = <<>> /\ stopped

\* NextChunk has n lines, or fails
HasChunk(n) == Len(buf) >= n
CutShort(n) == Len(buf) < n /\ stopped

\* the next message
Again == /\ pc' = IF streamed THEN "start" ELSE "prefix"
         /\ msg' = <<>>

\* Mutants (here and below, names that end in _bug): wrong versions of the
\* definition of the same name, which the properties must tell from the right one.
\* a read error is not the end
ReadPrefix_bug ==
  /\ pc = "prefix"
  /\ HasLine /\ buf' = Tail(buf) /\ pc' = "start"
  /\ UNCHANGED <<parserVars, msg, lens, skip, out, errs>>

\* Unstreamed: the lengths
ReadPrefix ==
  /\ pc = "prefix"
  /\ \/ HasLine /\ buf' = Tail(buf) /\ pc' = "start"
     \/ Closed /\ pc' = "done" /\ UNCHANGED buf
  /\ UNCHANGED <<parserVars, msg, lens, skip, out, errs>>

\* skipStreamedErr stays set
ReadStartLine_bug ==
  /\ pc = "start"
  /\ \/ Closed /\ pc' = "done" /\ UNCHANGED <<buf, msg, skip, errs>>
     \/ /\ HasLine
        /\ buf' = Tail(buf)
        /\ IF parseStartLine(Head(buf))
           THEN msg' = <<Head(buf)>> /\ pc' = "headers" /\ UNCHANGED <<skip, errs>>
           ELSE skip' = TRUE /\ errs' = (IF skip THEN errs ELSE errs + 1) /\ UNCHANGED <<msg, pc>>
  /\ UNCHANGED <<parserVars, lens, out>>

\* The start line.  After a bad one the stream parser tries the next line, and reports
\* no more until it has found a good one; otherwise the rest of the message is skipped.
ReadStartLine ==
  /\ pc = "start"
  /\ \/ /\ Closed
        /\ pc' = "done"
        /\ UNCHANGED <<buf, msg, lens, skip, errs>>
     \/ /\ HasLine /\ parseStartLine(Head(buf))
        /\ buf' = Tail(buf)
        /\ msg' = <<Head(buf)>>
        /\ pc' = "headers"
        /\ skip' = FALSE
        /\ UNCHANGED <<lens, errs>>
     \/ /\ HasLine /\ ~parseStartLine(Head(buf))
        /\ IF streamed
           THEN /\ buf' = Tail(buf)
                /\ errs' = IF skip THEN errs ELSE errs + 1
                /\ skip' = TRUE
                /\ UNCHANGED <<pc, msg, lens>>
           ELSE /\ pc' = "skip"
                /\ buf' = Tail(buf)
                /\ UNCHANGED <<msg, lens, skip, errs>>
  /\ UNCHANGED <<parserVars, out>>

\* NextChunk of what remains of an unstreamed message with a bad start line, or its error
SkipMessage ==
  LET n == lens[1][2] - 1
  IN  /\ pc = "skip"
      /\ \/ HasChunk(n) /\ buf' = SubSeq(buf, n + 1, Len(buf))
         \/ CutShort(n) /\ buf' = <<>>
      /\ errs' = errs + 1
      /\ lens' = Tail(lens)
      /\ Again
      /\ UNCHANGED <<parserVars, skip, out>>

\* Header lines, until an empty line or the end of the input
ReadHeaderLine ==
  /\ pc = "headers"
  /\ \/ HasLine /\ Head(buf) # "" /\ buf' = Tail(buf) /\ msg' = Append(msg, Head(buf))
                /\ UNCHANGED pc
     \/ HasLine /\ Head(buf) = "" /\ buf' = Tail(buf) /\ pc' = "body" /\ UNCHANGED msg
     \/ Closed /\ pc' = "body" /\ UNCHANGED <<buf, msg>>
  /\ UNCHANGED <<parserVars, lens, skip, out, errs>>

\* the first of several lengths is taken
contentLengths_bug(ls) == Len(ls) >= 1

\* a stream needs exactly one
contentLengths(ls) == Len(ls) = 1

\* The body: without one Content-Length the message is given up, and so is one whose
\* body is cut off.  A message goes down output.
ReadBody ==
  LET headers == fillHeaders(Tail(msg))
      ls == contentLengthHeaders(headers)
      n  == IF streamed THEN Length[ls[1][1]] ELSE lens[1][1]
  IN  /\ pc = "body"
      /\ IF streamed /\ ~contentLengths(ls)
         THEN errs' = errs + 1 /\ skip' = TRUE /\ UNCHANGED <<buf, out>>
         ELSE \/ /\ HasChunk(n)
                 /\ out' = Append(out, Message(headers, SubSeq(buf, 1, n)))
                 /\ buf' = SubSeq(buf, n + 1, Len(buf))
                 /\ UNCHANGED <<skip, errs>>
              \/ /\ CutShort(n)
                 /\ errs' = errs + 1 /\ buf' = <<>>
                 /\ UNCHANGED <<skip, out>>
      /\ lens' = IF streamed THEN lens ELSE Tail(lens)
      /\ Again
      /\ UNCHANGED parserVars

-----------------------------------------------------------------------------
Init ==
  /\ streamed \in BOOLEAN
  /\ sent \in SeqOf(Messages, MaxMessages)
  /\ net = NewStream(sent, streamed).net /\ pc = NewStream(sent, streamed).pc
  /\ pipe = <<>> /\ buf = <<>> /\ stopped = FALSE
  /\ msg = <<>> /\ lens = <<>> /\ skip = FALSE
  /\ out = <<>> /\ errs = 0 /\ resets = 0

Parse == \/ Fill \/ ReadPrefix \/ ReadStartLine \/ SkipMessage \/ ReadHeaderLine \/ ReadBody
Next == WriteStreamed \/ WritePacket \/ Stop \/ Reset \/ Parse

Spec == Init /\ [][Next]_vars

\* The goroutine of parse is scheduled.
FairSpec == Spec /\ WF_vars(Parse)

-----------------------------------------------------------------------------
(***************************************************************************)
(* Properties.                                                             *)
(***************************************************************************)
\* What should become of a message.  A stream needs one Content-Length, which says how
\* much of the body belongs to the message.
Fits(m) ==
  /\ ParseMessage(m) # Fault
  /\ streamed => Len(contentLengthHeaders(ParseMessage(m).headers)) = 1
BodyLength(m) ==
  IF streamed THEN Length[contentLengthHeaders(ParseMessage(m).headers)[1][1]]
              ELSE getBodyLength(m)
Parsed(m) == [ParseMessage(m) EXCEPT !.body = SubSeq(@, 1, BodyLength(m))]

Reference == LET fit == SelectSeq(sent, Fits) IN [i \in 1..Len(fit) |-> Parsed(fit[i])]

\* Something of the message is not understood.
Trouble(m) == ~Fits(m) \/ BodyLength(m) < getBodyLength(m)

\* x is the message m without its last header lines, and without its body.
CutOff(x, m) ==
  /\ x.body = <<>>
  /\ \E n \in 1..(Len(m) - getBodyLength(m) - 1) : x.headers = fillHeaders(SubSeq(m, 2, n))

\* In whatever pieces the bytes come, the stream parser delivers the messages that were
\* sent, each as the packet parser would have parsed it alone, in order, none twice and
\* none made of the rest of a malformed one.  Only the last message before Stop may lack
\* header lines: the loop over the header lines ends at an error as at an empty line, and
\* with "Content-Length: 0" already read there is no body to miss.
DeliversWhatWasSent ==
  \/ IsPrefix(out, Reference)
  \/ /\ stopped
     /\ IsPrefix(Front(out), Reference)
     /\ \E m \in ToSet(sent) : CutOff(Last(out), m)

\* When all that was sent has been parsed, every well-formed message has been delivered:
\* the stream parser finds its way back after a malformed one.  And each malformed one
\* has been reported, once, but for a bad start line right after another fault.
LosesNothing ==
  pc = NewStream(sent, streamed).pc /\ net = <<>> /\ pipe = <<>> /\ buf = <<>> /\ ~stopped =>
    /\ out = Reference
    /\ streamed => errs = Cardinality({i \in 1..Len(sent) :
         /\ Trouble(sent[i])
         /\ parseStartLine(sent[i][1]) \/ i = 1 \/ ~Trouble(sent[i - 1])})

\* Stop ends the parser: the goroutine that waits in Stop goes on.
StopEnds == stopped ~> pc = "done" \/ ~stopped

\* "SIP messages without a Content-Length will cause the parser to permanently stop"
\* (stream.go:27).
StopsWithoutLength ==
  streamed /\ sent # <<>> /\ ToSet(sent[1]) \cap DOMAIN Length = {} => out = <<>>
=============================================================================
