---------------------------- MODULE StreamProtocol ----------------------------
(***************************************************************************)
(* Reading a server-sent event stream while forwarding it: protocolTracker *)
(* of internal/proxy/failover_protocol.go, which finds the end of the      *)
(* answer, and UsageExtractor of internal/telemetry/usage_extractor.go,    *)
(* which reads what was forwarded.  Both are fed chunks as the network     *)
(* cuts them, in the middle of a line and between CR and LF.               *)
(*                                                                         *)
(* A stream is a sequence of symbols: "cr" and "lf" end lines; the others  *)
(* are the text of a line.  A line that is just "done" names a terminal    *)
(* success (an event: or data: line), "fail" a terminal failure, "usage"   *)
(* carries token counts; any other text means nothing to the readers.      *)
(***************************************************************************)
EXTENDS Integers, Sequences, FiniteSets, TLC, FiniteSetsExt, SequencesExt

\* The kind of a stream by the capability of its request, and the events that
\* end it; images and chat streams have no event for a failure.
Kind(capability) ==
    CASE capability = "openai_responses" -> "openai_responses_sse"
      [] capability \in {"openai_chat_completions", "openai_completions"} -> "openai_chat_sse"
      [] capability = "openai_images" -> "openai_images_sse"
      [] capability = "openai_compatible" -> "openai_sse"
      [] capability \in {"claude_messages", "claude_compatible", "claude_count_tokens"} -> "claude_sse"
      [] OTHER -> "none"

Succeeding(kind) ==
    CASE kind = "openai_responses_sse" -> {"response.completed"}
      [] kind = "openai_chat_sse" -> {"[DONE]"}
      [] kind = "openai_images_sse" -> {"image_generation.completed"}
      [] kind = "openai_sse" -> {"response.completed", "image_generation.completed", "[DONE]"}
      [] kind = "claude_sse" -> {"message_stop"}
      [] OTHER -> {}
Failing(kind) ==
    CASE kind \in {"openai_responses_sse", "openai_sse"} -> {"response.failed", "response.incomplete"}
      [] kind = "claude_sse" -> {"error"}
      [] OTHER -> {}

(***************************************************************************)
(* A reader: the line being read, a CR at the end of the last chunk, what  *)
(* the current event says, and what is decided.  A tracker stops at the    *)
(* end of the first terminal event; a usage reader never stops.            *)
(***************************************************************************)

Reader(role) == [role |-> role, line |-> << >>, cr |-> FALSE, says |-> "", counts |-> FALSE,
                 verdict |-> "", ended |-> FALSE, completed |-> FALSE, found |-> FALSE, saw |-> FALSE]

\* The first terminal line of an event decides what the event says to a
\* tracker; a usage reader takes any success that it names.
ReadLine(t) ==
    [t EXCEPT !.says = IF t.line = <<"done">> /\ (t.role = "usage" \/ @ = "") THEN "completed"
                       ELSE IF t.line = <<"fail">> /\ @ = "" THEN "failed" ELSE @,
              !.counts = @ \/ t.line = <<"usage">>]

\* The usage reader takes the counts of a finished event; it has a result
\* only once the stream is known to be complete.
EndEvent(t) ==
    IF t.role = "tracker"
    THEN [t EXCEPT !.verdict = IF @ = "" THEN t.says ELSE @, !.ended = @ \/ t.says # "", !.says = ""]
    ELSE [t EXCEPT !.completed = @ \/ t.says = "completed", !.found = @ \/ t.counts,
                   !.says = "", !.counts = FALSE]

EndLine(t) ==
    LET read == [ReadLine(t) EXCEPT !.line = << >>]
    IN IF t.line = << >> THEN EndEvent(read) ELSE read

Fed(t, forward) == [reader |-> t, forward |-> forward]

\* The rest of a chunk from position from on.
RECURSIVE Scan(_, _, _)
Scan(t, chunk, from) ==
    LET ends == {i \in from .. Len(chunk) : chunk[i] \in {"cr", "lf"}}
        at == Min(ends)
        upTo(i) == [t EXCEPT !.line = @ \o SubSeq(chunk, from, i)]
        after == IF chunk[at] = "cr" /\ at < Len(chunk) /\ chunk[at + 1] = "lf" THEN at + 1 ELSE at
        next == EndLine(upTo(at - 1))
    IN IF from > Len(chunk) THEN Fed(t, Len(chunk))
       ELSE IF ends = {} THEN Fed(upTo(Len(chunk)), Len(chunk))
       ELSE IF chunk[at] = "cr" /\ at = Len(chunk) THEN Fed([upTo(at - 1) EXCEPT !.cr = TRUE], Len(chunk))
       ELSE IF next.ended THEN Fed(next, after)
       ELSE Scan(next, chunk, after + 1)

\* Mutant: a CR at the end of a chunk ends its line on the spot.
AppendForgetsCR(t, chunk) ==
    IF chunk = << >> \/ t.ended THEN Fed(t, 0)
    ELSE LET fed == Scan([t EXCEPT !.saw = TRUE], chunk, 1)
         IN IF fed.reader.cr THEN Fed(EndLine([fed.reader EXCEPT !.cr = FALSE]), fed.forward) ELSE fed

\* append: the reader after a chunk, and how many symbols of it to forward.
Append1(t, chunk) ==
    IF chunk = << >> \/ t.ended THEN Fed(t, 0)
    ELSE LET seen == [t EXCEPT !.saw = TRUE, !.cr = FALSE]
             skipped == IF t.cr /\ chunk[1] = "lf" THEN 1 ELSE 0
             next == EndLine(seen)
         IN IF ~t.cr THEN Scan(seen, chunk, 1)
            ELSE IF next.ended THEN Fed(next, skipped)
            ELSE Scan(next, chunk, skipped + 1)

\* finishEOF and Finalize: the end of the stream ends its last line and event.
AtEOF(t) ==
    LET cr == IF t.cr THEN EndLine([t EXCEPT !.cr = FALSE]) ELSE t
        line == IF cr.line # << >> THEN [ReadLine(cr) EXCEPT !.line = << >>] ELSE cr
    IN IF t.ended THEN t ELSE EndEvent(line)

\* finalStatus and abortedStatus of a tracker; the usage a reader reports.
FinalStatus(t) == IF t.verdict = "" THEN "incomplete" ELSE t.verdict
Usage(t) == t.completed /\ t.found
AbortedStatus(t) == IF t.ended THEN FinalStatus(t) ELSE IF t.saw THEN "in_progress_only" ELSE "incomplete"

(***************************************************************************)
(* streamResponseToClient: every chunk is read by the tracker, its         *)
(* forwarded part by the usage reader, until the tracker has seen the end. *)
(***************************************************************************)

Start == [tracker |-> Reader("tracker"), usage |-> Reader("usage"), sent |-> << >>]

Pass(s, chunk) ==
    LET fed == Append1(s.tracker, chunk)
        part == SubSeq(chunk, 1, fed.forward)
    IN IF s.tracker.ended THEN s
       ELSE [tracker |-> fed.reader, usage |-> Append1(s.usage, part).reader, sent |-> s.sent \o part]

Streamed(chunks) == FoldLeft(Pass, Start, chunks)
\* The stream was read to its end, or to the end of the answer.
AtEnd(s) == [s EXCEPT !.tracker = AtEOF(@), !.usage = AtEOF(@)]

\* What a finished stream says of its provider's health, and of a broken one.
CircuitSignal(t, broken) ==
    IF broken THEN "failure"
    ELSE IF FinalStatus(t) = "completed" THEN "success"
    ELSE IF FinalStatus(t) = "incomplete" /\ ~t.ended THEN "failure" ELSE "neutral"

(***************************************************************************)
(* The same, read off the whole stream: where lines and events end.        *)
(***************************************************************************)

LineEnds(s) == {i \in DOMAIN s : s[i] = "lf" \/ (s[i] = "cr" /\ (i = Len(s) \/ s[i + 1] # "lf"))}
LineStart(s, i) == 1 + Max({0} \cup {j \in LineEnds(s) : j < i})
LineText(s, i) == SelectSeq(SubSeq(s, LineStart(s, i), i), LAMBDA c : c \notin {"cr", "lf"})
\* The last line may lack its end.
Lines(s) == LineEnds(s) \cup (IF s # << >> THEN {Len(s)} ELSE {})
EventEnds(s) == {i \in LineEnds(s) : LineText(s, i) = << >>}
EventStart(s, i) == 1 + Max({0} \cup {j \in EventEnds(s) : j < i})
EventSays(s, i) ==
    LET telling == {j \in Lines(s) : /\ EventStart(s, i) <= j /\ j <= i
                                     /\ LineText(s, j) \in {<<"done">>, <<"fail">>}}
    IN IF telling = {} THEN "" ELSE IF LineText(s, Min(telling)) = <<"done">> THEN "completed" ELSE "failed"
TerminalEnds(s) == {i \in EventEnds(s) : EventSays(s, i) # ""}

\* What has to be forwarded of a stream, and its verdict and usage.
Answer(s) == IF TerminalEnds(s) = {} THEN s ELSE SubSeq(s, 1, Min(TerminalEnds(s)))
Outcome(s) ==
    IF TerminalEnds(s) # {} THEN EventSays(s, Min(TerminalEnds(s)))
    ELSE IF s # << >> /\ EventSays(s, Len(s)) # "" THEN EventSays(s, Len(s)) ELSE "incomplete"
Counted(s) == Outcome(s) = "completed" /\ \E i \in Lines(Answer(s)) : LineText(Answer(s), i) = <<"usage">>
=============================================================================
