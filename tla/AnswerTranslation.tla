--------------------------- MODULE AnswerTranslation ---------------------------
(***************************************************************************)
(* Answers of OAuth accounts in the words of the public protocols.  Codex  *)
(* always streams, so that the answer to a request without a stream is     *)
(* collected from its events (oauth_codex_response.go); Antigravity puts   *)
(* every answer and every event into an envelope (oauth_gemini_response.go,*)
(* oauth_antigravity_response.go); both list their models in their own way *)
(* (oauth_codex_models.go).                                                *)
(*                                                                         *)
(* A text is a sequence of pieces and an output a sequence of items; where *)
(* an event's lines end is StreamProtocol.                                 *)
(***************************************************************************)
EXTENDS Naturals, Sequences, FiniteSets, SequencesExt

CONSTANT None

(***************************************************************************)
(* synthesizeCodexOAuthNonStreamingResponseToClient                        *)
(***************************************************************************)

\* An event has a type, and the response, text or item that goes with it.
Event(type, response, text, item) == [type |-> type, response |-> response, text |-> text, item |-> item]
Response(status, output) == [status |-> status, output |-> output]

Terminal == {"completed", "failed", "incomplete"}
\* readCodexOAuthSSEBody: nothing is read beyond the first terminal event.
Read(events) ==
    LET ends == {i \in DOMAIN events : events[i].type \in Terminal}
    IN IF ends = {} THEN events ELSE SubSeq(events, 1, CHOOSE i \in ends : \A j \in ends : i <= j)

Gathered == [created |-> None, ended |-> None, text |-> << >>, items |-> << >>, complete |-> FALSE, error |-> FALSE]

\* A whole text replaces what was gathered piece by piece, of other parts too.
Gather(s, e) ==
    [s EXCEPT !.created = IF e.type = "created" /\ e.response # None THEN e.response ELSE @,
              !.ended = IF e.type \in Terminal /\ e.response # None THEN e.response ELSE @,
              !.text = CASE e.type = "delta" -> @ \o e.text
                         [] e.type = "text done" /\ e.text # << >> -> e.text
                         [] OTHER -> @,
              !.items = IF e.type = "item done" THEN Append(@, e.item) ELSE @,
              !.complete = @ \/ e.type = "completed" \/ (e.type \in Terminal /\ e.response # None),
              !.error = @ \/ e.type = "garbage" \/ (e.type \in Terminal \ {"completed"} /\ e.response = None)]

\* The response that the answer is made of, and what it lacks.
Chosen(s) == CASE s.ended # None -> s.ended
               [] s.ended = None /\ s.created # None -> s.created
               [] OTHER -> Response("", None)
Output(s) == CASE Chosen(s).output \notin {None, << >>} -> Chosen(s).output
               [] Chosen(s).output \in {None, << >>} /\ s.items # << >> -> s.items
               [] Chosen(s).output \in {None, << >>} /\ s.items = << >> /\ s.text # << >> -> << s.text >>
               [] OTHER -> << >>
Synthesized(s) == Response(IF Chosen(s).status = "" THEN "completed" ELSE Chosen(s).status, Output(s))

\* codexOAuthResponsesProtocol
Protocol(response) == IF response.status \in {"failed", "incomplete"} THEN response.status ELSE "completed"

\* Without an answer the next provider is tried; nothing was sent yet.  An
\* upstream that does not stream is passed on as it is, and left out here.
Collected(events) ==
    LET s == FoldLeft(Gather, Gathered, Read(events))
    IN IF events = << >> \/ s.error \/ ~s.complete THEN None ELSE Synthesized(s)

(***************************************************************************)
(* normalizeGeminiOAuthResponseEnvelope                                    *)
(***************************************************************************)

\* A payload maps the fields it has to their values; "response" holds the
\* fields of the payload inside, or None if it is no object.
PublicFields == {"candidates", "promptFeedback", "usageMetadata", "modelVersion", "automaticFunctionCallingHistory", "responseId"}
With(root, field, value) == IF field \in DOMAIN root THEN root ELSE [f \in {field} \cup DOMAIN root |-> IF f = field THEN value ELSE root[f]]
Traced(root, inner) == IF "traceId" \in DOMAIN root THEN With(inner, "responseId", root.traceId) ELSE inner

NoFields == [f \in {} |-> None]
Inner(root) == With(IF root.response = None THEN NoFields ELSE root.response, "candidates", "empty")

Pass(root) == [action |-> "pass", root |-> root]
Drop == [action |-> "drop", root |-> NoFields]
Apply(root) == [action |-> "apply", root |-> root]

Unwrap(root) ==
    CASE root = NoFields \/ "error" \in DOMAIN root -> Pass(root)
      [] root # NoFields /\ "error" \notin DOMAIN root /\ "response" \in DOMAIN root -> Apply(Traced(root, Inner(root)))
      [] root # NoFields /\ DOMAIN root \cap {"error", "response"} = {} /\ DOMAIN root \cap PublicFields # {} ->
           IF Traced(root, root) # root THEN Apply(Traced(root, root)) ELSE Pass(root)
      [] root # NoFields /\ DOMAIN root \cap ({"error", "response"} \cup PublicFields) = {} /\ "traceId" \in DOMAIN root ->
           Apply(Traced(root, [f \in {"candidates"} |-> "empty"]))
      [] OTHER -> Drop

\* writeGeminiOAuthSSEEvent, event by event: what carries no payload ("[DONE]",
\* comments, what is no JSON: None) passes as it is.
Unwrapped(events) ==
    FoldLeft(LAMBDA sent, e : IF e = None THEN Append(sent, e)
                              ELSE IF Unwrap(e).action = "drop" THEN sent ELSE Append(sent, Unwrap(e).root),
             << >>, events)

(***************************************************************************)
(* Models                                                                  *)
(***************************************************************************)

\* An entry of a catalog: where its id stands, if anywhere.
CodexId(entry) == IF entry.slug # "" THEN entry.slug ELSE entry.id
CodexModels(catalog) == SelectSeq(<< >> \o [i \in DOMAIN catalog |-> CodexId(catalog[i])], LAMBDA id : id # "")
\* rewriteCodexOAuthModelsResponse: the list, one model, or that there is none.
CodexModelsAnswer(catalog, requested, native) ==
    CASE native -> [status |-> 200, models |-> catalog]
      [] ~native /\ requested = "" -> [status |-> 200, models |-> CodexModels(catalog)]
      [] ~native /\ requested # "" ->
           IF requested \in Range(CodexModels(catalog)) THEN [status |-> 200, models |-> <<requested>>]
           ELSE [status |-> 404, models |-> << >>]

(***************************************************************************)
(* What the client is told                                                 *)
(***************************************************************************)

\* What a client that asked for a stream has read of it: how it ended, the
\* items, and the text.
StreamedEnd(events) ==
    LET ends == {i \in DOMAIN Read(events) : Read(events)[i].type \in Terminal}
    IN IF ends = {} THEN "broken off" ELSE Last(Read(events)).type
StreamedItems(events) == FoldLeft(LAMBDA items, e : IF e.type = "item done" THEN Append(items, e.item) ELSE items, << >>, Read(events))
StreamedText(events) == FoldLeft(LAMBDA text, e : IF e.type = "delta" THEN text \o e.text ELSE text, << >>, Read(events))

\* A text that is finished is what its pieces were.
Legal(events) ==
    \A i \in DOMAIN events : events[i].type = "text done" => events[i].text = StreamedText(SubSeq(events, 1, i))
Ends(events) == Last(Read(events)).response

\* Both clients are told the same: an answer only of a stream that came to its
\* end, counted as the stream would be unless the upstream names no status,
\* and with all that was streamed.  Of text alone, only one part is claimed:
\* the end of a second replaces the first.
SameAnswer(events) ==
    LET answer == Collected(events)
        own == IF Ends(events) = None THEN None ELSE Ends(events).output
    IN answer # None =>
         /\ StreamedEnd(events) # "broken off"
         /\ Protocol(answer) = IF Ends(events) # None /\ Ends(events).status = "" THEN "completed" ELSE StreamedEnd(events)
         /\ own \notin {None, << >>} => answer.output = own
         /\ Ends(events) # None /\ own \in {None, << >>} /\ StreamedItems(events) # << >> => answer.output = StreamedItems(events)
         /\ Ends(events) # None /\ own \in {None, << >>} /\ StreamedItems(events) = << >> /\ Legal(events) =>
                answer.output = IF StreamedText(events) = << >> THEN << >> ELSE << StreamedText(events) >>

\* Whatever an envelope holds for the client arrives, once and in order; what
\* is not wrapped, and errors above all, arrives unchanged; and only an event
\* that says nothing to a client is left out.
NothingLost(events) ==
    LET telling == SelectSeq(events, LAMBDA e : e = None \/ e = NoFields \/ DOMAIN e \cap ({"error", "response", "traceId"} \cup PublicFields) # {})
        sent == Unwrapped(events)
    IN /\ Len(sent) = Len(telling)
       /\ \A i \in DOMAIN sent :
            LET e == telling[i]
                held == IF "response" \in DOMAIN e /\ e.response # None THEN e.response ELSE NoFields
            IN /\ e = None \/ (e # None /\ "error" \in DOMAIN e) => sent[i] = e
               /\ e # None /\ "error" \notin DOMAIN e =>
                    /\ "response" \in DOMAIN e => \A f \in DOMAIN held : sent[i][f] = held[f]
                    /\ "response" \notin DOMAIN e => \A f \in DOMAIN e \cap PublicFields : sent[i][f] = e[f]
                    /\ Unwrap(sent[i]).action = "pass"

\* A model can be asked for by its name exactly if the list names it.
SameModels(catalog, names) ==
    \A id \in names : (CodexModelsAnswer(catalog, id, FALSE).status = 200)
                         <=> id \in Range(CodexModelsAnswer(catalog, "", FALSE).models)
=============================================================================
