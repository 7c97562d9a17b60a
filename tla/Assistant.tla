----------------------------- MODULE Assistant -----------------------------
(***************************************************************************)
(* The assistant's answers, streamed from the model provider through the   *)
(* orchestrator to one dashboard tab and to the extension's side panel.    *)
(* Both hops carry lines over a byte stream: the provider's events         *)
(* (provider-sdk, streamChat) and the orchestrator's NDJSON events         *)
(* (dashboard-api.ts POST /v1/dashboard/chat, server.ts POST /v1/chat).    *)
(* A read returns whatever has arrived, so a line may come in two parts;   *)
(* the rest of a read after its last newline waits for the next one.       *)
(* The emergency stop aborts the provider's streams of every answer being  *)
(* given; the orchestrator may also die and come back.                     *)
(*                                                                         *)
(* A line is two symbols, what it says and the newline: a read may end     *)
(* between them.  The delta number n of an answer is the line that says n. *)
(***************************************************************************)
EXTENDS Naturals, Sequences, SequencesExt

CONSTANTS
    Prompts,   \* the questions asked, each at most once
    MaxDeltas,   \* bound: the deltas of one answer
    MaxStops,    \* bound: times the emergency stop is engaged
    MaxRestarts  \* bound: times the orchestrator dies

ASSUME AssistantAssumption ==
    MaxDeltas \in Nat \ {0} /\ MaxStops \in Nat /\ MaxRestarts \in Nat

VARIABLES
    asked,      \* question -> "no", "dashboard", "panel": where it was typed
    served,     \* question -> the request at the orchestrator
    signalled,  \* question -> the signal its provider stream holds is aborted
    said,       \* question -> deltas the provider has sent
    source,     \* question -> "open", "ended", "broken": the provider's body
    inWire,     \* question -> symbols sent by the provider and not yet read
    inBuffer,   \* question -> the orchestrator's `buffer'
    outWire,    \* question -> symbols written to the response and not yet read
    outBuffer,  \* question -> the reader's `buffer'
    bubbles,    \* "dashboard", "panel" -> the answers on screen, oldest first
    pending,    \* the dashboard's `pending'
    settled,    \* the questions whose reader has returned or thrown
    stopped,    \* EmergencyStop.stopped
    stops, restarts

chatVars == <<asked, served, signalled, said, source, inWire, inBuffer, outWire,
          outBuffer, bubbles, pending, settled, stopped, stops, restarts>>

Doors == {"dashboard", "panel"}

Newline == MaxDeltas + 1
Done    == MaxDeltas + 2    \* the provider's [DONE], our {type: 'done'}
Failed  == MaxDeltas + 3    \* our {type: 'error'}

Line(n) == <<n, Newline>>
IsDelta(c) == c \in 1..MaxDeltas

AssistantInit ==
    /\ asked = [q \in Prompts |-> "no"]
    /\ served = [q \in Prompts |-> "no"]
    /\ signalled = [q \in Prompts |-> FALSE]
    /\ said = [q \in Prompts |-> 0]
    /\ source = [q \in Prompts |-> "open"]
    /\ inWire = [q \in Prompts |-> <<>>]
    /\ inBuffer = [q \in Prompts |-> <<>>]
    /\ outWire = [q \in Prompts |-> <<>>]
    /\ outBuffer = [q \in Prompts |-> <<>>]
    /\ bubbles = [d \in Doors |-> <<>>]
    /\ pending = FALSE
    /\ settled = {}
    /\ stopped = FALSE /\ stops = 0 /\ restarts = 0

-----------------------------------------------------------------------------
(* Reading lines off a stream.                                             *)

\* 0 when there is none.
LastNewline(text) == Max({0} \union {i \in DOMAIN text : text[i] = Newline})

\* The lines a reader has once text = buffer + value is split; an empty line says
\* nothing.
Lines(text) ==
    LET last == LastNewline(text)
        upTo[n \in 0..last] ==
          IF n = 0 THEN <<>>
          ELSE IF text[n] = Newline THEN upTo[n - 1] ELSE Append(upTo[n - 1], text[n])
    IN  upTo[last]

\* A mutation of Remainder: what follows the last newline is forgotten.
RemainderDropped(text) == <<>>

\* What stays in the buffer: lines.pop().
Remainder(text) == SubSeq(text, LastNewline(text) + 1, Len(text))

-----------------------------------------------------------------------------
(* The answers on screen.                                                  *)

\* The dashboard writes to its last message; the panel to the first bubble
\* still marked as streaming (0 when there is none).
Target(door, shown) ==
    IF door = "dashboard" THEN Len(shown)
    ELSE SelectInSeq(shown, LAMBDA b : b.streaming)

\* What the lines read of q's response do to the answers of a door.  The
\* dashboard throws at an error line and the lines after it are not handled;
\* 'done' means nothing to it.  The panel unmarks its bubble at either.
ShowLine(door, shown, q, c) ==
    LET i == Target(door, shown) IN
    CASE i = 0 -> shown
      [] i > 0 /\ IsDelta(c) ->
            [shown EXCEPT ![i].text = Append(@, <<q, c>>)]
      [] i > 0 /\ c = Failed ->
            [shown EXCEPT ![i].text = <<<<q, Failed>>>>, ![i].streaming = FALSE]
      [] OTHER ->
            [shown EXCEPT ![i].streaming = IF door = "panel" THEN FALSE ELSE @]

ShowLines(door, shown, q, lines) ==
    LET upTo[n \in 0..Len(lines)] ==
          IF n = 0 THEN shown ELSE ShowLine(door, upTo[n - 1], q, lines[n])
    IN  upTo[Len(lines)]

\* send() of the dashboard does nothing while an answer is pending.
MayAsk(door) == door = "panel" \/ ~pending

\* Typing a question: an empty answer appears and the request leaves.
Ask(q, door) ==
    /\ asked[q] = "no" /\ MayAsk(door)
    /\ asked' = [asked EXCEPT ![q] = door]
    /\ bubbles' = [bubbles EXCEPT ![door] =
                     Append(@, [of |-> q, text |-> <<>>, streaming |-> TRUE])]
    /\ pending' = (pending \/ door = "dashboard")
    /\ UNCHANGED <<served, signalled, said, source, inWire, inBuffer, outWire,
                   outBuffer, settled, stopped, stops, restarts>>

\* The reader is through: what it has not read is nobody's, and send() clears
\* pending in its finally.
Settle(q) ==
    /\ settled' = settled \union {q}
    /\ pending' = (pending /\ asked[q] # "dashboard")
    /\ outWire' = [outWire EXCEPT ![q] = <<>>]
    /\ outBuffer' = [outBuffer EXCEPT ![q] = <<>>]

\* The tab or the service worker reads k symbols of the response.
ReadAnswer(q, k) ==
    LET text  == outBuffer[q] \o SubSeq(outWire[q], 1, k)
        door  == asked[q]
        lines == Lines(text)
    IN  /\ q \notin settled /\ served[q] \in {"streaming", "ended", "hung"}
        /\ k \in 1..Len(outWire[q])
        /\ bubbles' = [bubbles EXCEPT ![door] = ShowLines(door, @, q, lines)]
        /\ IF door = "dashboard" /\ Failed \in ToSet(lines)
           THEN Settle(q)
           ELSE /\ outWire' = [outWire EXCEPT ![q] = SubSeq(@, k + 1, Len(@))]
                /\ outBuffer' = [outBuffer EXCEPT ![q] = Remainder(text)]
                /\ UNCHANGED <<settled, pending>>
        /\ UNCHANGED <<asked, served, signalled, said, source, inWire,
                       inBuffer, stopped, stops, restarts>>

\* The response has ended and all of it is read.  The dashboard handles what
\* is left in its buffer as a last line; the service worker drops it.
AnswerEnds(q) ==
    LET door == asked[q]
        rest == IF door = "dashboard" THEN outBuffer[q] ELSE <<>>
    IN  /\ q \notin settled /\ served[q] = "ended" /\ outWire[q] = <<>>
        /\ bubbles' = [bubbles EXCEPT ![door] = ShowLines(door, @, q, rest)]
        /\ Settle(q)
        /\ UNCHANGED <<asked, served, signalled, said, source, inWire,
                       inBuffer, stopped, stops, restarts>>

\* A 503 answer, or a connection that is reset: the reader throws and its
\* answer becomes the error's message, whatever had been shown of it.
AnswerFails(q) ==
    /\ q \notin settled /\ served[q] \in {"refused", "gone"}
    /\ bubbles' = [bubbles EXCEPT ![asked[q]] = ShowLine(asked[q], @, q, Failed)]
    /\ Settle(q)
    /\ UNCHANGED <<asked, served, signalled, said, source, inWire, inBuffer,
                   stopped, stops, restarts>>

-----------------------------------------------------------------------------
(* The orchestrator.                                                       *)

\* The stream of the provider is left, with whatever of it is unread.
Leave(q) ==
    /\ inWire' = [inWire EXCEPT ![q] = <<>>]
    /\ inBuffer' = [inBuffer EXCEPT ![q] = <<>>]

\* How a handler ends that throws.  Before the first chunk the dashboard's
\* answers 503 and afterwards writes an error line; the extension's has sent
\* its head at once, and json() does nothing once a head is sent: its response
\* is never ended.
Throws(q) ==
    CASE asked[q] = "panel" ->
            served' = [served EXCEPT ![q] = "hung"] /\ UNCHANGED outWire
      [] asked[q] = "dashboard" /\ served[q] # "streaming" ->
            served' = [served EXCEPT ![q] = "refused"] /\ UNCHANGED outWire
      [] OTHER ->
            /\ served' = [served EXCEPT ![q] = "ended"]
            /\ outWire' = [outWire EXCEPT ![q] = @ \o Line(Failed)]

\* The request arrives: chat() refuses while stopped, else opens the
\* provider's stream with the signal of the moment.
Arrive(q) ==
    /\ asked[q] # "no" /\ served[q] = "no"
    /\ IF stopped
       THEN Throws(q)
       ELSE /\ served' = [served EXCEPT ![q] =
                            IF asked[q] = "panel" THEN "streaming" ELSE "waiting"]
            /\ UNCHANGED outWire
    /\ UNCHANGED <<asked, signalled, said, source, inWire, inBuffer, outBuffer,
                   bubbles, pending, settled, stopped, stops, restarts>>

Live(q) == served[q] \in {"waiting", "streaming"}

\* The deltas among the lines, each as a line of its own after what wire holds.
Relayed(wire, lines) ==
    LET upTo[n \in 0..Len(lines)] ==
          IF n = 0 THEN wire
          ELSE IF IsDelta(lines[n]) THEN upTo[n - 1] \o Line(lines[n]) ELSE upTo[n - 1]
    IN  upTo[Len(lines)]

\* reader.read() returns k symbols; each delta among the complete lines is
\* yielded and written to the response as a line.  [DONE] and lines that do
\* not parse are skipped.  The first chunk sends the dashboard's head.
ReadProvider(q, k) ==
    LET text  == inBuffer[q] \o SubSeq(inWire[q], 1, k)
        lines == Lines(text)
    IN  /\ Live(q) /\ k \in 1..Len(inWire[q])
        /\ inWire' = [inWire EXCEPT ![q] = SubSeq(@, k + 1, Len(@))]
        /\ inBuffer' = [inBuffer EXCEPT ![q] = Remainder(text)]
        /\ outWire' = [outWire EXCEPT ![q] = Relayed(@, lines)]
        /\ served' = [served EXCEPT ![q] =
                        IF \E i \in DOMAIN lines : IsDelta(lines[i]) THEN "streaming" ELSE @]
        /\ UNCHANGED <<asked, signalled, said, source, outBuffer, bubbles,
                       pending, settled, stopped, stops, restarts>>

\* The provider's body is at its end; what is left in the buffer is dropped.
FinishAnswer(q) ==
    /\ Live(q) /\ source[q] = "ended" /\ inWire[q] = <<>>
    /\ served' = [served EXCEPT ![q] = "ended"]
    /\ outWire' = [outWire EXCEPT ![q] = @ \o Line(Done)]
    /\ Leave(q)
    /\ UNCHANGED <<asked, signalled, said, source, outBuffer, bubbles, pending, settled, stopped, stops, restarts>>

\* A mutation of ReadThrows: the request is sent without the signal.
ReadThrowsUnsignalled(q) == source[q] = "broken"

\* The read throws: the provider failed, or the stream's signal is aborted.
ReadThrows(q) == source[q] = "broken" \/ signalled[q]

LoseProvider(q) ==
    /\ Live(q) /\ ReadThrows(q)
    /\ Throws(q) /\ Leave(q)
    /\ UNCHANGED <<asked, signalled, said, source, outBuffer, bubbles, pending,
                   settled, stopped, stops, restarts>>

\* EmergencyStop: engage aborts the current controller, which every stream
\* opened since the last reset holds; reset makes a new controller.
EngageStop ==
    /\ ~stopped /\ stops < MaxStops
    /\ stopped' = TRUE /\ stops' = stops + 1
    /\ signalled' = [q \in Prompts |-> signalled[q] \/ Live(q)]
    /\ UNCHANGED <<asked, served, said, source, inWire, inBuffer, outWire,
                   outBuffer, bubbles, pending, settled, restarts>>

ResetStop ==
    /\ stopped /\ stopped' = FALSE
    /\ UNCHANGED <<asked, served, signalled, said, source, inWire, inBuffer,
                   outWire, outBuffer, bubbles, pending, settled, stops,
                   restarts>>

\* The process dies: every response it had not ended is reset, and the new
\* process is not stopped.
RestartOrchestrator ==
    /\ restarts < MaxRestarts /\ restarts' = restarts + 1
    /\ served' = [q \in Prompts |->
                    IF Live(q) \/ served[q] = "hung" THEN "gone" ELSE served[q]]
    /\ inWire' = [q \in Prompts |-> <<>>]
    /\ inBuffer' = [q \in Prompts |-> <<>>]
    /\ stopped' = FALSE
    /\ UNCHANGED <<asked, signalled, said, source, outWire, outBuffer, bubbles,
                   pending, settled, stops>>

-----------------------------------------------------------------------------
(* The provider: it answers, ends or fails when it likes, or never does.   *)

ProviderSays(q) ==
    /\ Live(q) /\ source[q] = "open" /\ said[q] < MaxDeltas
    /\ said' = [said EXCEPT ![q] = @ + 1]
    /\ inWire' = [inWire EXCEPT ![q] = @ \o Line(said[q] + 1)]
    /\ UNCHANGED <<asked, served, signalled, source, inBuffer, outWire,
                   outBuffer, bubbles, pending, settled, stopped, stops,
                   restarts>>

ProviderEnds(q) ==
    /\ Live(q) /\ source[q] = "open"
    /\ source' = [source EXCEPT ![q] = "ended"]
    /\ inWire' = [inWire EXCEPT ![q] = @ \o Line(Done)]
    /\ UNCHANGED <<asked, served, signalled, said, inBuffer, outWire,
                   outBuffer, bubbles, pending, settled, stopped, stops,
                   restarts>>

ProviderFails(q) ==
    /\ Live(q) /\ source[q] = "open"
    /\ source' = [source EXCEPT ![q] = "broken"]
    /\ UNCHANGED <<asked, served, signalled, said, inWire, inBuffer, outWire,
                   outBuffer, bubbles, pending, settled, stopped, stops,
                   restarts>>

-----------------------------------------------------------------------------
Reader(q) ==
    \/ \E k \in 1..(2 * MaxDeltas + 2) : ReadAnswer(q, k)
    \/ AnswerEnds(q)
    \/ AnswerFails(q)

Handler(q) ==
    \/ Arrive(q)
    \/ \E k \in 1..(2 * MaxDeltas + 2) : ReadProvider(q, k)
    \/ FinishAnswer(q)
    \/ LoseProvider(q)

Provider(q) == ProviderSays(q) \/ ProviderEnds(q) \/ ProviderFails(q)

AssistantNext ==
    \/ \E q \in Prompts :
          \/ \E door \in Doors : Ask(q, door)
          \/ Reader(q) \/ Handler(q) \/ Provider(q)
    \/ EngageStop \/ ResetStop \/ RestartOrchestrator

\* Requests arrive, and the two event loops keep turning.  Nothing is assumed
\* of the provider, of the user or of the emergency stop.
AssistantFairness ==
    \A q \in Prompts : WF_chatVars(Reader(q)) /\ WF_chatVars(Handler(q))

AssistantSpec == AssistantInit /\ [][AssistantNext]_chatVars /\ AssistantFairness

-----------------------------------------------------------------------------
(* Correctness.                                                            *)

\* text is a beginning of the answer to q, as it is shown.
Begins(text, q) ==
    Len(text) <= said[q] /\ \A n \in 1..Len(text) : text[n] = <<q, n>>

\* However the reads cut the two streams, and whatever else was asked, an
\* answer in the dashboard is at every moment a beginning of what the provider
\* said to that question, and once its reader is through all of it - or it is
\* an error message (lib/api.ts streamAssistant; Shell.tsx Assistant.send).
AnswerIsWhole ==
    \A i \in 1..Len(bubbles["dashboard"]) :
        LET b == bubbles["dashboard"][i] IN
        \/ b.text = <<<<b.of, Failed>>>>
        \/ /\ Begins(b.text, b.of)
           /\ b.of \in settled => source[b.of] = "ended" /\ Len(b.text) = said[b.of]

\* Engaging the emergency stop ends every answer the dashboard is waiting for
\* and the orchestrator is giving, even when the provider says nothing more
\* (service.ts chat passes emergencyStop.signal): the composer is usable again.
StopEndsTheAnswer ==
    \A q \in Prompts :
        (signalled[q] /\ asked[q] = "dashboard") ~> (q \in settled)

\* The same of the side panel, which the code does not promise: a handler of
\* POST /v1/chat that throws after its head never ends the response.
StopEndsThePanelAnswer ==
    \A q \in Prompts :
        (signalled[q] /\ asked[q] = "panel") ~> (q \in settled)

\* A bubble of the panel holds the answer to its own question: not promised,
\* the panel neither refuses a second question nor names the one answered.
PanelAnswersStayApart ==
    \A i \in 1..Len(bubbles["panel"]) :
        LET b == bubbles["panel"][i] IN
        \A j \in 1..Len(b.text) : b.text[j][1] = b.of
=============================================================================
