---------------------------- MODULE ProviderCall ----------------------------
(***************************************************************************)
(* One call of HTTPClient with one key.  Groq, DeepSeek and OpenRouter     *)
(* stream; Anthropic and Gemini are asked for the whole answer, which a    *)
(* streaming caller is then given as one piece.  A request for a whole     *)
(* answer is repeated after network errors and busy replies, with sleeps;  *)
(* http.Client ends every exchange, its body included, by its timeout, and *)
(* the caller's context may end before that.                               *)
(*                                                                         *)
(* Of an answer the model keeps how many pieces of text it has.  Time is   *)
(* in seconds; the handler takes a piece in no time.                       *)
(***************************************************************************)
EXTENDS Naturals

CONSTANTS
    MaxRetries,     \* maxRetries, 3
    ClientTimeout,  \* httpClient.Timeout, 60
    Deadlines,      \* when the caller's context may end
    MaxPieces       \* bound: pieces in a stream

ASSUME CallAssumption ==
    /\ MaxRetries \in Nat \ {0} /\ ClientTimeout \in Nat
    /\ Deadlines \subseteq Nat
    /\ MaxPieces \in Nat \ {0}

VARIABLES
    kind,       \* the provider
    streamed,   \* a handler was given
    deadline,   \* when the caller's context ends
    pc,
    now,
    since,      \* when the exchange began
    sent,       \* requests sent; attempt + 1 once one is out
    status,     \* of the last response
    text,       \* pieces in the content so far
    given,      \* pieces the handler took
    closed,     \* the handler took the usage
    cut         \* history: a body broke off

vars == <<kind, streamed, deadline, pc, now, since, sent, status, text, given, closed, cut>>
call == <<kind, streamed, deadline>>
content == <<text, given, closed, cut>>

TypeOK ==
    /\ kind \in {"openai", "groq", "buffered"} /\ streamed \in BOOLEAN
    /\ deadline \in Deadlines
    /\ pc \in {"ask", "wait", "read", "stream", "deliver", "ok", "error"}
    /\ now \in Nat /\ since \in 0..now
    /\ sent \in 0..MaxRetries
    /\ status \in {"none", "ok", "busy", "refused"}
    /\ text \in 0..MaxPieces /\ given \in 0..text
    /\ closed \in BOOLEAN /\ cut \in BOOLEAN

Init ==
    /\ kind \in {"openai", "groq", "buffered"} /\ streamed \in BOOLEAN
    /\ deadline \in Deadlines
    /\ pc = "ask" /\ now = 0 /\ since = 0
    /\ sent = 0 /\ status = "none"
    /\ text = 0 /\ given = 0
    /\ closed = FALSE /\ cut = FALSE

\* chatOpenAICompatibleStream, and not postJSON.
Streams == streamed /\ kind # "buffered"
\* Mutation: attempt runs up to maxRetries.
TriesOneMore == IF kind = "groq" THEN 2 ELSE MaxRetries + 1

Tries == IF kind = "groq" THEN 1 ELSE MaxRetries

\* When the exchange may bring something, and when it may break.
Moments == {t \in now..(since + ClientTimeout) : t < deadline}
Breaks == {now} \cup {t \in now..(since + ClientTimeout) : t <= deadline}

-----------------------------------------------------------------------------
(* postJSON *)

NoKey ==
    /\ pc = "ask" /\ sent = 0
    /\ pc' = "error"
    /\ UNCHANGED <<call, now, since, sent, status, content>>

Send ==
    /\ pc = "ask"
    /\ pc' = "wait"
    /\ sent' = sent + 1
    /\ since' = now
    /\ UNCHANGED <<call, now, status, content>>

\* 1 << attempt.
Backoff[attempt \in Nat] == IF attempt = 0 THEN 1 ELSE 2 * Backoff[attempt - 1]

\* The sleep is not interrupted, and the last try is followed by one too.
SleepAndRepeat(t, seconds) ==
    /\ now' = t + seconds
    /\ pc' = IF sent < Tries THEN "ask" ELSE "error"

\* Mutation: whether the context has ended is not looked at.
DoFailsAlwaysRepeats ==
    /\ pc = "wait"
    /\ \E t \in Breaks :
          IF Streams THEN now' = t /\ pc' = "error" ELSE SleepAndRepeat(t, sent)
    /\ UNCHANGED <<call, since, sent, status, content>>

DoFails ==
    /\ pc = "wait"
    /\ \E t \in Breaks :
          IF Streams \/ t >= deadline
          THEN now' = t /\ pc' = "error"
          ELSE SleepAndRepeat(t, sent)
    /\ UNCHANGED <<call, since, sent, status, content>>

Hear ==
    /\ pc = "wait"
    /\ now' \in Moments
    /\ status' \in {"ok", "busy", "refused"}
    /\ pc' = IF Streams /\ status' = "ok" THEN "stream" ELSE "read"
    /\ UNCHANGED <<call, since, sent, content>>

BodyBreaks ==
    /\ pc = "read"
    /\ now' \in Breaks
    /\ pc' = "error"
    /\ cut' = TRUE
    /\ UNCHANGED <<call, since, sent, status, text, given, closed>>

\* Groq is left to the next model; a stream is not asked for again.
Refused ==
    /\ pc = "read"
    /\ \/ status = "refused"
       \/ status = "busy" /\ (kind = "groq" \/ Streams)
    /\ now' \in Moments
    /\ pc' = "error"
    /\ UNCHANGED <<call, since, sent, status, content>>

Busy ==
    /\ pc = "read"
    /\ status = "busy" /\ kind # "groq" /\ ~Streams
    /\ \E t \in Moments : SleepAndRepeat(t, Backoff[sent - 1])
    /\ UNCHANGED <<call, since, sent, status, content>>

\* A body that is no JSON is an error; one without text is an answer.
Parse ==
    /\ pc = "read" /\ status = "ok"
    /\ now' \in Moments
    /\ \/ pc' = "error" /\ UNCHANGED text
       \/ pc' = (IF streamed THEN "deliver" ELSE "ok") /\ text' \in 0..1
    /\ UNCHANGED <<call, since, sent, status, given, closed, cut>>

-----------------------------------------------------------------------------
(* Handing over *)

\* The handler fails when the client is gone.
Take ==
    \/ pc' = "error" /\ UNCHANGED given
    \/ given' = text' /\ UNCHANGED pc
TakeUsage ==
    \/ pc' = "error" /\ UNCHANGED closed
    \/ pc' = "ok" /\ closed' = TRUE

Piece ==
    /\ pc = "stream" /\ text < MaxPieces
    /\ now' \in Moments
    /\ text' = text + 1
    /\ Take
    /\ UNCHANGED <<call, since, sent, status, closed, cut>>

\* Mutation: the scanner's error is not looked at.
StreamBreaksUnseen ==
    /\ pc = "stream"
    /\ now' \in Breaks
    /\ cut' = TRUE
    /\ TakeUsage
    /\ UNCHANGED <<call, since, sent, status, text, given>>

\* The timeout, the caller's context or the connection ends the stream.
StreamBreaks ==
    /\ pc = "stream"
    /\ now' \in Breaks
    /\ pc' = "error"
    /\ cut' = TRUE
    /\ UNCHANGED <<call, since, sent, status, text, given, closed>>

\* "[DONE]", or the body simply ends.
StreamEnds ==
    /\ pc = "stream"
    /\ now' \in Moments
    /\ TakeUsage
    /\ UNCHANGED <<call, since, sent, status, text, given, cut>>

Deliver ==
    /\ pc = "deliver" /\ given < text
    /\ text' = text
    /\ Take
    /\ UNCHANGED <<call, now, since, sent, status, closed, cut>>

DeliverUsage ==
    /\ pc = "deliver" /\ given = text
    /\ TakeUsage
    /\ UNCHANGED <<call, now, since, sent, status, text, given, cut>>

Returned == pc \in {"ok", "error"} /\ UNCHANGED vars

Next ==
    \/ NoKey \/ Send \/ DoFails \/ Hear
    \/ BodyBreaks \/ Refused \/ Busy \/ Parse
    \/ Piece \/ StreamBreaks \/ StreamEnds
    \/ Deliver \/ DeliverUsage
    \/ Returned

Spec == Init /\ [][Next]_vars

-----------------------------------------------------------------------------
(* Properties *)

\* A call keeps what the router relies on, whatever breaks at whatever moment:
\* no second request after the provider began to answer, no answer from a
\* stream that broke, and the text returned is the text the client was given
\* (client.go:214-300, 430-464).
Contract == INSTANCE ModelCall WITH
    MaxAsks <- MaxRetries,
    phase <- CASE pc \in {"ok", "error"} -> pc
               [] pc \in {"stream", "deliver"} -> "heard"
               [] pc = "read" /\ status = "ok" -> "heard"
               [] OTHER -> "asking",
    asked <- sent,
    answer <- IF pc = "ok" THEN text ELSE 0
RefinesCall == Contract!Spec

\* The longer of the two sleeps a try may end with, and the sum of the first n.
LongestSleep(n) == IF n > Backoff[n - 1] THEN n ELSE Backoff[n - 1]
Slept[n \in Nat] == IF n = 0 THEN 0 ELSE Slept[n - 1] + LongestSleep(n)

\* A call ends by its own timeouts, and goes on past the caller's deadline by
\* one sleep at most, the longest one: http.Client does not see a sleep, and
\* the sleep does not see the context (client.go:94, 438-461).  A stream does
\* not sleep.
ReturnsInTime ==
    IF Streams
    THEN now <= ClientTimeout /\ now <= deadline
    ELSE /\ now <= Tries * ClientTimeout + Slept[Tries]
         /\ now <= deadline + LongestSleep(Tries)
=============================================================================
