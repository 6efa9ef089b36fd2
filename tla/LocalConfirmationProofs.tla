------------------------ MODULE LocalConfirmationProofs ------------------------
(***************************************************************************)
(* Theorems about LocalConfirmation, for any number of CLIs, prompts and   *)
(* requests.  That no response channel overflows rests on the slot: the    *)
(* request it holds has not been answered, because completePending empties *)
(* the slot in the step that answers.                                      *)
(***************************************************************************)
EXTENDS LocalConfirmation, SequenceTheorems, TLAPS

\* The request in the slot has not been answered.
SlotUnanswered == slot # 0 => response[slot] = << >>

\* The part of TypeOK about the desktop.
DesktopTyped ==
  /\ asked \in Seq([cli: Clis, prompt: 1 .. MaxPrompts]) /\ Len(asked) <= MaxRequests
  /\ waiting \subseteq DOMAIN asked /\ windows \subseteq DOMAIN asked
  /\ response \in [1 .. MaxRequests -> Seq(1 .. MaxRequests)]
  /\ slot \in 0 .. Len(asked)

\* A handler under way knows its prompt.
PromptsKnown ==
  \A c \in Clis :
    handler[c].stage \in {"starting", "asking", "decided", "writing"} =>
      handler[c].prompt \in 1 .. MaxPrompts

\* Nothing was sent to the channel of a request yet to come.
FreshChannels == \A i \in 1 .. MaxRequests : i > Len(asked) => response[i] = << >>

IInv == TypeOK /\ PromptsKnown /\ SlotUnanswered /\ FreshChannels /\ ResponseNeverBlocks

--------------------------------------------------------------------------------
(* Lemmas about single steps. *)

\* An idle goroutine is well formed, and so is one that finishes.
LEMMA HandlerForms ==
  /\ NoHandler \in Handler
  /\ Finishing \in Handler
  /\ NoHandler.stage = "none"
  /\ Finishing.stage = "finishing"
BY ConfirmationAssumption DEF NoHandler, Finishing, Handler, HandlerAt

\* Output starts a handler for its prompt, or leaves the one that runs.
LEMMA OnOutputStep ==
  ASSUME IInv, NEW c \in Clis, NEW p \in 1 .. MaxPrompts, OnOutput(c, p),
         UNCHANGED desktopVars,
         raised' \in [Clis -> 0 .. MaxPrompts], showing' \in [Clis -> 0 .. MaxPrompts]
  PROVE  IInv'
<1> DEFINE started == HandlerAt("starting", p, 0, "ws", 0)
<1>1. started \in Handler /\ started.stage = "starting" /\ started.prompt = p
  BY ConfirmationAssumption DEF HandlerAt, Handler
<1>2. started # NoHandler
  BY <1>1, HandlerForms
<1>3. /\ handler' \in [Clis -> Handler]
      /\ handler'[c] = IF handler[c] = NoHandler THEN started ELSE handler[c]
      /\ \A d \in Clis \ {c} : handler'[d] = handler[d]
  BY <1>1 DEF IInv, TypeOK, OnOutput
<1>4. /\ buffer' \in [Clis -> SUBSET (1 .. MaxPrompts)]
      /\ \A d \in Clis \ {c} : buffer'[d] = buffer[d]
  BY DEF IInv, TypeOK, OnOutput
<1>5. TypeOK'
  BY <1>2, <1>3, <1>4 DEF IInv, TypeOK, desktopVars
<1>6. PromptsKnown'
  BY <1>1, <1>3 DEF IInv, PromptsKnown
<1>7. QED
  BY <1>5, <1>6 DEF IInv, SlotUnanswered, FreshChannels, ResponseNeverBlocks, desktopVars

\* A failed attempt leaves a well-formed handler that knows its prompt.
LEMMA NextAttemptForm ==
  ASSUME NEW h \in Handler
  PROVE  /\ NextAttempt(h) \in Handler
         /\ NextAttempt(h).stage = "finishing" \/ NextAttempt(h).prompt = h.prompt
         /\ NextAttempt(h) # NoHandler
<1> DEFINE next == HandlerAt("starting", h.prompt, 0, "http", 0)
<1>1. h.prompt \in 0 .. MaxPrompts /\ 0 \in 0 .. MaxRequests
  <2>1. h.prompt \in 0 .. MaxPrompts
    BY DEF Handler
  <2>2. 0 \in 0 .. MaxRequests
    BY ConfirmationAssumption
  <2>3. QED
    BY <2>1, <2>2
<1>2. next \in Handler /\ next.stage = "starting" /\ next.prompt = h.prompt
  BY <1>1 DEF Handler, HandlerAt
<1>3. next # NoHandler /\ Finishing # NoHandler
  BY <1>2, HandlerForms
<1>4. NextAttempt(h) = next \/ NextAttempt(h) = Finishing
  BY DEF NextAttempt
<1>5. QED
  BY <1>2, <1>3, <1>4, HandlerForms

\* Steps that replace handlers by busy ones, and touch neither texts nor requests.
LEMMA HandlerStep ==
  ASSUME IInv, handler' \in [Clis -> Handler],
         \A c \in Clis : \/ handler'[c] = handler[c]
                         \/ /\ handler[c] # NoHandler
                            /\ handler'[c] # NoHandler
                            /\ \/ handler'[c].stage = "finishing"
                               \/ handler'[c].prompt \in 1 .. MaxPrompts,
         UNCHANGED <<raised, buffer>>, showing' \in [Clis -> 0 .. MaxPrompts],
         DesktopTyped', SlotUnanswered', FreshChannels', ResponseNeverBlocks'
  PROVE  IInv'
<1>1. \A c \in Clis : handler'[c] = NoHandler => buffer'[c] = {}
  BY DEF IInv, TypeOK
<1>2. TypeOK'
  BY <1>1 DEF IInv, TypeOK, DesktopTyped
<1>3. PromptsKnown'
  BY DEF IInv, PromptsKnown
<1>4. QED
  BY <1>2, <1>3 DEF IInv

--------------------------------------------------------------------------------
(* The invariant. *)

\* The initial states satisfy the invariant.
LEMMA InitInv == Init => IInv
<1> SUFFICES ASSUME Init PROVE IInv
  OBVIOUS
<1>1. /\ raised \in [Clis -> 0 .. MaxPrompts]
      /\ showing \in [Clis -> 0 .. MaxPrompts]
      /\ buffer \in [Clis -> SUBSET (1 .. MaxPrompts)]
  BY ConfirmationAssumption DEF Init
<1>2. /\ handler \in [Clis -> Handler]
      /\ \A c \in Clis : handler[c] = NoHandler
  BY HandlerForms DEF Init
<1>3. /\ asked \in Seq([cli: Clis, prompt: 1 .. MaxPrompts]) /\ Len(asked) = 0
      /\ waiting \subseteq DOMAIN asked /\ windows \subseteq DOMAIN asked
      /\ slot = 0
  BY DEF Init
<1>4. /\ response \in [1 .. MaxRequests -> Seq(1 .. MaxRequests)]
      /\ \A i \in 1 .. MaxRequests : response[i] = << >>
  BY DEF Init
<1>5. \A c \in Clis : buffer[c] = {}
  BY DEF Init
<1>6. TypeOK
  BY <1>1, <1>2, <1>3, <1>4, <1>5, ConfirmationAssumption DEF TypeOK
<1>7. PromptsKnown
  BY <1>2, HandlerForms DEF PromptsKnown
<1>8. SlotUnanswered /\ FreshChannels /\ ResponseNeverBlocks
  BY <1>3, <1>4 DEF SlotUnanswered, FreshChannels, ResponseNeverBlocks
<1>9. QED
  BY <1>6, <1>7, <1>8 DEF IInv

\* The steps of a CLI keep it.
LEMMA CliStep ==
  ASSUME IInv, NEW c \in Clis, CliNext(c)
  PROVE  IInv'
<1>1. CASE ShowPrompt(c)
  <2>1. /\ raised' \in [Clis -> 0 .. MaxPrompts]
        /\ raised'[c] \in 1 .. MaxPrompts
    BY <1>1, ConfirmationAssumption DEF ShowPrompt, IInv, TypeOK
  <2>2. showing' \in [Clis -> 0 .. MaxPrompts]
    BY <1>1, <2>1 DEF ShowPrompt, IInv, TypeOK
  <2>3. QED
    BY <1>1, <2>1, <2>2, OnOutputStep DEF ShowPrompt
<1>2. CASE Redraw(c)
  <2>1. showing[c] \in 1 .. MaxPrompts
    BY <1>2, ConfirmationAssumption DEF Redraw, IInv, TypeOK
  <2>2. /\ raised' \in [Clis -> 0 .. MaxPrompts]
        /\ showing' \in [Clis -> 0 .. MaxPrompts]
    BY <1>2 DEF Redraw, IInv, TypeOK, cliVars
  <2>3. QED
    BY <1>2, <2>1, <2>2, OnOutputStep DEF Redraw
<1>3. CASE Flood(c)
  <2>1. TypeOK'
    BY <1>3 DEF Flood, IInv, TypeOK, cliVars, desktopVars
  <2>2. QED
    BY <1>3, <2>1
       DEF Flood, IInv, PromptsKnown, SlotUnanswered, FreshChannels, ResponseNeverBlocks,
           desktopVars
<1>4. CASE AnswerInTerminal(c)
  <2>1. TypeOK'
    BY <1>4, ConfirmationAssumption DEF AnswerInTerminal, IInv, TypeOK, desktopVars
  <2>2. QED
    BY <1>4, <2>1
       DEF AnswerInTerminal, IInv, PromptsKnown, SlotUnanswered, FreshChannels, ResponseNeverBlocks,
           desktopVars
<1>5. QED
  BY <1>1, <1>2, <1>3, <1>4 DEF CliNext

\* The steps of a handler keep it.
LEMMA HandlerNext ==
  ASSUME IInv, NEW c \in Clis, Start(c) \/ GiveUpWaiting(c) \/ Proceed(c)
  PROVE  IInv'
<1> USE DEF IInv
<1>1. CASE Ask(c)
  <2> DEFINE new == [cli |-> c, prompt |-> handler[c].prompt]
             n == Len(asked) + 1
  <2>1. new \in [cli: Clis, prompt: 1 .. MaxPrompts]
    BY <1>1 DEF Ask, PromptsKnown
  <2>2. /\ asked' = Append(asked, new)
        /\ asked' \in Seq([cli: Clis, prompt: 1 .. MaxPrompts]) /\ Len(asked') = n
        /\ n \in 1 .. MaxRequests
    BY <1>1, <2>1, ConfirmationAssumption DEF Ask, TypeOK
  <2>3. /\ slot' = n /\ response' = response
        /\ waiting' = waiting \cup {n} /\ windows' = windows \cup {n}
    BY <1>1, <2>2 DEF Ask
  <2>4. DesktopTyped'
    <3>1. DOMAIN asked = 1 .. n - 1 /\ DOMAIN asked' = 1 .. n /\ n \in Nat
      BY <2>2, ConfirmationAssumption DEF TypeOK
    <3>2. waiting' \subseteq DOMAIN asked' /\ windows' \subseteq DOMAIN asked'
      <4>1. waiting \subseteq 1 .. n - 1 /\ windows \subseteq 1 .. n - 1
        BY <3>1 DEF TypeOK
      <4>2. 1 .. n - 1 \subseteq 1 .. n /\ n \in 1 .. n
        BY <2>2, <3>1
      <4>3. QED
        BY <2>3, <3>1, <4>1, <4>2
    <3>3. slot' \in 0 .. Len(asked') /\ Len(asked') <= MaxRequests
      BY <2>2, <2>3, <3>1, ConfirmationAssumption
    <3>4. response' \in [1 .. MaxRequests -> Seq(1 .. MaxRequests)]
      BY <2>3 DEF TypeOK
    <3>5. QED
      BY <2>2, <3>2, <3>3, <3>4 DEF DesktopTyped
  <2>5. response[n] = << >>
    BY <1>1, <2>2 DEF FreshChannels
  <2>6. SlotUnanswered' /\ ResponseNeverBlocks'
    BY <2>3, <2>5 DEF SlotUnanswered, ResponseNeverBlocks
  <2>7. /\ handler' \in [Clis -> Handler]
        /\ \A d \in Clis \ {c} : handler'[d] = handler[d]
        /\ handler'[c].stage = "asking" /\ handler'[c].prompt = handler[c].prompt
    <3>1. handler' = [handler EXCEPT ![c] =
                        HandlerAt("asking", handler[c].prompt, n, handler[c].via, 0)]
      BY <1>1, <2>3 DEF Ask
    <3>2. HandlerAt("asking", handler[c].prompt, n, handler[c].via, 0) \in Handler
      <4>1. handler[c].prompt \in 0 .. MaxPrompts /\ handler[c].via \in {"", "ws", "http"}
        BY DEF TypeOK, Handler
      <4>2. n \in 0 .. MaxRequests /\ 0 \in 0 .. MaxRequests
        BY <2>2, ConfirmationAssumption
      <4>3. QED
        BY <4>1, <4>2 DEF Handler, HandlerAt
    <3>3. QED
      BY <3>1, <3>2 DEF TypeOK, HandlerAt
  <2>8. /\ handler[c] # NoHandler /\ handler'[c] # NoHandler
        /\ handler'[c].prompt \in 1 .. MaxPrompts
    BY <1>1, <2>7, HandlerForms DEF Ask, PromptsKnown
  <2>9. UNCHANGED <<raised, buffer>> /\ showing' \in [Clis -> 0 .. MaxPrompts]
    BY <1>1 DEF Ask, TypeOK, cliVars
  <2>10. FreshChannels'
    BY <2>2, <2>3 DEF FreshChannels
  <2>11. QED
    BY <2>4, <2>6, <2>7, <2>8, <2>9, <2>10, HandlerStep
<1>2. CASE AskFails(c) \/ GiveUpWaiting(c)
  <2>1. /\ handler[c] \in Handler /\ handler[c] # NoHandler
        /\ handler[c].prompt \in 1 .. MaxPrompts
    BY <1>2, HandlerForms DEF AskFails, GiveUpWaiting, TypeOK, PromptsKnown
  <2>2. /\ handler' = [handler EXCEPT ![c] = NextAttempt(handler[c])]
        /\ UNCHANGED <<cliVars, buffer, desktopVars>>
    BY <1>2 DEF AskFails, GiveUpWaiting
  <2>3. /\ handler' \in [Clis -> Handler]
        /\ handler'[c] = NextAttempt(handler[c])
        /\ \A d \in Clis \ {c} : handler'[d] = handler[d]
    BY <2>1, <2>2, NextAttemptForm DEF TypeOK
  <2>4. DesktopTyped' /\ SlotUnanswered' /\ FreshChannels' /\ ResponseNeverBlocks'
    BY <2>2
       DEF TypeOK, DesktopTyped, SlotUnanswered, FreshChannels, ResponseNeverBlocks, desktopVars
  <2>5. UNCHANGED <<raised, buffer>> /\ showing' \in [Clis -> 0 .. MaxPrompts]
    BY <2>2 DEF TypeOK, cliVars
  <2>6. QED
    BY <2>1, <2>3, <2>4, <2>5, NextAttemptForm, HandlerStep
<1>3. CASE CheckPrompt(c) \/ WriteDecision(c)
  <2>1. /\ handler[c] \in Handler /\ handler[c] # NoHandler
        /\ handler[c].prompt \in 1 .. MaxPrompts
    BY <1>3, HandlerForms DEF CheckPrompt, WriteDecision, TypeOK, PromptsKnown
  <2>2. /\ UNCHANGED <<raised, buffer, desktopVars>>
        /\ showing' \in [Clis -> 0 .. MaxPrompts]
    <3>1. CASE CheckPrompt(c)
      BY <3>1 DEF CheckPrompt, TypeOK, cliVars
    <3>2. CASE WriteDecision(c)
      <4>1. UNCHANGED <<raised, buffer, desktopVars>>
        BY <3>2 DEF WriteDecision
      <4>2. showing' = [showing EXCEPT ![c] = 0] \/ showing' = showing
        BY <3>2 DEF WriteDecision
      <4>3. showing' \in [Clis -> 0 .. MaxPrompts]
        <5>1. showing \in [Clis -> 0 .. MaxPrompts] /\ 0 \in 0 .. MaxPrompts
          BY ConfirmationAssumption DEF TypeOK
        <5>2. QED
          BY <4>2, <5>1
      <4>4. QED
        BY <4>1, <4>3
    <3>3. QED
      BY <1>3, <3>1, <3>2
  <2>3. \E h \in Handler :
          /\ handler' = [handler EXCEPT ![c] = h]
          /\ h # NoHandler
          /\ h.stage = "finishing" \/ h.prompt = handler[c].prompt
    <3> DEFINE h == HandlerAt("writing", handler[c].prompt, 0, "", handler[c].by)
    <3>1. h \in Handler /\ h.stage = "writing" /\ h.prompt = handler[c].prompt
      <4>1. handler[c].prompt \in 0 .. MaxPrompts /\ handler[c].by \in 0 .. MaxRequests
        BY <2>1 DEF Handler
      <4>2. 0 \in 0 .. MaxRequests
        BY ConfirmationAssumption
      <4>3. QED
        BY <4>1, <4>2 DEF Handler, HandlerAt
    <3>2. CASE CheckPrompt(c)
      BY <3>1, <3>2, HandlerForms DEF CheckPrompt, AfterCheck
    <3>3. CASE WriteDecision(c)
      BY <3>3, HandlerForms DEF WriteDecision
    <3>4. QED
      BY <1>3, <3>2, <3>3
  <2>4. /\ handler' \in [Clis -> Handler]
        /\ handler'[c] # NoHandler
        /\ handler'[c].stage = "finishing" \/ handler'[c].prompt = handler[c].prompt
        /\ \A d \in Clis \ {c} : handler'[d] = handler[d]
    BY <2>3 DEF TypeOK
  <2>5. DesktopTyped' /\ SlotUnanswered' /\ FreshChannels' /\ ResponseNeverBlocks'
    BY <2>2
       DEF TypeOK, DesktopTyped, SlotUnanswered, FreshChannels, ResponseNeverBlocks, desktopVars
  <2>6. QED
    BY <2>1, <2>2, <2>4, <2>5, HandlerStep
<1>4. CASE FinishApproval(c)
  <2>1. TypeOK'
    BY <1>4, HandlerForms DEF FinishApproval, TypeOK, cliVars, desktopVars
  <2>2. PromptsKnown'
    BY <1>4, HandlerForms DEF FinishApproval, TypeOK, PromptsKnown
  <2>3. QED
    BY <1>4, <2>1, <2>2
       DEF FinishApproval, SlotUnanswered, FreshChannels, ResponseNeverBlocks, desktopVars
<1>5. QED
  BY <1>1, <1>2, <1>3, <1>4 DEF Start, Proceed

\* The steps of the desktop about one request keep it.
LEMMA DesktopStep ==
  ASSUME IInv, NEW i \in DOMAIN asked, DesktopNext(i)
  PROVE  IInv'
<1> USE DEF IInv
<1>1. i \in 1 .. Len(asked) /\ i \in 1 .. MaxRequests
  <2>1. asked \in Seq([cli : Clis, prompt : 1..MaxPrompts]) /\ Len(asked) <= MaxRequests
    BY DEF TypeOK
  <2>2. i \in 1 .. Len(asked) /\ Len(asked) \in Nat
    BY <2>1
  <2>3. QED
    BY <2>1, <2>2, ConfirmationAssumption
<1>2. CASE ClickWindow(i)
  <2>1. /\ UNCHANGED <<raised, showing, buffer, handler, asked, waiting>>
        /\ windows' = windows \ {i}
    BY <1>2 DEF ClickWindow, cliVars
  <2>2. CASE slot # 0
    <3>1. slot \in 1 .. MaxRequests /\ slot <= Len(asked)
      BY <2>2, ConfirmationAssumption DEF TypeOK
    <3>2. Append(response[slot], i) = <<i>> /\ <<i>> \in Seq(1 .. MaxRequests)
      <4>1. response[slot] = << >>
        BY <2>2 DEF SlotUnanswered
      <4>2. Append(<< >>, i) = <<i>>
        OBVIOUS
      <4>3. QED
        BY <1>1, <4>1, <4>2
    <3>3. slot' = 0 /\ response' = [response EXCEPT ![slot] = <<i>>]
      BY <1>2, <2>2, <3>2 DEF ClickWindow, CompletePending
    <3>4. DesktopTyped'
      BY <2>1, <3>1, <3>2, <3>3 DEF TypeOK, DesktopTyped
    <3>5. SlotUnanswered' /\ FreshChannels'
      BY <2>1, <3>1, <3>3 DEF TypeOK, SlotUnanswered, FreshChannels
    <3>6. ResponseNeverBlocks'
      BY <3>1, <3>3 DEF TypeOK, ResponseNeverBlocks
    <3>7. QED
      BY <2>1, <3>4, <3>5, <3>6, HandlerStep DEF TypeOK
  <2>3. CASE slot = 0
    <3>1. UNCHANGED <<response, slot>>
      BY <1>2, <2>3 DEF ClickWindow
    <3>2. DesktopTyped' /\ SlotUnanswered' /\ FreshChannels' /\ ResponseNeverBlocks'
      BY <2>1, <3>1 DEF TypeOK, DesktopTyped, SlotUnanswered, FreshChannels, ResponseNeverBlocks
    <3>3. QED
      BY <2>1, <3>2, HandlerStep DEF TypeOK
  <2>4. QED
    BY <2>2, <2>3
<1>3. CASE ReplyDecision(i) \/ ReplyTimeout(i)
  <2>1. PICK by \in 0 .. MaxRequests : Reply(i, by)
    <3>1. CASE ReplyDecision(i)
      <4>1. Head(response[i]) \in 1 .. MaxRequests
        <5>1. response[i] \in Seq(1 .. MaxRequests) /\ response[i] # << >>
          BY <1>1, <3>1 DEF ReplyDecision, TypeOK
        <5>2. QED
          BY <5>1, HeadTailProperties
      <4>2. QED
        BY <3>1, <4>1 DEF ReplyDecision
    <3>2. CASE ReplyTimeout(i)
      BY <3>2, ConfirmationAssumption DEF ReplyTimeout
    <3>3. QED
      BY <1>3, <3>1, <3>2
  <2>2. /\ response' = [response EXCEPT ![i] = << >>]
        /\ waiting' = waiting \ {i}
        /\ UNCHANGED <<raised, showing, buffer, asked, windows, slot>>
    BY <2>1 DEF Reply, cliVars
  <2>3. DesktopTyped'
    BY <1>1, <2>2 DEF TypeOK, DesktopTyped
  <2>4. SlotUnanswered' /\ FreshChannels' /\ ResponseNeverBlocks'
    BY <1>1, <2>2, ConfirmationAssumption
       DEF TypeOK, SlotUnanswered, FreshChannels, ResponseNeverBlocks
  <2>5. \A c \in Clis :
          \/ handler'[c] = handler[c]
          \/ /\ handler[c].stage = "asking"
             /\ handler'[c] = HandlerAt("decided", handler[c].prompt, 0, "", by)
    BY <2>1 DEF Reply
  <2>6. \A c \in Clis :
          handler[c].stage = "asking" =>
            LET h == HandlerAt("decided", handler[c].prompt, 0, "", by)
            IN  /\ h \in Handler /\ h.stage = "decided"
                /\ h.prompt = handler[c].prompt /\ h.prompt \in 1 .. MaxPrompts
    BY ConfirmationAssumption DEF PromptsKnown, Handler, HandlerAt
  <2>7. handler' \in [Clis -> Handler]
    <3>1. handler' = [c \in Clis |-> handler'[c]]
      BY <2>1 DEF Reply
    <3>2. QED
      BY <2>5, <2>6, <3>1 DEF TypeOK
  <2>8. \A c \in Clis :
          \/ handler'[c] = handler[c]
          \/ /\ handler[c] # NoHandler /\ handler'[c] # NoHandler
             /\ handler'[c].prompt \in 1 .. MaxPrompts
    BY <2>5, <2>6, HandlerForms
  <2>9. QED
    BY <2>2, <2>3, <2>4, <2>7, <2>8, HandlerStep DEF TypeOK
<1>4. QED
  BY <1>2, <1>3 DEF DesktopNext

\* The end of the desktop program keeps it.
LEMMA ExitStep == ASSUME IInv, DesktopExits PROVE IInv'
<1> USE DEF IInv
<1>1. /\ slot' = 0 /\ waiting' = {} /\ windows' = {}
      /\ UNCHANGED <<raised, showing, buffer, asked, response>>
  BY DEF DesktopExits, cliVars
<1>2. DesktopTyped' /\ SlotUnanswered' /\ FreshChannels' /\ ResponseNeverBlocks'
  BY <1>1 DEF TypeOK, DesktopTyped, SlotUnanswered, FreshChannels, ResponseNeverBlocks
<1>3. \A c \in Clis : handler[c].stage = "asking" =>
        handler[c] # NoHandler /\ handler[c].prompt \in 1 .. MaxPrompts
  BY HandlerForms DEF PromptsKnown
<1>4. \A c \in Clis : handler'[c] =
        IF handler[c].stage = "asking" THEN NextAttempt(handler[c]) ELSE handler[c]
  BY DEF DesktopExits
<1>5. handler' \in [Clis -> Handler]
  <2>1. handler' = [c \in Clis |-> handler'[c]]
    BY DEF DesktopExits
  <2>2. QED
    BY <1>4, <2>1, NextAttemptForm DEF TypeOK
<1>6. \A c \in Clis :
        \/ handler'[c] = handler[c]
        \/ /\ handler[c] # NoHandler /\ handler'[c] # NoHandler
           /\ \/ handler'[c].stage = "finishing"
              \/ handler'[c].prompt \in 1 .. MaxPrompts
  BY <1>3, <1>4, NextAttemptForm DEF TypeOK
<1>7. QED
  BY <1>1, <1>2, <1>5, <1>6, HandlerStep DEF TypeOK

\* Every step keeps the invariant.
LEMMA StepInv == IInv /\ [Next]_vars => IInv'
<1> SUFFICES ASSUME IInv, [Next]_vars PROVE IInv'
  OBVIOUS
<1>1. CASE UNCHANGED vars
  BY <1>1 DEF vars, cliVars, desktopVars, IInv, TypeOK, PromptsKnown, SlotUnanswered,
              FreshChannels, ResponseNeverBlocks
<1>2. CASE \E c \in Clis : CliNext(c) \/ Start(c) \/ GiveUpWaiting(c) \/ Proceed(c)
  BY <1>2, CliStep, HandlerNext
<1>3. CASE \E i \in DOMAIN asked : DesktopNext(i)
  BY <1>3, DesktopStep
<1>4. CASE DesktopExits
  BY <1>4, ExitStep
<1>5. QED
  BY <1>1, <1>2, <1>3, <1>4 DEF Next

--------------------------------------------------------------------------------

\* The invariant holds for ever.
LEMMA AlwaysInv == Spec => []IInv
BY InitInv, StepInv, PTL DEF Spec

\* The handlers, requests and texts keep the shape of the code's structs, and an
\* idle detector holds no text.
THEOREM TypeCorrect == Spec => []TypeOK
<1>1. IInv => TypeOK
  BY DEF IInv
<1>2. QED
  BY <1>1, AlwaysInv, PTL

\* completePending never blocks on a full response channel.
THEOREM ResponsesNeverBlock == Spec => []ResponseNeverBlocks
<1>1. IInv => ResponseNeverBlocks
  BY DEF IInv
<1>2. QED
  BY <1>1, AlwaysInv, PTL
================================================================================
