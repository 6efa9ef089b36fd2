--------------------------- MODULE LocalConfirmation ---------------------------
(***************************************************************************)
(* How a prompt of a CLI that runs on the user's own machine is confirmed  *)
(* without the server: the detector and the handler goroutine of each      *)
(* "gp codex" or "gp claude" process (interactiveApprovalDetector and      *)
(* requestTrayDecision in src/agent/cmd/gp/main.go) and the desktop        *)
(* program they ask (localRuntimeState in                                  *)
(* src/agent/desktop/local_runtime.go), which keeps ONE pending request.   *)
(*                                                                         *)
(* The prompts of a CLI are numbered.  Its text buffer is the set of the   *)
(* prompts whose text it still holds.  A decision is named after the       *)
(* window the user clicked, 0 when the desktop rejected for lack of an     *)
(* answer.  The detector's and the desktop's mutexes make actions of their *)
(* sections; between them anything may happen.                             *)
(***************************************************************************)
EXTENDS Naturals, Sequences

CONSTANTS
  Clis,        \* CLI processes running under gp
  MaxPrompts,  \* bound: prompts of each CLI
  MaxRequests  \* bound: requests the desktop receives

ASSUME ConfirmationAssumption == MaxPrompts \in Nat /\ MaxRequests \in Nat

VARIABLES
  raised,   \* prompts each CLI has shown so far
  showing,  \* the prompt each CLI waits at, 0 for none
  buffer,   \* the prompts whose text the detector's buffer holds
  handler,  \* the goroutine in handleApproval; the detector is pending while it runs
  asked,    \* the requests the desktop has received; each is named by its number
  waiting,  \* the requests whose goroutine in the desktop waits for an answer
  windows,  \* the requests whose window is open
  response, \* what was sent to the response channel of each request
  slot      \* the desktop's pending request, 0 for none

cliVars == <<raised, showing>>
desktopVars == <<asked, waiting, windows, response, slot>>
vars == <<cliVars, buffer, handler, desktopVars>>

\* The goroutine: where it stands, the prompt it is about, the request it waits
\* for and how it asked, and the decision it got.
HandlerAt(stage, prompt, request, via, by) ==
  [stage |-> stage, prompt |-> prompt, request |-> request, via |-> via, by |-> by]

NoHandler == HandlerAt("none", 0, 0, "", 0)

Finishing == HandlerAt("finishing", 0, 0, "", 0)

Init ==
  /\ raised = [c \in Clis |-> 0]
  /\ showing = [c \in Clis |-> 0]
  /\ buffer = [c \in Clis |-> {}]
  /\ handler = [c \in Clis |-> NoHandler]
  /\ asked = << >>
  /\ waiting = {} /\ windows = {}
  /\ response = [i \in 1 .. MaxRequests |-> << >>]
  /\ slot = 0

--------------------------------------------------------------------------------
(* The CLI and its detector. *)

\* onOutput: the text is kept; a prompt starts a handler unless one runs.
OnOutput(c, prompt) ==
  /\ buffer' = [buffer EXCEPT ![c] = @ \cup {prompt}]
  /\ handler' = [handler EXCEPT ![c] =
       IF @ = NoHandler THEN HandlerAt("starting", prompt, 0, "ws", 0) ELSE @]

ShowPrompt(c) ==
  /\ showing[c] = 0 /\ raised[c] < MaxPrompts
  /\ raised' = [raised EXCEPT ![c] = @ + 1]
  /\ showing' = [showing EXCEPT ![c] = raised'[c]]
  /\ OnOutput(c, raised'[c])
  /\ UNCHANGED desktopVars

\* The CLI paints its prompt again.
Redraw(c) ==
  /\ showing[c] # 0
  /\ OnOutput(c, showing[c])
  /\ UNCHANGED <<cliVars, desktopVars>>

\* The CLI goes on and its output drives every prompt out of the buffer.
Flood(c) ==
  /\ showing[c] = 0 /\ buffer[c] # {}
  /\ buffer' = [buffer EXCEPT ![c] = {}]
  /\ UNCHANGED <<cliVars, handler, desktopVars>>

\* The user answers in the terminal, or through the input of the session host.
AnswerInTerminal(c) ==
  /\ showing[c] # 0
  /\ showing' = [showing EXCEPT ![c] = 0]
  /\ UNCHANGED <<raised, buffer, handler, desktopVars>>

--------------------------------------------------------------------------------
(* Handler and desktop. *)

\* The desktop takes the request into its slot, whatever the slot holds, and
\* opens a window for it.
Ask(c) ==
  /\ handler[c].stage = "starting"
  /\ Len(asked) < MaxRequests
  /\ asked' = Append(asked, [cli |-> c, prompt |-> handler[c].prompt])
  /\ slot' = Len(asked')
  /\ waiting' = waiting \cup {slot'}
  /\ windows' = windows \cup {slot'}
  /\ handler' = [handler EXCEPT ![c] = HandlerAt("asking", @.prompt, slot', @.via, 0)]
  /\ UNCHANGED <<cliVars, buffer, response>>

\* The WebSocket attempt failed: the handler asks again over HTTP; when that
\* fails too, it gives up.
NextAttempt(h) ==
  IF h.via = "ws" THEN HandlerAt("starting", h.prompt, 0, "http", 0) ELSE Finishing

\* The desktop cannot be reached.
AskFails(c) ==
  /\ handler[c].stage = "starting"
  /\ handler' = [handler EXCEPT ![c] = NextAttempt(@)]
  /\ UNCHANGED <<cliVars, buffer, desktopVars>>

\* Ten minutes have passed for the handler.
GiveUpWaiting(c) ==
  /\ handler[c].stage = "asking"
  /\ handler' = [handler EXCEPT ![c] = NextAttempt(@)]
  /\ UNCHANGED <<cliVars, buffer, desktopVars>>

\* Variant: the slot is not emptied.
CompletePendingAgain(i) ==
  /\ response' = [response EXCEPT ![slot] = Append(@, i)]
  /\ UNCHANGED slot

\* completePending: the request in the slot gets the answer, and the slot is free.
CompletePending(i) ==
  /\ response' = [response EXCEPT ![slot] = Append(@, i)]
  /\ slot' = 0

\* The user clicks in the window of request i, or the window fails to open,
\* which counts as a rejection.  Whoever holds the slot gets the answer.
ClickWindow(i) ==
  /\ i \in windows
  /\ windows' = windows \ {i}
  /\ IF slot # 0 THEN CompletePending(i) ELSE UNCHANGED <<response, slot>>
  /\ UNCHANGED <<cliVars, buffer, handler, asked, waiting>>

\* The desktop answers request i with decision "by" and forgets it; a handler
\* that no longer waits for it does not hear it.
Reply(i, by) ==
  /\ waiting' = waiting \ {i}
  /\ response' = [response EXCEPT ![i] = << >>]
  /\ handler' = [c \in Clis |->
       IF handler[c].stage = "asking" /\ handler[c].request = i
         THEN HandlerAt("decided", handler[c].prompt, 0, "", by) ELSE handler[c]]
  /\ UNCHANGED <<cliVars, buffer, asked, windows, slot>>

ReplyDecision(i) ==
  /\ i \in waiting /\ response[i] # << >>
  /\ Reply(i, Head(response[i]))

\* Ten minutes have passed for the desktop.  The slot and the window stay.
ReplyTimeout(i) ==
  /\ i \in waiting
  /\ Reply(i, 0)

\* The desktop program ends; a new one may answer the next request.
DesktopExits ==
  /\ waiting \cup windows # {}
  /\ waiting' = {} /\ windows' = {}
  /\ slot' = 0
  /\ handler' = [c \in Clis |->
       IF handler[c].stage = "asking" THEN NextAttempt(handler[c]) ELSE handler[c]]
  /\ UNCHANGED <<cliVars, buffer, asked, response>>

--------------------------------------------------------------------------------
(* The decision comes back. *)

\* IsPromptStillActive: some prompt, this one or another, is in the buffer.
PromptStillActive(c) == buffer[c] # {}

\* Variant: the goroutine returns at once when the prompt is gone.
AfterCheckReturns(h, active) ==
  HandlerAt(IF active THEN "writing" ELSE "returned", h.prompt, 0, "", h.by)

AfterCheck(h, active) ==
  IF active THEN HandlerAt("writing", h.prompt, 0, "", h.by) ELSE Finishing

CheckPrompt(c) ==
  /\ handler[c].stage = "decided"
  /\ handler' = [handler EXCEPT ![c] = AfterCheck(@, PromptStillActive(c))]
  /\ UNCHANGED <<cliVars, buffer, desktopVars>>

\* The decision is written after the lock is released; it answers whatever the
\* CLI shows by now.  A write that fails is recorded and the handler goes on.
WriteDecision(c) ==
  /\ handler[c].stage = "writing"
  /\ \/ showing' = [showing EXCEPT ![c] = 0]
     \/ UNCHANGED showing
  /\ handler' = [handler EXCEPT ![c] = Finishing]
  /\ UNCHANGED <<raised, buffer, desktopVars>>

\* Variant: finishApprovalPending(false).
FinishApprovalKeepsBuffer(c) ==
  /\ handler[c].stage = "finishing"
  /\ handler' = [handler EXCEPT ![c] = NoHandler]
  /\ UNCHANGED <<cliVars, buffer, desktopVars>>

\* finishApprovalPending(true): the buffer is emptied, whatever came in meanwhile.
FinishApproval(c) ==
  /\ handler[c].stage = "finishing"
  /\ handler' = [handler EXCEPT ![c] = NoHandler]
  /\ buffer' = [buffer EXCEPT ![c] = {}]
  /\ UNCHANGED <<cliVars, desktopVars>>

--------------------------------------------------------------------------------

CliNext(c) == ShowPrompt(c) \/ Redraw(c) \/ Flood(c) \/ AnswerInTerminal(c)

Start(c) == Ask(c) \/ AskFails(c)

Proceed(c) == CheckPrompt(c) \/ WriteDecision(c) \/ FinishApproval(c)

DesktopNext(i) == ClickWindow(i) \/ ReplyDecision(i) \/ ReplyTimeout(i)

Next ==
  \/ \E c \in Clis : CliNext(c) \/ Start(c) \/ GiveUpWaiting(c) \/ Proceed(c)
  \/ \E i \in DOMAIN asked : DesktopNext(i)
  \/ DesktopExits

Spec == Init /\ [][Next]_vars

\* Handlers that can run do, and their ten minutes pass.  The user, the CLI and
\* the desktop owe nothing.
FairSpec ==
  /\ Spec
  /\ \A c \in Clis : WF_vars(Start(c)) /\ WF_vars(GiveUpWaiting(c)) /\ WF_vars(Proceed(c))

--------------------------------------------------------------------------------
(* Properties. *)

Handler == [stage: {"none", "starting", "asking", "decided", "writing", "finishing"},
            prompt: 0 .. MaxPrompts, request: 0 .. MaxRequests, via: {"", "ws", "http"},
            by: 0 .. MaxRequests]

\* The shape of the state; an idle detector holds no text it has not looked at.
TypeOK ==
  /\ raised \in [Clis -> 0 .. MaxPrompts]
  /\ showing \in [Clis -> 0 .. MaxPrompts]
  /\ buffer \in [Clis -> SUBSET (1 .. MaxPrompts)]
  /\ handler \in [Clis -> Handler]
  /\ asked \in Seq([cli: Clis, prompt: 1 .. MaxPrompts]) /\ Len(asked) <= MaxRequests
  /\ waiting \subseteq DOMAIN asked /\ windows \subseteq DOMAIN asked
  /\ response \in [1 .. MaxRequests -> Seq(1 .. MaxRequests)]
  /\ slot \in 0 .. Len(asked)
  /\ \A c \in Clis : handler[c] = NoHandler => buffer[c] = {}

\* A response channel has room for one answer.  However requests replace one
\* another in the slot, and whichever windows are clicked or left open, no
\* answer is sent to a full channel, which would block the window's goroutine.
ResponseNeverBlocks == \A i \in 1 .. MaxRequests : Len(response[i]) <= 1

\* A handler always ends, and its detector looks at prompts again: also when
\* its request was replaced in the slot, its answer went to another, nobody
\* clicks, or the desktop exits.
HandlerEnds == \A c \in Clis : handler[c] # NoHandler ~> handler[c] = NoHandler

--------------------------------------------------------------------------------
(* What the documents say and the code does not keep: TLC refutes each. *)

\* docs/10-agent-cli-integration.md:328: a decision is written for the prompt it was
\* asked for, or not at all.  The check before the write only looks for some prompt in
\* the text kept, and the write comes after the lock is released: meanwhile the user
\* may answer in the terminal and the CLI show its next prompt.
DecisionMeetsItsPrompt ==
  [][\A c \in Clis :
       handler[c].stage = "writing" /\ handler'[c].stage # "writing" /\ showing'[c] # showing[c]
         => showing[c] = handler[c].prompt]_vars
================================================================================
