------------------------------ MODULE ToolChain ------------------------------
(***************************************************************************)
(* The tools that stand for an outside service (web_search, image_gen,     *)
(* tts) and the chain of providers behind each (toolproviders/registry.go, *)
(* gateway/gateway.go).  When an agent is built, its merged settings decide *)
(* whether the model sees the tool at all (Available); a call then walks   *)
(* the chain until a provider answers or fails for good (Execute).  The    *)
(* settings may be saved anew between and during calls: a call keeps the   *)
(* chain of the agent it began with.                                       *)
(*                                                                         *)
(* A reference "<provider>/<model>" is its provider's name.  What a        *)
(* service answers is external, one of Replies; each adapter turns it into *)
(* an outcome, which alone decides how the chain goes on.                  *)
(***************************************************************************)
EXTENDS Naturals, Sequences

CONSTANTS
  Settings,      \* settings of one tool: category, primary, fallbacks, autoFallback, given
  MaxSaves       \* bound: how often settings are saved

VARIABLES
  saved,         \* the settings of the agent's owner
  saves,         \* how often they were saved
  chain,         \* the chain of the agent in use, None when the tool is hidden
  call           \* the tool call under way or just ended

vars == <<saved, saves, chain, call>>

None == [category |-> "none", primary |-> "", fallbacks |-> <<>>, autoFallback |-> "unset", given |-> <<>>]

\* What a service may do: not answer, answer with 429, 408 or 5xx, with another error status,
\* break off, send what cannot be decoded, an error or nothing with status 200, or results.
Replies == {"unreachable", "busy", "refused", "cut", "garbled", "error", "empty", "results"}
Outcomes == {"retriable", "fatal", "noResults", "results"}

\* What an adapter makes of a body that came with status 200.
Decoded == [cut |-> "fatal", garbled |-> "fatal", error |-> "noResults",
            empty |-> "noResults", results |-> "results"]

\* The adapters: the part of the credentials each insists on, and how it reads a body.  MiniMax
\* has a status in its body; the speech of OpenAI is whatever bytes arrive.
Brave == [needs |-> "key", reads |-> Decoded]
Exa == [needs |-> "key", reads |-> Decoded]
SearxNG == [needs |-> "endpoint", reads |-> Decoded]
OpenAIImage == [needs |-> "key", reads |-> Decoded]
Fal == [needs |-> "key", reads |-> Decoded]
MiniMax == [needs |-> "key", reads |-> [Decoded EXCEPT !["error"] = "fatal"]]
OpenAISpeech == [needs |-> "key", reads |-> [r \in DOMAIN Decoded |->
                    CASE r = "cut" -> "fatal" [] r = "empty" -> "noResults" [] OTHER -> "results"]]

Registry == [web_search |-> [brave |-> Brave, exa |-> Exa, searxng |-> SearxNG],
             image_gen |-> [openai |-> OpenAIImage, fal |-> Fal],
             tts |-> [openai |-> OpenAISpeech, minimax |-> MiniMax]]

Registered(s, p) == p \in DOMAIN Registry[s.category]

\* The status decides before the body does.
RetriableHTTP(s, p, reply) ==
  CASE reply \in {"unreachable", "busy"} -> "retriable"
    [] reply = "refused" -> "fatal"
    [] OTHER -> Registry[s.category][p].reads[reply]

\* An adapter checks the arguments and its credentials before it sends anything.
Asked(s, p, args, reply) ==
  IF args = "bad" \/ Registry[s.category][p].needs \notin s.given[p] THEN "fatal"
  ELSE RetriableHTTP(s, p, reply)

Refs(s) == SelectSeq(<<s.primary>> \o s.fallbacks, LAMBDA ref : ref # "")
FallbackEnabled(s) == s.autoFallback # "off"
Configured(s, p) == p \in DOMAIN s.given /\ s.given[p] # {}
Usable(s, p) == Registered(s, p) /\ Configured(s, p)
Available(s) == \E i \in DOMAIN Refs(s) : Usable(s, Refs(s)[i])

\* registerAgentToolChains: a tool nobody can serve is not registered.
BuildChain(s) == IF Available(s) THEN s ELSE None

Idle == [state |-> "idle", chain |-> None, args |-> "good", at |-> 1, asked |-> <<>>]

TypeOK ==
  /\ saved \in Settings /\ saves \in 0..MaxSaves
  /\ chain \in Settings \cup {None} /\ call.chain \in Settings \cup {None}
  /\ call.state \in {"idle", "walking", "answered", "failed"} /\ call.args \in {"good", "bad"}
  /\ call.at \in 1..Len(Refs(call.chain)) + 1
  /\ \A i \in DOMAIN call.asked : /\ call.asked[i].at \in 1..Len(Refs(call.chain))
                                  /\ call.asked[i].outcome \in Outcomes

Init ==
  /\ saved \in Settings /\ saves = 0
  /\ chain = BuildChain(saved) /\ call = Idle

\* The tools page refuses a provider that does not exist; the rows it replaces may name one.
ValidateToolChains(s) == \A i \in DOMAIN Refs(s) : Registered(s, Refs(s)[i])

SaveTools(s) ==
  /\ saves < MaxSaves /\ s.category = saved.category /\ ValidateToolChains(s)
  /\ saved' = s /\ saves' = saves + 1
  /\ UNCHANGED <<chain, call>>

\* The space was dropped after a save: the next request builds the agent again.
Build ==
  /\ chain' = BuildChain(saved) /\ chain' # chain
  /\ UNCHANGED <<saved, saves, call>>

Begin(args) ==
  /\ call = Idle /\ chain # None
  /\ call' = [Idle EXCEPT !.state = "walking", !.chain = chain, !.args = args]
  /\ UNCHANGED <<saved, saves, chain>>

Walking == call.state = "walking" /\ call.at \in DOMAIN Refs(call.chain)
Current == Refs(call.chain)[call.at]

\* A provider that is not registered or has no credentials is passed over; without fallback
\* the walk ends there.
Skip ==
  /\ Walking /\ ~Usable(call.chain, Current)
  /\ call' = IF FallbackEnabled(call.chain) THEN [call EXCEPT !.at = @ + 1]
             ELSE [call EXCEPT !.state = "failed"]
  /\ UNCHANGED <<saved, saves, chain>>

\* Only an error that is not retriable ends the walk: the test of AutoFallback has no effect.
GoesOn(c, outcome) == outcome # "fatal"

Ask(reply) ==
  LET outcome == Asked(call.chain, Current, call.args, reply) IN
  /\ Walking /\ Usable(call.chain, Current)
  /\ call' = [call EXCEPT !.asked = Append(@, [at |-> call.at, outcome |-> outcome]),
                          !.at = IF outcome # "results" /\ GoesOn(call.chain, outcome) THEN @ + 1 ELSE @,
                          !.state = IF outcome = "results" THEN "answered"
                                    ELSE IF GoesOn(call.chain, outcome) THEN @ ELSE "failed"]
  /\ UNCHANGED <<saved, saves, chain>>

Exhausted ==
  /\ call.state = "walking" /\ ~Walking
  /\ call' = [call EXCEPT !.state = "failed"]
  /\ UNCHANGED <<saved, saves, chain>>

\* The tool hands the text or the joined errors to the model.
Return ==
  /\ call.state \in {"answered", "failed"}
  /\ call' = Idle /\ UNCHANGED <<saved, saves, chain>>

Next ==
  \/ \E s \in Settings : SaveTools(s)
  \/ Build
  \/ \E args \in {"good", "bad"} : Begin(args)
  \/ Skip
  \/ \E reply \in Replies : Ask(reply)
  \/ Exhausted
  \/ Return

Spec == Init /\ [][Next]_vars

------------------------------------------------------------------------------
\* The places of the chain behind the walk, and those of them that can be asked.
Passed == IF call.state = "walking" THEN 1..call.at - 1 ELSE 1..call.at
UpTo == {i \in Passed : /\ i \in DOMAIN Refs(call.chain)
                        /\ Usable(call.chain, Refs(call.chain)[i])}

\* The providers asked are exactly those of the chain up to here that are usable, in its order,
\* each once: none is passed over that could have answered, none is asked again.
AskedInOrder ==
  /\ {call.asked[i].at : i \in DOMAIN call.asked} = UpTo
  /\ \A i, j \in DOMAIN call.asked : i < j => call.asked[i].at < call.asked[j].at

\* The walk ends with the first answer and with the first error that is not retriable, and only
\* fails when the last one asked failed: nobody is asked, and paid, for an answer already had.
EndsAtTheFirst ==
  /\ \A i \in DOMAIN call.asked :
       call.asked[i].outcome \in {"results", "fatal"} => i = Len(call.asked) /\ call.state # "walking"
  /\ call.state = "answered" <=>
       call.asked # <<>> /\ call.asked[Len(call.asked)].outcome = "results"

\* A tool the model was shown asks somebody before it fails, unless fallback is off.
ShownIsServed ==
  call.state = "failed" /\ FallbackEnabled(call.chain) => call.asked # <<>>

ChainSound == AskedInOrder /\ EndsAtTheFirst /\ ShownIsServed

\* What the comment of Execute says of AutoFallback, and the code does not do.
OnlyFirstTried == ~FallbackEnabled(call.chain) => Len(call.asked) <= 1

==============================================================================
