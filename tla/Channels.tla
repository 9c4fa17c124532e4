--------------------------------- MODULE Channels ---------------------------------
(***************************************************************************)
(* internal/channels: the adapters for Telegram, Discord and Slack and the *)
(* manager that routes answers to them; gateway/channels.go, which creates *)
(* them from the rows of kind channel when the gateway starts.             *)
(*                                                                         *)
(* All bots of a type are members of one chat, which is external, as are   *)
(* the agents that answer.  Of a message the model keeps its author, what  *)
(* kind it is and, for an answer, its length and where its lines end.      *)
(* Nothing that puts messages on the bus sets a parse mode, buttons or a   *)
(* message to edit, so those branches of the Telegram adapter never run.   *)
(***************************************************************************)
EXTENDS Integers, Sequences, FiniteSets

CONSTANTS
    Rows,           (* sequence of rows: type, system (scope), enabled,      *)
                    (* accounts (the keys of the accounts map)               *)
    Limit,          (* type -> longest message, 4096, 2000, none             *)
    Texts,          (* sequence of answers: len, lines (where lines end); an *)
                    (* attachment is a message without text                  *)
    Kinds,          (* what people post: text, edit, button, sticker         *)
    MaxPosts,       (* bound on what people post                             *)
    MaxSaid         (* bound on what agents answer                           *)

VARIABLES
    todo,           (* the row registerChannelsFromStore is at               *)
    channels,       (* Manager.channels: the keys type, account              *)
    state,          (* adapter -> off, open (no identity yet), on, failed    *)
    posts,          (* the chats: author, kind, the answer and which of it   *)
    feed,           (* adapter -> posts it has not handled                   *)
    inbound,        (* bus.Inbound: adapter, post                            *)
    outbound,       (* numbers of the answers on bus.Outbound                *)
    said,           (* answers put there so far: adapter key, text, failed   *)
    sending         (* the answer being sent, and where its next part starts *)

vars == <<todo, channels, state, posts, feed, inbound, outbound, said, sending>>
chat == <<posts, feed>>

NoAccount == ""
Types     == {Rows[i].type : i \in DOMAIN Rows}
Accounts(row) == IF row.accounts = {} THEN {NoAccount} ELSE row.accounts
Keys      == (UNION {{Rows[i].type} \X Accounts(Rows[i]) : i \in DOMAIN Rows}) \cup (Types \X {NoAccount})
Type(k)   == k[1]
Person    == <<"person", NoAccount>>
Resting   == [answer |-> 0, from |-> 0]

Init ==
    /\ todo = 1 /\ channels = {}
    /\ state = [k \in Keys |-> "off"]
    /\ posts = <<>> /\ feed = [k \in Keys |-> <<>>]
    /\ inbound = <<>> /\ outbound = <<>> /\ said = <<>>
    /\ sending = Resting

-----------------------------------------------------------------------------------
(***************************************************************************)
(* Registration, in gateway.New.                                           *)
(***************************************************************************)
\* allChannelRows asks for every scope with an empty scope id, which only system rows have.
Listed(row) == row.system /\ row.enabled

\* One adapter per account, in the order of a map; the first that fails ends it.  Only
\* Telegram's constructor calls its service.
RegisterChannelInstance(row) ==
    \E bad \in IF row.type = "telegram" THEN SUBSET Accounts(row) ELSE {{}} :
    \E made \in SUBSET (Accounts(row) \ bad) :
        /\ bad = {} => made = Accounts(row)
        /\ channels' = channels \cup {row.type} \X made

RegisterNext ==
    /\ todo <= Len(Rows)
    /\ IF Listed(Rows[todo]) THEN RegisterChannelInstance(Rows[todo]) ELSE UNCHANGED channels
    /\ todo' = todo + 1
    /\ UNCHANGED <<state, chat, inbound, outbound, said, sending>>

-----------------------------------------------------------------------------------
(***************************************************************************)
(* Manager.Start: every adapter in a goroutine of its own, once.           *)
(***************************************************************************)
Started(k) == todo > Len(Rows) /\ k \in channels

\* Telegram knows its name, Slack asks for it before it listens, Discord listens first.
Start(k) ==
    /\ Started(k) /\ state[k] = "off"
    /\ state' = [state EXCEPT ![k] = IF Type(k) = "discord" THEN "open" ELSE "on"]
    /\ UNCHANGED <<todo, channels, chat, inbound, outbound, said, sending>>

StartFails(k) ==
    /\ Started(k) /\ state[k] = "off" /\ Type(k) # "telegram"
    /\ state' = [state EXCEPT ![k] = "failed"]
    /\ UNCHANGED <<todo, channels, chat, inbound, outbound, said, sending>>

\* Session.Open has returned: botUserID.
KnowsItself(k) ==
    /\ state[k] = "open"
    /\ state' = [state EXCEPT ![k] = "on"]
    /\ UNCHANGED <<todo, channels, chat, inbound, outbound, said, sending>>

-----------------------------------------------------------------------------------
(***************************************************************************)
(* From the chat to the bus.                                               *)
(***************************************************************************)
\* External: a service tells the adapters that listen; Telegram keeps what is new for those that
\* do not, and tells no bot what a bot has written.
Hears(k, type, by) ==
    /\ Type(k) = type /\ k \in channels
    /\ IF type = "telegram" THEN by = Person ELSE state[k] \in {"open", "on"}
Posted(type, post) ==
    /\ posts' = Append(posts, post)
    /\ feed' = [k \in Keys |-> IF Hears(k, type, post.by) THEN Append(feed[k], Len(posts) + 1) ELSE feed[k]]

PersonPosts(type, kind) ==
    /\ Cardinality({i \in DOMAIN posts : posts[i].by = Person}) < MaxPosts
    /\ Posted(type, [by |-> Person, kind |-> kind, answer |-> 0, from |-> 0, to |-> 0])
    /\ UNCHANGED <<todo, channels, state, inbound, outbound, said, sending>>

\* handleUpdate and handleCallbackQuery: all with a text or a photo, an edit like a new message,
\* a button like its data.
TelegramTakes(post) == post.kind \in {"text", "edit", "button"}

\* handleMessage: neither its own nor a subtype.
SlackTakes(k, post) == post.by # k /\ post.kind = "text"

\* onMessageCreate: whatever is new and not its own, once it knows who it is.
DiscordTakes(k, post) ==
    /\ state[k] = "on" => post.by # k
    /\ post.kind \in {"text", "sticker"}

Takes(k, post) == CASE Type(k) = "telegram" -> TelegramTakes(post)
                    [] Type(k) = "slack"    -> SlackTakes(k, post)
                    [] Type(k) = "discord"  -> DiscordTakes(k, post)

Handle(k) ==
    /\ state[k] \in {"open", "on"} /\ feed[k] # <<>>
    /\ feed' = [feed EXCEPT ![k] = Tail(@)]
    /\ inbound' = IF Takes(k, posts[Head(feed[k])])
                  THEN Append(inbound, [to |-> k, post |-> Head(feed[k]), known |-> state[k] = "on"])
                  ELSE inbound
    /\ UNCHANGED <<todo, channels, state, posts, outbound, said, sending>>

-----------------------------------------------------------------------------------
(***************************************************************************)
(* From the bus to the chat.                                               *)
(***************************************************************************)
Says(k, text) ==
    /\ Len(said) < MaxSaid
    /\ said' = Append(said, [to |-> k, text |-> text, failed |-> FALSE])
    /\ outbound' = Append(outbound, Len(said) + 1)

\* The agents (external): a reply goes where the message came from.
Replies(text) ==
    /\ inbound # <<>>
    /\ inbound' = Tail(inbound)
    /\ Says(Head(inbound).to, text)
    /\ UNCHANGED <<todo, channels, state, chat, sending>>

\* The message tool names a type and no account.
MessageTool(type, text) ==
    /\ todo > Len(Rows)
    /\ Says(<<type, NoAccount>>, text)
    /\ UNCHANGED <<todo, channels, state, chat, inbound, sending>>

\* Telegram cuts after the last empty line that ends within the limit, else after the last line,
\* else at the limit; Discord at the limit; Slack not at all.
CutTelegram(text, from) ==
    LET line(i)    == i \in text.lines
        reach      == from + Limit["telegram"]
        paragraphs == {i \in from + 3 .. reach : line(i) /\ line(i - 1)}
        lines      == {i \in from + 2 .. reach : line(i)}
        Latest(S)  == CHOOSE i \in S : \A j \in S : j <= i
    IN  IF text.len <= reach THEN text.len
        ELSE IF paragraphs # {} THEN Latest(paragraphs)
        ELSE IF lines # {} THEN Latest(lines) ELSE reach
CutDiscord(text, from) ==
    IF text.len - from > Limit["discord"] THEN from + Limit["discord"] ELSE text.len

Cut(type, text, from) == CASE type = "telegram" -> CutTelegram(text, from)
                           [] type = "discord"  -> CutDiscord(text, from)
                           [] type = "slack"    -> text.len

Current == said[sending.answer]
Text    == Texts[Current.text]
PartEnd == Cut(Type(Current.to), Text, sending.from)

\* Discord sends nothing for no text, the others try.
Sends(type, text) == type = "discord" => text.len > 0

\* routeOutbound, one message at a time.
RouteOutbound ==
    /\ todo > Len(Rows) /\ outbound # <<>> /\ sending = Resting
    /\ outbound' = Tail(outbound)
    /\ LET next == said[Head(outbound)]
       IN  IF next.to \in channels /\ Sends(Type(next.to), Texts[next.text])
           THEN /\ sending' = [answer |-> Head(outbound), from |-> 0]
                /\ UNCHANGED said
           ELSE /\ said' = [said EXCEPT ![Head(outbound)].failed = next.to \notin channels]
                /\ UNCHANGED sending
    /\ UNCHANGED <<todo, channels, state, chat, inbound>>

\* The next part, after which the answer goes on where the part ends, or is sent.
GoesOn == sending' = IF PartEnd = Text.len THEN Resting ELSE [sending EXCEPT !.from = PartEnd]

SendPart ==
    /\ sending # Resting /\ Text.len > 0
    /\ Posted(Type(Current.to), [by |-> Current.to, kind |-> "text", answer |-> sending.answer,
                                 from |-> sending.from, to |-> PartEnd])
    /\ GoesOn
    /\ UNCHANGED <<todo, channels, state, inbound, outbound, said>>

\* Faulty variant: a refused part is left out.
SendGoesOn ==
    /\ sending # Resting
    /\ said' = [said EXCEPT ![sending.answer].failed = TRUE]
    /\ GoesOn
    /\ UNCHANGED <<todo, channels, state, chat, inbound, outbound>>

\* The service refuses, as it does an empty message: what is left is not sent.
SendFails ==
    /\ sending # Resting
    /\ said' = [said EXCEPT ![sending.answer].failed = TRUE]
    /\ sending' = Resting
    /\ UNCHANGED <<todo, channels, state, chat, inbound, outbound>>

-----------------------------------------------------------------------------------

Next ==
    \/ RegisterNext
    \/ \E k \in Keys : Start(k) \/ StartFails(k) \/ KnowsItself(k) \/ Handle(k)
    \/ \E type \in Types, kind \in Kinds : PersonPosts(type, kind)
    \/ \E text \in DOMAIN Texts : Replies(text) \/ \E type \in Types : MessageTool(type, text)
    \/ RouteOutbound \/ SendPart \/ SendFails

Spec == Init /\ [][Next]_vars

-----------------------------------------------------------------------------------

TypeOK ==
    /\ todo \in 1 .. Len(Rows) + 1 /\ channels \subseteq Keys
    /\ state \in [Keys -> {"off", "open", "on", "failed"}]
    /\ \A i \in DOMAIN posts : posts[i].by \in Keys \cup {Person}
    /\ \A k \in Keys : \A i \in DOMAIN feed[k] : feed[k][i] \in DOMAIN posts
    /\ \A i \in DOMAIN outbound : outbound[i] \in DOMAIN said
    /\ sending.answer \in 0 .. Len(said)

\* An answer's parts reach its chat in order, not mixed with those of another answer of the same
\* bot, with none left out before one that arrived, and all of them unless the service refused
\* one; put together they are the answer, and none is longer than the service allows.
PartsWhole ==
    \A i \in DOMAIN posts : posts[i].by # Person =>
        LET p     == posts[i]
            whole == Texts[said[p.answer].text].len
            later == {j \in i + 1 .. Len(posts) : posts[j].by = p.by}
            next  == posts[CHOOSE j \in later : \A h \in later : j <= h]
        IN  /\ p.from < p.to /\ p.to <= whole
            /\ Type(p.by) # "slack" => p.to - p.from <= Limit[Type(p.by)]
            /\ later # {} /\ next.answer = p.answer => next.from = p.to
            /\ later # {} /\ next.answer # p.answer => next.answer > p.answer /\ next.from = 0
            /\ \/ p.to = whole \/ sending.answer = p.answer \/ said[p.answer].failed
               \/ later # {} /\ next.answer = p.answer

\* No bot answers itself: what it wrote never comes back to it as a message, except that a
\* Discord bot may take what it wrote before it knew itself.
NoEcho ==
    \A i \in DOMAIN inbound :
        posts[inbound[i].post].by = inbound[i].to => Type(inbound[i].to) = "discord" /\ ~inbound[i].known

ChannelsDeliver == PartsWhole /\ NoEcho
====
