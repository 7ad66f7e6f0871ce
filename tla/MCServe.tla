------------------------------- MODULE MCServe -------------------------------
(***************************************************************************)
(* Small instances of the serving side: the adapter to a chat platform,    *)
(* the inbox thread, a turn of an agent, the edits of an agent in its      *)
(* workspace, and the souls of users.  A behaviour drives one of them; the *)
(* others rest in an initial state.                                        *)
(***************************************************************************)
EXTENDS AgentTurn, Inbox, WorkspaceEdits, SoulStore, ChatAdapter

CONSTANTS fileOld, fileNew, fileBad

VARIABLE driven   \* the component this behaviour drives

serveVars == <<turnVars, inboxVars, editsVars, soulVars, chatVars, driven>>

\* What the model may ask for.
Plan(kinds, text) == [kinds |-> kinds, text |-> text]
MCPlans ==
  {Plan(<<"kernel">>, ""), Plan(<<"kernel", "plain">>, "text"), Plan(<<"plain", "plain">>, ""),
   Plan(<<"plain", "unknown">>, ""), Plan(<<"unknown">>, ""), Plan(<<"terminal">>, ""),
   Plan(<<"terminal", "plain">>, "")}

\* Two keys, each with a spill file of its own.
MCFileOf == [k \in Keys |-> k]

\* git knows fileOld, not fileNew; the tools refuse fileBad.
MCTracked == {<<"fixtures", fileOld>>}

\* A direct message, a click on a button, a trivial message in two fragments.
MCMessages ==
    {[id |-> 1, kind |-> "p2p", chat |-> "p", user |-> "u",
      mentioned |-> FALSE, blank |-> FALSE, sum |-> 1],
     [id |-> 2, kind |-> "card", chat |-> "p", user |-> "v",
      mentioned |-> TRUE, blank |-> FALSE, sum |-> 1],
     [id |-> 3, kind |-> "group", chat |-> "g", user |-> "v",
      mentioned |-> FALSE, blank |-> TRUE, sum |-> 2]}

\* Two users share a pairing code.
MCCodeOf == [u \in Users |-> 7]
MCUpdates == {[creds |-> TRUE, groupPolicy |-> "open", mention |-> "no"]}

\* What earlier configurations left.
Configured == [Defaults EXCEPT !.creds = TRUE, !.allow = {"u"}, !.mention = "no",
                               !.groupPolicy = "open"]

\* The adapter is started twice, gets many messages, or is configured while it
\* runs.
MCChatInit ==
    \/ ChatBegins(Configured, MaxFrames - 2, MaxAdmin, 0)
    \/ ChatBegins(Configured, 0, MaxAdmin, MaxStarts - 1)
    \/ ChatBegins(Defaults, MaxFrames - 1, 0, MaxStarts - 1)

ServeInit ==
  /\ driven \in {"turn", "inbox", "edits", "souls", "chat"}
  /\ TurnInit /\ InboxInit /\ EditsInit
  /\ SoulInit /\ (driven = "souls" \/ ~ plugin)
  /\ IF driven = "chat" THEN MCChatInit ELSE ChatInit

ServeNext ==
  /\ UNCHANGED driven
  /\ \/ driven = "turn" /\ TurnNext /\ UNCHANGED <<inboxVars, editsVars, soulVars, chatVars>>
     \/ driven = "inbox" /\ InboxNext /\ UNCHANGED <<turnVars, editsVars, soulVars, chatVars>>
     \/ driven = "edits" /\ EditsNext /\ UNCHANGED <<turnVars, inboxVars, soulVars, chatVars>>
     \/ driven = "souls" /\ SoulNext /\ UNCHANGED <<turnVars, inboxVars, editsVars, chatVars>>
     \/ driven = "chat" /\ ChatNext /\ UNCHANGED <<turnVars, inboxVars, editsVars, soulVars>>

ServeSpec == ServeInit /\ [][ServeNext]_serveVars
=============================================================================
