----------------------------- MODULE MCChatTurn -----------------------------
EXTENDS ChatTurn

Symmetry == Permutations(Chats)

(* The whole chat with every turn; then with the first words of others,    *)
(* with an id of the client's own, and with that id but only the newest    *)
(* message.                                                                *)
PlainStyle == [explicit |-> FALSE, whole |-> TRUE, opens |-> 0,
               streams |-> {TRUE}, tools |-> {{}}, choices |-> {"none"}, turns |-> 4]
OpeningStyle == [PlainStyle EXCEPT !.opens = 1]
NamedStyle == [PlainStyle EXCEPT !.explicit = TRUE]
LatestStyle == [NamedStyle EXCEPT !.whole = FALSE]
SilentStyle == [PlainStyle EXCEPT !.turns = 0]
ToolStyle(stream, choice) ==
  [PlainStyle EXCEPT !.streams = {stream}, !.tools = {{"f"}, {"f", "g"}},
                     !.choices = {choice}, !.turns = 2]

Sturdy == {PlainStyle, OpeningStyle, NamedStyle}
Talkers == {OpeningStyle, NamedStyle, LatestStyle}
ToolUsers == {ToolStyle(stream, choice) : stream \in BOOLEAN, choice \in {"auto", "function"}}
AllStyles == Sturdy \cup Talkers \cup ToolUsers \cup {SilentStyle}

(* A chat with tools runs beside a silent one. *)
AllCasts ==
  {cast \in [Chats -> AllStyles] :
     \/ Range(cast) \subseteq Talkers
     \/ /\ \E c \in Chats : cast[c] = SilentStyle
        /\ \E c \in Chats : cast[c] \in ToolUsers}
SturdyCasts == [Chats -> Sturdy]
OpeningCasts == [Chats -> {OpeningStyle}]
PlainCasts == [Chats -> {PlainStyle}]
LatestCasts == [Chats -> {LatestStyle}]
ToolCasts == [Chats -> ToolUsers]

Prose == [opens |-> "prose", text |-> <<"answer">>, objects |-> <<>>]
Calls(name) == [status |-> "tool_calls", content |-> NoText,
                calls |-> <<[name |-> name, fits |-> TRUE]>>]
Says == [status |-> "message", calls |-> <<>>, content |-> <<"said">>]
Json(objects) == [opens |-> "brace", text |-> <<"json">>, objects |-> objects]

(* Prose, a call that is not always allowed, and two objects to choose from. *)
MCOutputs == {Prose, Json(<<Calls("g")>>), Json(<<Says, Calls("f")>>)}
=============================================================================
