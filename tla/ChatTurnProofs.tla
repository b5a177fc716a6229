--------------------------- MODULE ChatTurnProofs ---------------------------
(***************************************************************************)
(* Proofs about ChatTurn, for every set of chats and styles, whatever      *)
(* Gemini answers and in whatever order the requests of the chats run: the *)
(* readings of an answer, the ids of conversations, and, where no two      *)
(* chats open with the same words, the separation of chats, the tools a    *)
(* conversation was told, the conversation a chat stays in.                *)
(***************************************************************************)
EXTENDS ChatTurn, SequenceTheorems, FiniteSetTheorems, FunctionTheorems, TLAPS

-----------------------------------------------------------------------------
(* The readings of an answer. *)

(* What a reading must be for the client: only calls that are allowed, and *)
(* at least one where one is required.                                     *)
Honours(r, result) ==
  /\ \A i \in DOMAIN result.calls : CallAllowed(r, result.calls[i])
  /\ RequiresCall(r) => result.calls # <<>>

(* An object that validates is such a reading. *)
LEMMA ValidHonours ==
  ASSUME NEW r, NEW object, NEW text, Validated(r, object, text).ok
  PROVE  Honours(r, Validated(r, object, text))
<1>1. CASE object.status = "no_tool"
  BY <1>1 DEF Validated, Honours, Unusable, Message
<1>2. CASE object.status = "message"
  BY <1>2 DEF Validated, Honours, Unusable, Message
<1>3. CASE object.status = "tool_calls"
  BY <1>3 DEF Validated, Honours, Unusable
<1>4. CASE object.status \notin {"no_tool", "message", "tool_calls"}
  BY <1>4 DEF Validated, Unusable
<1> QED
  BY <1>1, <1>2, <1>3, <1>4

(* So is the answer read as a plan, when that succeeds. *)
LEMMA ParsedHonours ==
  ASSUME NEW r, NEW answer, Parsed(r, answer).ok
  PROVE  Honours(r, Parsed(r, answer))
<1> DEFINE result(i) == Validated(r, answer.objects[i], answer.text)
           First(i) == result(i).ok /\ \A j \in 1..(i - 1) : ~result(j).ok
           chosen == CHOOSE i \in DOMAIN answer.objects : First(i)
<1>1. CASE \E i \in DOMAIN answer.objects : First(i)
  <2>1. Parsed(r, answer) = result(chosen)
    BY <1>1 DEF Parsed
  <2> QED
    BY <2>1, ValidHonours
<1>2. CASE ~ \E i \in DOMAIN answer.objects : First(i)
  BY <1>2 DEF Parsed, Unusable
<1> QED
  BY <1>1, <1>2

(* A message honours a request that requires no call. *)
LEMMA MessageHonours ==
  ASSUME NEW r, NEW content, ~RequiresCall(r)
  PROVE  Honours(r, Message(content))
BY DEF Honours, Message

(* An answer that needs no repair is read as the request asks. *)
LEMMA ResolvedHonours ==
  ASSUME NEW r, NEW answer, ~NeedsRepair(r, answer)
  PROVE  Honours(r, Resolved(r, answer))
BY ParsedHonours, MessageHonours DEF Resolved, NeedsRepair

(* What a failed repair leaves honours the request or is an error. *)
LEMMA UnrepairedHonours ==
  ASSUME NEW r, NEW answer, Unrepaired(r, answer).ok
  PROVE  Honours(r, Unrepaired(r, answer))
BY MessageHonours DEF Unrepaired, Unusable

-----------------------------------------------------------------------------
(***************************************************************************)
(* What a request has shown.  Text is shown by the attempt under way, only *)
(* once output was observed, and never for a request that requires a call; *)
(* a migration starts only before output was observed.                     *)
(***************************************************************************)
Arrays ==
  /\ pc = [c \in Chats |-> pc[c]]
  /\ req = [c \in Chats |-> req[c]]
  /\ attempt = [c \in Chats |-> attempt[c]]
  /\ observed = [c \in Chats |-> observed[c]]
  /\ shown = [c \in Chats |-> shown[c]]
  /\ outcome = [c \in Chats |-> outcome[c]]

Demands(c) == UsesBridge(req[c]) /\ RequiresCall(req[c])

ChatInv(c) ==
  /\ shown[c] \subseteq {attempt[c]}
  /\ observed[c] = FALSE => shown[c] = {}
  /\ pc[c] = "idle" => shown[c] = {}
  /\ pc[c] \in {"recover", "forget"} => observed[c] = FALSE
  /\ Demands(c) => shown[c] = {}
  /\ pc[c] = "remember" /\ UsesBridge(req[c]) => Honours(req[c], outcome[c])

Inv == Arrays /\ \A c \in Chats : ChatInv(c)

Same(c) ==
  /\ pc'[c] = pc[c] /\ req'[c] = req[c] /\ attempt'[c] = attempt[c]
  /\ observed'[c] = observed[c] /\ shown'[c] = shown[c] /\ outcome'[c] = outcome[c]

(* A step of one chat leaves the others alone. *)
LEMMA OneChat ==
  ASSUME Inv, NEW c \in Chats, Arrays', ChatInv(c)',
         \A d \in Chats \ {c} : Same(d)
  PROVE  Inv'
<1>1. ASSUME NEW d \in Chats \ {c} PROVE ChatInv(d)'
  BY <1>1 DEF Inv, ChatInv, Same, Demands
<1> QED
  BY <1>1 DEF Inv

LEMMA AllSame == Inv /\ UNCHANGED <<pc, req, attempt, observed, shown, outcome>> => Inv'
BY DEF Inv, Arrays, ChatInv, Demands

(* The end of a request. *)
LEMMA OverStep == ASSUME Inv, NEW c \in Chats, Over(c) PROVE Inv'
<1> USE DEF Over, Goto, Arrays
<1>1. Arrays'
  BY DEF Inv
<1>2. \A d \in Chats \ {c} : Same(d)
  BY DEF Inv, Same
<1>3. pc'[c] = "idle" /\ shown'[c] = {}
  BY DEF Inv
<1>4. ChatInv(c)'
  BY <1>3 DEF ChatInv
<1> QED
  BY <1>1, <1>2, <1>4, OneChat

(* The request is planned and sent: only its place in the code changes. *)
LEMMA PlanStep ==
  ASSUME Inv, NEW c \in Chats, LookUp(c) \/ PlanNew(c) \/ BuildPrompt(c) \/ Send(c) \/ Recover(c)
  PROVE  Inv'
<1> USE DEF LookUp, PlanNew, BuildPrompt, Send, Recover, progress, Goto
<1>1. Arrays'
  BY DEF Inv, Arrays, request
<1>2. \A d \in Chats \ {c} : Same(d)
  BY DEF Inv, Arrays, Same, request
<1>3. /\ req'[c] = req[c] /\ shown'[c] = shown[c] /\ attempt'[c] = attempt[c]
      /\ observed'[c] = observed[c]
  BY DEF request
<1>4. pc'[c] \in {"plan", "prompt", "send", "wait"} \/ (pc[c] = "recover" /\ pc'[c] = "forget")
  BY DEF Inv, Arrays
<1>5. ChatInv(c)'
  BY <1>3, <1>4 DEF Inv, ChatInv, Demands
<1> QED
  BY <1>1, <1>2, <1>5, OneChat

(* A new request has shown nothing. *)
LEMMA AskStep == ASSUME Inv, NEW c \in Chats, Ask(c) PROVE Inv'
<1> USE DEF Ask, progress, Goto
<1>1. Arrays'
  BY DEF Inv, Arrays
<1>2. \A d \in Chats \ {c} : Same(d)
  BY DEF Inv, Arrays, Same
<1>3. ChatInv(c)'
  <2>1. pc[c] = "idle" /\ pc'[c] = "plan"
    BY DEF Inv, Arrays
  <2>2. shown'[c] = {} /\ attempt'[c] = attempt[c]
    BY <2>1 DEF Inv, ChatInv
  <2> QED
    BY <2>1, <2>2 DEF ChatInv
<1> QED
  BY <1>1, <1>2, <1>3, OneChat

(* Text is shown only by the attempt under way. *)
LEMMA EmitStep == ASSUME Inv, NEW c \in Chats, Emit(c) PROVE Inv'
<1> USE DEF Emit, request
<1>1. Arrays'
  BY DEF Inv, Arrays
<1>2. \A d \in Chats \ {c} : Same(d)
  BY DEF Inv, Arrays, Same
<1>3. ChatInv(c)'
  <2>1. pc'[c] = "wait" /\ req'[c] = req[c] /\ attempt'[c] = attempt[c] /\ observed'[c] = TRUE
    BY DEF Inv, Arrays
  <2>2. PICK answer \in Answers(c) :
          shown'[c] = IF Shows(req[c], answer) THEN shown[c] \cup {attempt[c]} ELSE shown[c]
    BY DEF Inv, Arrays
  <2>3. Demands(c) => ~Shows(req[c], answer)
    BY DEF Demands, Shows
  <2> QED
    BY <2>1, <2>2, <2>3 DEF Inv, ChatInv, Demands
<1> QED
  BY <1>1, <1>2, <1>3, OneChat

(* The answer is in. *)
LEMMA AnswerStep ==
  ASSUME Inv, NEW c \in Chats, NEW answer, Answered(c, answer)
  PROVE  Inv'
<1> USE DEF Answered, Goto, request
<1>1. Arrays'
  BY DEF Inv, Arrays
<1>2. \A d \in Chats \ {c} : Same(d)
  BY DEF Inv, Arrays, Same
<1>3. /\ req'[c] = req[c] /\ shown'[c] = shown[c] /\ attempt'[c] = attempt[c]
      /\ observed'[c] = observed[c]
  OBVIOUS
<1>4. pc'[c] = IF UsesBridge(req[c]) THEN "tools" ELSE "remember"
  BY DEF Inv, Arrays
<1>5. ChatInv(c)'
  BY <1>3, <1>4 DEF Inv, ChatInv, Demands
<1> QED
  BY <1>1, <1>2, <1>5, OneChat

(* A rejected conversation is migrated only if no output was observed. *)
LEMMA RejectStep == ASSUME Inv, NEW c \in Chats, Reject(c) PROVE Inv'
<1>1. CASE ~Migrates(c)
  BY <1>1, OverStep DEF Reject
<1>2. CASE Migrates(c)
  <2> USE DEF Reject, Goto, request, progress
  <2>1. Arrays'
    BY <1>2 DEF Inv, Arrays
  <2>2. \A d \in Chats \ {c} : Same(d)
    BY <1>2 DEF Inv, Arrays, Same
  <2>3. /\ req'[c] = req[c] /\ shown'[c] = shown[c] /\ attempt'[c] = attempt[c]
        /\ observed'[c] = observed[c] /\ ~observed[c]
    BY <1>2 DEF Migrates
  <2>4. pc[c] = "wait" /\ pc'[c] = "recover"
    BY <1>2 DEF Inv, Arrays
    <2>5. ChatInv(c)'
    BY <2>3, <2>4 DEF Inv, ChatInv, Demands
  <2> QED
    BY <2>1, <2>2, <2>5, OneChat
<1> QED
  BY <1>1, <1>2

(* The second attempt begins with nothing shown. *)
LEMMA ForgetStep == ASSUME Inv, NEW c \in Chats, Forget(c) PROVE Inv'
<1> USE DEF Forget, Goto
<1>1. Arrays'
  BY DEF Inv, Arrays
<1>2. \A d \in Chats \ {c} : Same(d)
  BY DEF Inv, Arrays, Same
<1>3. ChatInv(c)'
  <2>1. pc[c] = "forget" /\ pc'[c] = "send" /\ req'[c] = req[c] /\ shown'[c] = shown[c]
    BY DEF Inv, Arrays
  <2>2. shown[c] = {}
    BY <2>1 DEF Inv, ChatInv
  <2> QED
    BY <2>1, <2>2 DEF ChatInv
<1> QED
  BY <1>1, <1>2, <1>3, OneChat

(* The answer is read. *)
LEMMA ReadStep == ASSUME Inv, NEW c \in Chats, ReadAnswer(c) PROVE Inv'
<1> DEFINE streamed == req[c].stream /\ Shows(req[c], output[c])
<1> USE DEF ReadAnswer, Goto, request
<1>1. Arrays'
  BY DEF Inv, Arrays
<1>2. \A d \in Chats \ {c} : Same(d)
  BY DEF Inv, Arrays, Same
<1>3. /\ req'[c] = req[c] /\ shown'[c] = shown[c] /\ attempt'[c] = attempt[c]
      /\ observed'[c] = observed[c]
  OBVIOUS
<1>4. pc'[c] \in {"repair", "remember"}
  BY DEF Inv, Arrays
<1>5. ASSUME pc'[c] = "remember", UsesBridge(req[c]) PROVE Honours(req[c], outcome'[c])
  <2>1. CASE streamed
    <3>1. outcome'[c] = Message(output[c].text)
      BY <2>1 DEF Inv, Arrays
    <3>2. ~RequiresCall(req[c])
      BY <2>1, <1>5 DEF Shows
    <3> QED
      BY <3>1, <3>2, MessageHonours
  <2>2. CASE ~streamed
    <3>1. ~NeedsRepair(req[c], output[c])
      BY <2>2, <1>5 DEF Inv, Arrays
    <3>2. outcome'[c] = Resolved(req[c], output[c])
      BY <2>2, <3>1 DEF Inv, Arrays
    <3> QED
      BY <3>1, <3>2, ResolvedHonours
  <2> QED
    BY <2>1, <2>2
<1>6. ChatInv(c)'
  BY <1>3, <1>4, <1>5 DEF Inv, ChatInv, Demands
<1> QED
  BY <1>1, <1>2, <1>6, OneChat

(* The repair is settled with a reading the request allows, or in error. *)
LEMMA SettledStep ==
  ASSUME Inv, NEW c \in Chats, NEW result, Settled(c, result),
         result.ok => Honours(req[c], result)
  PROVE  Inv'
<1>1. CASE ~result.ok
  BY <1>1, OverStep DEF Settled
<1>2. CASE result.ok
  <2> USE DEF Settled, Goto, request
  <2>1. Arrays'
    BY <1>2 DEF Inv, Arrays
  <2>2. \A d \in Chats \ {c} : Same(d)
    BY <1>2 DEF Inv, Arrays, Same
  <2>3. /\ req'[c] = req[c] /\ shown'[c] = shown[c] /\ attempt'[c] = attempt[c]
        /\ observed'[c] = observed[c]
    BY <1>2
  <2>4. pc'[c] = "remember" /\ outcome'[c] = result
    BY <1>2 DEF Inv, Arrays
  <2>5. ChatInv(c)'
    BY <1>2, <2>3, <2>4 DEF Inv, ChatInv, Demands
  <2> QED
    BY <2>1, <2>2, <2>5, OneChat
<1> QED
  BY <1>1, <1>2

LEMMA RepairStep == ASSUME Inv, NEW c \in Chats, Repair(c) \/ RepairFails(c) PROVE Inv'
<1>1. CASE Repair(c)
  <2>1. PICK again \in Outputs :
          Settled(c, IF Parsed(req[c], again).ok THEN Parsed(req[c], again)
                     ELSE Unrepaired(req[c], output[c]))
    BY <1>1 DEF Repair
  <2>2. CASE Parsed(req[c], again).ok
    BY <2>1, <2>2, ParsedHonours, SettledStep
  <2>3. CASE ~Parsed(req[c], again).ok
    BY <2>1, <2>3, UnrepairedHonours, SettledStep
  <2> QED
    BY <2>2, <2>3
<1>2. CASE RepairFails(c)
  BY <1>2, UnrepairedHonours, SettledStep DEF RepairFails
<1> QED
  BY <1>1, <1>2

LEMMA InvStep == Inv /\ [Next]_vars => Inv'
<1> SUFFICES ASSUME Inv, [Next]_vars PROVE Inv'
  OBVIOUS
<1>1. ASSUME NEW c \in Chats, Turn(c) PROVE Inv'
  <2>1. CASE Ask(c) \/ Emit(c) \/ Forget(c)
    BY <2>1, AskStep, EmitStep, ForgetStep
  <2>2. CASE LookUp(c) \/ PlanNew(c) \/ BuildPrompt(c) \/ Send(c) \/ Recover(c)
    BY <2>2, PlanStep
  <2>3. CASE Answer(c)
    BY <2>3, AnswerStep DEF Answer
  <2>4. CASE AnswerElsewhere(c)
    BY <2>4, AnswerStep DEF AnswerElsewhere
  <2>5. CASE Fail(c)
    BY <2>5, OverStep DEF Fail
  <2>6. CASE Reject(c)
    BY <2>6, RejectStep
  <2>7. CASE ReadAnswer(c)
    BY <2>7, ReadStep
  <2>8. CASE Repair(c) \/ RepairFails(c)
    BY <2>8, RepairStep
  <2>9. CASE Remember(c)
    BY <2>9, OverStep DEF Remember
  <2> QED
    BY <1>1, <2>1, <2>2, <2>3, <2>4, <2>5, <2>6, <2>7, <2>8, <2>9 DEF Turn
<1>2. ASSUME NEW c \in Chats, Branch(c) PROVE Inv'
  BY <1>2, AllSame DEF Branch, request, progress
<1>3. ASSUME NEW id \in Ids, LoseRecord(id) PROVE Inv'
  BY <1>3, AllSame DEF LoseRecord, request, progress
<1>4. CASE Tick
  BY <1>4, AllSame DEF Tick, request, progress
<1>5. CASE UNCHANGED vars
  BY <1>5, AllSame DEF vars, request, progress
<1> QED
  BY <1>1, <1>2, <1>3, <1>4, <1>5 DEF Next

LEMMA Invariance == Spec => []Inv
<1>1. Init => Inv
  BY DEF Init, Inv, Arrays, ChatInv, Demands
<1> QED
  BY <1>1, InvStep, PTL DEF Spec

-----------------------------------------------------------------------------
(* No stream mixes the text of two generations: a migration never follows  *)
(* text the client has seen.                                               *)
THEOREM OneAttemptShown == Spec => []OneAttempt
<1>1. Inv => OneAttempt
  BY DEF Inv, ChatInv, OneAttempt
<1> QED
  BY <1>1, Invariance, PTL

(* tool_choice is honoured whatever Gemini answers and whatever a repair   *)
(* brings.                                                                 *)
THEOREM ToolChoiceKept == Spec => []ToolChoiceHonoured
<1>1. Inv => ToolChoiceHonoured
  BY DEF Inv, ChatInv, ToolChoiceHonoured, Demands, Honours, CallAllowed
<1> QED
  BY <1>1, Invariance, PTL

-----------------------------------------------------------------------------
(* Messages.  A message of chat c is its client's or a tool's (it carries  *)
(* the name of the chat), or the persona, or the model's own; said is what *)
(* has been said in the chat, which only grows unless its client goes back *)
(* in it.                                                                  *)
Mine(c, m) == m.role \in {"user", "tool"} /\ m.text[1] = c

Uttered(c, said, m) ==
  /\ m = System \/ Mine(c, m)
  /\ MaxBranches = 0 => m \in said

Of(c, said, m) == m.role \in {"assistant", "calls"} \/ Uttered(c, said, m)

IsSeq(ms) == ms \in Seq(Range(ms))

AllOf(c, said, ms) == IsSeq(ms) /\ \A i \in 1..Len(ms) : Of(c, said, ms[i])

(* What every sequence here is; the sequence type of the library needs a   *)
(* set.                                                                    *)
LEMMA SeqShape ==
  ASSUME NEW ms, IsSeq(ms)
  PROVE  /\ Len(ms) \in Nat /\ DOMAIN ms = 1..Len(ms)
         /\ ms = <<>> <=> Len(ms) = 0
BY LenProperties, EmptySeq DEF IsSeq

LEMMA OfGrows ==
  ASSUME NEW c, NEW said, NEW more, MaxBranches = 0 => said \subseteq more, NEW m
  PROVE  /\ Uttered(c, said, m) => Uttered(c, more, m)
         /\ Of(c, said, m) => Of(c, more, m)
BY DEF Of, Uttered

(* A sequence of the chat stays one as more is said. *)
LEMMA AllGrows ==
  ASSUME NEW c, NEW said, NEW more, MaxBranches = 0 => said \subseteq more,
         NEW ms, AllOf(c, said, ms)
  PROVE  AllOf(c, more, ms)
BY OfGrows DEF AllOf

(* Joining, extending and cutting messages of a chat gives messages of it. *)
LEMMA JoinAll ==
  ASSUME NEW c, NEW said, NEW s, NEW t, AllOf(c, said, s), AllOf(c, said, t)
  PROVE  /\ AllOf(c, said, s \o t)
         /\ Len(s \o t) = Len(s) + Len(t)
         /\ \A i \in 1..Len(s) + Len(t) :
              (s \o t)[i] = IF i <= Len(s) THEN s[i] ELSE t[i - Len(s)]
<1> DEFINE S == Range(s) \cup Range(t)
<1>1. s \in Seq(S) /\ t \in Seq(S)
  BY SeqMonotonic, Range(s) \subseteq S, Range(t) \subseteq S DEF AllOf, IsSeq
<1>2. /\ s \o t \in Seq(S)
      /\ Len(s \o t) = Len(s) + Len(t)
      /\ \A i \in 1..Len(s) + Len(t) :
           (s \o t)[i] = IF i <= Len(s) THEN s[i] ELSE t[i - Len(s)]
  BY <1>1, ConcatProperties
<1>3. IsSeq(s \o t)
  BY <1>2, SeqOfRange DEF IsSeq
<1>4. \A i \in 1..Len(s \o t) : Of(c, said, (s \o t)[i])
  BY <1>2, SeqShape DEF AllOf
<1> QED
  BY <1>2, <1>3, <1>4 DEF AllOf

LEMMA AppendAll ==
  ASSUME NEW c, NEW said, NEW s, NEW m, AllOf(c, said, s), Of(c, said, m)
  PROVE  /\ AllOf(c, said, Append(s, m))
         /\ Len(Append(s, m)) = Len(s) + 1
         /\ \A i \in 1..Len(s) : Append(s, m)[i] = s[i]
         /\ Append(s, m)[Len(s) + 1] = m
<1> DEFINE S == Range(s) \cup {m}
<1>1. s \in Seq(S) /\ m \in S
  BY SeqMonotonic, Range(s) \subseteq S DEF AllOf, IsSeq
<1>2. /\ Append(s, m) \in Seq(S)
      /\ Len(Append(s, m)) = Len(s) + 1
      /\ \A i \in 1..Len(s) : Append(s, m)[i] = s[i]
      /\ Append(s, m)[Len(s) + 1] = m
  BY <1>1, AppendProperties
<1>3. IsSeq(Append(s, m))
  BY <1>2, SeqOfRange DEF IsSeq
<1>4. \A i \in 1..Len(Append(s, m)) : Of(c, said, Append(s, m)[i])
  BY <1>2, SeqShape DEF AllOf
<1> QED
  BY <1>2, <1>3, <1>4 DEF AllOf

LEMMA SubAll ==
  ASSUME NEW c, NEW said, NEW s, AllOf(c, said, s),
         NEW i \in Int, NEW j \in Int, 1 <= i, j <= Len(s)
  PROVE  /\ AllOf(c, said, SubSeq(s, i, j))
         /\ Len(SubSeq(s, i, j)) = IF i <= j THEN j - i + 1 ELSE 0
         /\ \A k \in 1..(j - i + 1) : SubSeq(s, i, j)[k] = s[i + k - 1]
<1>1. Len(s) \in Nat /\ \A k \in i..j : s[k] \in Range(s)
  BY SeqShape, ElementOfSeq DEF AllOf, IsSeq
<1>2. /\ SubSeq(s, i, j) \in Seq(Range(s))
      /\ Len(SubSeq(s, i, j)) = IF i <= j THEN j - i + 1 ELSE 0
      /\ \A k \in 1..(j - i + 1) : SubSeq(s, i, j)[k] = s[i + k - 1]
  BY <1>1, SubSeqProperties
<1>3. IsSeq(SubSeq(s, i, j))
  BY <1>2, SeqOfRange DEF IsSeq
<1>4. ASSUME NEW k \in 1..Len(SubSeq(s, i, j)) PROVE Of(c, said, SubSeq(s, i, j)[k])
  <2>1. k \in 1..(j - i + 1) /\ i + k - 1 \in 1..Len(s)
    BY <1>1, <1>2
  <2> QED
    BY <1>2, <2>1 DEF AllOf
<1> QED
  BY <1>2, <1>3, <1>4 DEF AllOf

LEMMA NoneOf == ASSUME NEW c, NEW said PROVE AllOf(c, said, <<>>)
<1>1. <<>> \in Seq(Range(<<>>)) /\ Len(<<>>) = 0
  BY EmptySeq
<1> QED
  BY <1>1 DEF AllOf, IsSeq

(* A user or tool message of the chat carries its name. *)
LEMMA UserMine ==
  ASSUME NEW c, NEW said, NEW m, Of(c, said, m), m.role \in {"user", "tool"}
  PROVE  Mine(c, m)
BY DEF Of, Uttered, System

-----------------------------------------------------------------------------
(* Keys.  A key of the store names the chat whose message it holds; every  *)
(* key that a turn adds does.                                              *)
Names(c, key) == \E i \in DOMAIN key : Mine(c, key[i])

(* A key made of one chat's messages names no other. *)
LEMMA OneName ==
  ASSUME NEW c, NEW said, NEW d, NEW key, Names(d, key),
         \A i \in DOMAIN key : Of(c, said, key[i])
  PROVE  d = c
BY UserMine DEF Names, Mine

(* A window holds user messages of its sequence. *)
LEMMA WindowElements ==
  ASSUME NEW ms, NEW least, NEW most
  PROVE  \A n \in DOMAIN WindowKey(ms, least, most) :
           \E i \in DOMAIN ms : IsUser(ms[i]) /\ WindowKey(ms, least, most)[n] = ms[i]
<1> DEFINE users == {i \in DOMAIN ms : IsUser(ms[i])}
           last == {i \in users : Cardinality({j \in users : j > i}) < most}
           Place(i) == Cardinality({j \in last : j <= i})
           places == {Place(i) : i \in last}
           at(n) == CHOOSE i \in last : Place(i) = n
           key == [n \in places |-> ms[at(n)]]
<1>1. CASE Cardinality(users) < least
  BY <1>1 DEF WindowKey, NoKey
<1>2. CASE ~(Cardinality(users) < least)
  <2>1. WindowKey(ms, least, most) = key
    BY <1>2 DEF WindowKey
  <2>2. ASSUME NEW n \in places PROVE at(n) \in last
    OBVIOUS
  <2> QED
    BY <2>1, <2>2
<1> QED
  BY <1>1, <1>2

(* The keys derived from the messages of a chat name the chat. *)
LEMMA WindowNames ==
  ASSUME NEW c, NEW said, NEW ms, AllOf(c, said, ms), NEW least, NEW most
  PROVE  /\ \A n \in DOMAIN WindowKey(ms, least, most) :
              Of(c, said, WindowKey(ms, least, most)[n])
         /\ WindowKey(ms, least, most) # NoKey => Names(c, WindowKey(ms, least, most))
<1> DEFINE key == WindowKey(ms, least, most)
<1>1. DOMAIN ms = 1..Len(ms)
  BY SeqShape DEF AllOf
<1>2. \A n \in DOMAIN key : Of(c, said, key[n]) /\ Mine(c, key[n])
  BY <1>1, WindowElements, UserMine DEF AllOf, IsUser
<1>3. ASSUME key # NoKey PROVE \E n \in DOMAIN key : TRUE
  <2> DEFINE users == {i \in DOMAIN ms : IsUser(ms[i])}
             last == {i \in users : Cardinality({j \in users : j > i}) < most}
             Place(i) == Cardinality({j \in last : j <= i})
             places == {Place(i) : i \in last}
             at(n) == CHOOSE i \in last : Place(i) = n
  <2>1. key = [n \in places |-> ms[at(n)]]
    BY <1>3 DEF WindowKey
  <2>2. places # {}
    <3> SUFFICES ASSUME places = {} PROVE FALSE
      OBVIOUS
    <3>1. key = [n \in 1..0 |-> ms[at(n)]]
      <4> HIDE DEF places, at
      <4> QED
        BY <2>1
    <3>2. key \in [1..0 -> {}]
      <4> HIDE DEF key, at
      <4> QED
        BY <3>1
    <3>3. key \in Seq({}) /\ DOMAIN key = {}
      <4> HIDE DEF key
      <4> QED
        BY <3>2, SeqDef
    <3> HIDE DEF key
    <3>4. key = <<>>
      BY <3>3, EmptySeq, LenProperties
    <3> QED
      BY <1>3, <3>4 DEF NoKey
  <2> QED
    BY <2>1, <2>2
<1> QED
  BY <1>2, <1>3 DEF Names

LEMMA RootNames ==
  ASSUME NEW c, NEW said, NEW ms, AllOf(c, said, ms)
  PROVE  /\ \A n \in DOMAIN RootKey(ms) : Of(c, said, RootKey(ms)[n])
         /\ RootKey(ms) # NoKey => Names(c, RootKey(ms))
<1> DEFINE first == {i \in DOMAIN ms :
                       /\ IsUser(ms[i])
                       /\ \A j \in 1..(i - 1) : ms[j].role = "system"}
           k == CHOOSE i \in first : TRUE
<1>1. CASE first = {}
  BY <1>1 DEF RootKey, NoKey
<1>2. CASE first # {}
  <2>1. k \in 1..Len(ms) /\ IsUser(ms[k]) /\ Len(ms) \in Nat
    BY <1>2, SeqShape DEF AllOf
  <2>2. RootKey(ms) = SubSeq(ms, 1, k)
    BY <1>2 DEF RootKey
  <2>3. /\ AllOf(c, said, SubSeq(ms, 1, k)) /\ Len(SubSeq(ms, 1, k)) = k
        /\ SubSeq(ms, 1, k)[k] = ms[k]
    BY <2>1, SubAll
  <2>4. DOMAIN SubSeq(ms, 1, k) = 1..k
    BY <2>3, SeqShape DEF AllOf
  <2>5. Mine(c, ms[k])
    BY <2>1, UserMine DEF AllOf, IsUser
  <2> HIDE DEF first, k
  <2>6. k \in DOMAIN SubSeq(ms, 1, k) /\ Mine(c, SubSeq(ms, 1, k)[k])
    BY <2>1, <2>3, <2>4, <2>5
  <2>7. Names(c, RootKey(ms))
    BY <2>2, <2>6 DEF Names
  <2>8. \A n \in DOMAIN SubSeq(ms, 1, k) : Of(c, said, SubSeq(ms, 1, k)[n])
    BY <2>3, <2>4 DEF AllOf
  <2> QED
    BY <2>2, <2>7, <2>8
<1> HIDE DEF first
<1> QED
  BY <1>1, <1>2

LEMMA SuffixNames ==
  ASSUME NEW c, NEW said, NEW ms, AllOf(c, said, ms),
         NEW k \in {Len(ms) - 1, Len(ms)}, k >= 1, Mine(c, ms[k]),
         NEW key \in TranscriptSuffixes(ms)
  PROVE  Names(c, key)
<1>1. Len(ms) \in Nat
  BY SeqShape DEF AllOf
<1>2. PICK i \in 2..(Len(ms) - 1) : key = SubSeq(ms, i, Len(ms))
  BY DEF TranscriptSuffixes
<1>3. /\ AllOf(c, said, key) /\ Len(key) = Len(ms) - i + 1
      /\ \A n \in 1..(Len(ms) - i + 1) : key[n] = ms[i + n - 1]
  BY <1>1, <1>2, SubAll
<1>4. DOMAIN key = 1..(Len(ms) - i + 1)
  BY <1>3, SeqShape DEF AllOf
<1>5. k - i + 1 \in DOMAIN key /\ key[k - i + 1] = ms[k]
  BY <1>1, <1>2, <1>3, <1>4
<1> QED
  BY <1>5 DEF Names

(* Ends(c, ms): the newest message of ms is of the chat itself. *)
Ends(c, ms) == Len(ms) > 0 /\ Mine(c, ms[Len(ms)])

(* The messages of a recovery still end with the newest. *)
LEMMA MergedEnds ==
  ASSUME NEW c, NEW said, NEW base, NEW incoming,
         AllOf(c, said, base), AllOf(c, said, incoming), Ends(c, incoming)
  PROVE  AllOf(c, said, Merged(base, incoming)) /\ Ends(c, Merged(base, incoming))
<1>1. Len(base) \in Nat /\ Len(incoming) \in Nat
  BY SeqShape DEF AllOf
<1>2. AllOf(c, said, base \o incoming) /\ Ends(c, base \o incoming)
  <2>1. (base \o incoming)[Len(base) + Len(incoming)] = incoming[Len(incoming)]
    BY <1>1, JoinAll DEF Ends
  <2> QED
    BY <1>1, <2>1, JoinAll DEF Ends
<1> QED
  BY <1>2 DEF Merged

-----------------------------------------------------------------------------
(* The store.  What it holds for a conversation of chat c: keys that name  *)
(* the chat, and a transcript of its messages.                             *)
Maps == {"transcripts", "suffixes", "windows", "roots", "explicit", "retained",
         "bridge", "latest"}

Derived == {"transcripts", "suffixes", "windows", "roots"}

StoreFor(c, said, id, st) ==
  /\ \A name \in Derived : \A key \in DOMAIN st[name] :
       st[name][key].to = id => Names(c, key)
  /\ \A key \in DOMAIN st.explicit : st.explicit[key].to = id => key = <<c>>
  /\ id \in DOMAIN st.retained => AllOf(c, said, st.retained[id].to)

(* A lookup that chat c may make. *)
LookupOK(c, said, l) ==
  \/ l.kind \in {"explicit", "self"} /\ l.messages = <<c>>
  \/ /\ l.kind \in {"transcript", "any", "suffix", "window", "root"}
     /\ AllOf(c, said, l.messages)

(* The entries of a map are entries of another. *)
Within(map, whole) ==
  \A key \in DOMAIN map : key \in DOMAIN whole /\ map[key].to = whole[key].to

Narrowed(st, whole) ==
  \A name \in Derived \cup {"explicit", "retained"} : Within(st[name], whole[name])

(* What holds of a store holds of one that lost entries. *)
LEMMA NarrowedFor ==
  ASSUME NEW c, NEW said, NEW id, NEW st, NEW whole,
         StoreFor(c, said, id, whole), Narrowed(st, whole)
  PROVE  StoreFor(c, said, id, st)
BY DEF StoreFor, Narrowed, Within, Derived

LEMMA WithinDrop ==
  ASSUME NEW map, NEW keys, NEW whole, Within(map, whole)
  PROVE  Within(Drop(map, keys), whole)
BY DEF Within, Drop, Restrict

LEMMA WithinSelf == ASSUME NEW map PROVE Within(map, map)
BY DEF Within

(* Pruning, forgetting, remembering tools and looking up add no entry. *)
LEMMA PrunedNarrows ==
  ASSUME NEW st, NEW now, NEW pruned \in Pruned(st, now)
  PROVE  Narrowed(pruned, st) /\ DOMAIN pruned = Maps
<1> DEFINE Fits(name, map) == Within(map, st[name])
<1>1. ASSUME NEW map PROVE Within(Fresh(map, now), map)
  BY WithinDrop, WithinSelf DEF Fresh
<1>2. ASSUME NEW map, NEW trimmed \in Trims(Fresh(map, now)) PROVE Within(trimmed, map)
  BY <1>1, WithinDrop DEF Trims
<1>3. PICK E \in Oldest(Fresh(st.transcripts, now), MaxEntries),
           retained \in Trims(Fresh(st.retained, now)),
           roots \in Trims(Fresh(st.roots, now)),
           suffixes \in Trims(Fresh(st.suffixes, now)),
           windows \in Trims(Fresh(st.windows, now)) :
        pruned = [transcripts |-> Drop(Fresh(st.transcripts, now), E),
                  latest |-> Drop(st.latest, Superseded(st, Stale(st.transcripts, now))
                                             \cup Superseded(st, E)),
                  retained |-> retained, roots |-> roots,
                  suffixes |-> suffixes, windows |-> windows,
                  explicit |-> Fresh(st.explicit, now),
                  bridge |-> Fresh(st.bridge, now)]
  BY DEF Pruned
<1>4. Within(pruned.transcripts, st.transcripts)
  BY <1>1, <1>3, WithinDrop
<1>5. /\ Within(pruned.retained, st.retained) /\ Within(pruned.roots, st.roots)
      /\ Within(pruned.suffixes, st.suffixes) /\ Within(pruned.windows, st.windows)
  BY <1>2, <1>3
<1>6. Within(pruned.explicit, st.explicit)
  BY <1>1, <1>3
<1>7. DOMAIN pruned = Maps
  BY <1>3 DEF Maps
<1> QED
  BY <1>4, <1>5, <1>6, <1>7 DEF Narrowed, Derived

LEMMA ForgottenNarrows ==
  ASSUME NEW st, NEW id
  PROVE  Narrowed(Forgotten(st, id), st) /\ DOMAIN Forgotten(st, id) = Maps
<1>1. ASSUME NEW map, NEW keys PROVE Within(Drop(map, keys), map)
  BY WithinDrop, WithinSelf
<1>2. DOMAIN Forgotten(st, id) = Maps
  BY DEF Forgotten, Maps
<1>3. \A name \in Derived \cup {"explicit", "retained"} :
        \E keys : Forgotten(st, id)[name] = Drop(st[name], keys)
  BY DEF Forgotten, Derived
<1> QED
  BY <1>1, <1>2, <1>3 DEF Narrowed

LEMMA ToolsNarrows ==
  ASSUME NEW st, DOMAIN st = Maps, NEW id, NEW signature, NEW now
  PROVE  /\ Narrowed(ToolsRemembered(st, id, signature, now), st)
         /\ DOMAIN ToolsRemembered(st, id, signature, now) = Maps
<1>1. \A name \in Derived \cup {"explicit", "retained"} :
        ToolsRemembered(st, id, signature, now)[name] = st[name]
  BY DEF ToolsRemembered, Derived, Maps
<1>2. DOMAIN ToolsRemembered(st, id, signature, now) = Maps
  BY DEF ToolsRemembered
<1> QED
  BY <1>1, <1>2, WithinSelf DEF Narrowed

LEMMA LookupMapName ==
  ASSUME NEW c, NEW said, NEW l, LookupOK(c, said, l), l.kind # "self"
  PROVE  LookupMap(l.kind) \in Derived \cup {"explicit"}
BY DEF LookupOK, LookupMap, Derived

LEMMA LookedUpNarrows ==
  ASSUME NEW c, NEW said, NEW st, DOMAIN st = Maps,
         NEW l, LookupOK(c, said, l), NEW ready, NEW now
  PROVE  Narrowed(LookedUp(st, l, ready, now), st) /\ DOMAIN LookedUp(st, l, ready, now) = Maps
<1> DEFINE name == LookupMap(l.kind)
           map == st[name]
           key == LookupKey(l)
           id == Found(st, l, ready, now)
           entry == IF id # NoId THEN Put(map, {key}, id, now)
                    ELSE Drop(map, {key} \cap Stale(map, now))
<1>1. CASE l.kind = "self"
  BY <1>1, WithinSelf DEF LookedUp, Narrowed
<1>2. CASE l.kind # "self"
  <2>1. name \in Derived \cup {"explicit"} /\ name \in Maps
    BY <1>2, LookupMapName DEF Maps, Derived
  <2>2. LookedUp(st, l, ready, now) = [st EXCEPT ![name] = entry]
    BY <1>2 DEF LookedUp
  <2>3. Within(entry, map)
    <3>1. CASE id = NoId
      BY <3>1, WithinDrop, WithinSelf
    <3>2. CASE id # NoId
      <4>1. key \in DOMAIN map /\ map[key].to = id
        BY <1>2, <3>2 DEF Found, Stale
      <4> HIDE DEF id, key, map
      <4>2. Within(Put(map, {key}, id, now), map)
        BY <4>1 DEF Within, Put
      <4> QED
        BY <3>2, <4>2
    <3> QED
      BY <3>1, <3>2
  <2> HIDE DEF entry, name
  <2> QED
    BY <2>1, <2>2, <2>3, WithinSelf DEF Narrowed
<1> QED
  BY <1>1, <1>2

(* What a lookup of chat c finds is a conversation of chat c. *)
LEMMA FoundFor ==
  ASSUME NEW c, NEW said, NEW l, LookupOK(c, said, l), NEW st, NEW ready, NEW now,
         NEW d, NEW its, NEW id, StoreFor(d, its, id, st),
         id = Found(st, l, ready, now), id # NoId, id # c
  PROVE  d = c
<1> DEFINE name == LookupMap(l.kind)
           key == LookupKey(l)
<1>1. l.kind # "self"
  BY DEF LookupOK, Found
<1>2. key \in DOMAIN st[name] /\ st[name][key].to = id
  BY <1>1 DEF Found, Stale
<1>3. CASE l.kind = "explicit"
  <2>1. name = "explicit" /\ key = <<c>>
    BY <1>3 DEF LookupMap, LookupKey, LookupOK
  <2>2. <<c>> = <<d>>
    BY <1>2, <2>1 DEF StoreFor
  <2> QED
    BY <2>2
<1>4. CASE l.kind # "explicit"
  <2>1. name \in Derived
    BY <1>1, <1>4, LookupMapName DEF LookupMap, Derived, LookupOK
  <2>2. Names(d, key)
    BY <1>2, <2>1 DEF StoreFor
  <2>3. AllOf(c, said, l.messages) /\ DOMAIN l.messages = 1..Len(l.messages)
    BY <1>1, <1>4, SeqShape DEF LookupOK, AllOf
  <2>4. /\ \A i \in DOMAIN l.messages : Of(c, said, l.messages[i])
        /\ \A i \in DOMAIN NoKey : Of(c, said, NoKey[i])
    BY <2>3, NoneOf, SeqShape DEF AllOf, NoKey
  <2>5. \A i \in DOMAIN key : Of(c, said, key[i])
    BY <1>1, <1>4, <2>3, <2>4, WindowNames, RootNames DEF LookupKey, LookupOK
  <2> HIDE DEF key
  <2> QED
    BY <2>2, <2>5, OneName
<1> QED
  BY <1>3, <1>4

-----------------------------------------------------------------------------
(* A turn of another conversation adds nothing to this one ... *)
LEMMA RememberedOther ==
  ASSUME NEW c, NEW said, NEW id, NEW st, DOMAIN st = Maps, StoreFor(c, said, id, st),
         NEW turn, turn.id # id, NEW now
  PROVE  StoreFor(c, said, id, Remembered(st, turn, now))
<1> DEFINE new == Remembered(st, turn, now)
<1>1. ASSUME NEW map, NEW keys, NEW value, NEW key \in DOMAIN Put(map, keys, value, now)
      PROVE  \/ Put(map, keys, value, now)[key].to = value
             \/ key \in DOMAIN map /\ Put(map, keys, value, now)[key] = map[key]
  BY DEF Put
<1>2. \A name \in Derived \cup {"explicit"} :
        \E keys : new[name] = Put(st[name], keys, turn.id, now)
  BY DEF Remembered, Derived, Maps
<1>3. \E value : new.retained = Put(st.retained, {turn.id}, value, now)
  BY DEF Remembered, Maps
<1>4. id \in DOMAIN new.retained => id \in DOMAIN st.retained /\ new.retained[id] = st.retained[id]
  BY <1>3 DEF Put
<1> HIDE DEF new
<1>5. \A name \in Derived : \A key \in DOMAIN new[name] :
        new[name][key].to = id => Names(c, key)
  BY <1>1, <1>2 DEF StoreFor
<1>6. \A key \in DOMAIN new.explicit : new.explicit[key].to = id => key = <<c>>
  BY <1>1, <1>2 DEF StoreFor
<1>7. StoreFor(c, said, id, new)
  BY <1>4, <1>5, <1>6 DEF StoreFor
<1> QED
  BY <1>7 DEF new

(* ... and a turn of this one adds keys that name its chat. *)
LEMMA RememberedFor ==
  ASSUME NEW c, NEW said, NEW st, DOMAIN st = Maps, NEW turn, StoreFor(c, said, turn.id, st),
         AllOf(c, said, turn.main), Ends(c, turn.main),
         turn.reply.role = "assistant", turn.client \in {<<>>, <<c>>}, NEW now
  PROVE  StoreFor(c, said, turn.id, Remembered(st, turn, now))
<1> DEFINE id == turn.id
           asked == Merged(Retained(st, id), turn.main)
           next == Append(asked, turn.reply)
           new == Remembered(st, turn, now)
<1>1. AllOf(c, said, Retained(st, id))
  BY NoneOf DEF Retained, StoreFor
<1>2. AllOf(c, said, asked) /\ Ends(c, asked) /\ Len(asked) \in Nat
  <2>1. AllOf(c, said, asked) /\ Ends(c, asked)
    BY <1>1, MergedEnds
  <2> QED
    BY <2>1, SeqShape DEF AllOf
<1>3. /\ AllOf(c, said, next) /\ Len(next) = Len(asked) + 1
      /\ \A i \in 1..Len(asked) : next[i] = asked[i]
  <2> HIDE DEF asked
  <2> QED
    BY <1>2, AppendAll DEF Of
<1>4. Mine(c, next[Len(next) - 1]) /\ Len(next) - 1 >= 1
  <2> HIDE DEF next, asked
  <2> QED
    BY <1>2, <1>3 DEF Ends
<1> DEFINE keys(name) == CASE name = "transcripts" -> {asked, next}
                           [] name = "suffixes" -> TranscriptSuffixes(asked) \cup TranscriptSuffixes(next)
                           [] name = "windows" -> Windows(asked) \cup Windows(next)
                           [] name = "roots" -> {RootKey(asked), RootKey(next)} \ {NoKey}
<1>5. /\ \A name \in Derived : new[name] = Put(st[name], keys(name), id, now)
      /\ new.explicit = Put(st.explicit, {turn.client} \ {<<>>}, id, now)
      /\ new.retained = Put(st.retained, {id}, next, now)
  BY DEF Remembered, Derived, Maps
<1> HIDE DEF asked, next, new
<1>6. Names(c, asked) /\ Names(c, next)
  <2>1. Len(asked) \in DOMAIN asked /\ Len(asked) \in DOMAIN next
    BY <1>2, <1>3, SeqShape DEF AllOf, Ends
  <2> QED
    BY <1>2, <1>3, <2>1 DEF Names, Ends
<1>7. \A key \in TranscriptSuffixes(asked) \cup TranscriptSuffixes(next) : Names(c, key)
  <2>1. \A key \in TranscriptSuffixes(asked) : Names(c, key)
    BY <1>2, SuffixNames DEF Ends
  <2>2. \A key \in TranscriptSuffixes(next) : Names(c, key)
    BY <1>3, <1>4, SuffixNames
  <2> QED
    BY <2>1, <2>2
<1>8. \A key \in Windows(asked) \cup Windows(next) : Names(c, key)
  BY <1>2, <1>3, WindowNames DEF Windows
<1>9. \A key \in {RootKey(asked), RootKey(next)} \ {NoKey} : Names(c, key)
  BY <1>2, <1>3, RootNames
<1>10. \A name \in Derived : \A key \in keys(name) : Names(c, key)
  <2>1. /\ keys("transcripts") = {asked, next}
        /\ keys("suffixes") = TranscriptSuffixes(asked) \cup TranscriptSuffixes(next)
        /\ keys("windows") = Windows(asked) \cup Windows(next)
        /\ keys("roots") = {RootKey(asked), RootKey(next)} \ {NoKey}
    OBVIOUS
  <2> HIDE DEF keys
  <2>2. \A key \in keys("transcripts") : Names(c, key)
    BY <1>6, <2>1
  <2>3. \A key \in keys("suffixes") : Names(c, key)
    BY <1>7, <2>1
  <2>4. \A key \in keys("windows") : Names(c, key)
    BY <1>8, <2>1
  <2>5. \A key \in keys("roots") : Names(c, key)
    BY <1>9, <2>1
  <2> QED
    BY <2>2, <2>3, <2>4, <2>5 DEF Derived
<1> HIDE DEF keys
<1>11. \A name \in Derived : \A key \in DOMAIN new[name] :
         new[name][key].to = id => Names(c, key)
  <2> SUFFICES ASSUME NEW name \in Derived, NEW key \in DOMAIN new[name], new[name][key].to = id
               PROVE  Names(c, key)
    OBVIOUS
  <2>1. new[name] = Put(st[name], keys(name), id, now)
    BY <1>5
  <2>2. \/ key \in keys(name)
        \/ key \in DOMAIN st[name] /\ st[name][key].to = id
    BY <2>1 DEF Put
  <2> QED
    BY <1>10, <2>2 DEF StoreFor
<1>12. \A key \in DOMAIN new.explicit : new.explicit[key].to = id => key = <<c>>
  BY <1>5 DEF StoreFor, Put
<1>13. AllOf(c, said, new.retained[id].to)
  BY <1>3, <1>5 DEF Put
<1>14. StoreFor(c, said, id, new)
  BY <1>11, <1>12, <1>13 DEF StoreFor
<1> QED
  BY <1>14 DEF new

-----------------------------------------------------------------------------
(* What has been said in a chat, with the message its client sends next or *)
(* has just sent.                                                          *)
Sayable(c) == Said(Range(log[c])) \cup {NewMessage(c)}

(* Tool calls answer a message of the client. *)
Paired(ms) ==
  \A i \in 1..Len(ms) : ms[i].role = "calls" => i > 1 /\ ms[i - 1].role = "user"

(* The messages of a request of chat c end with its newest. *)
MessagesOK(c, said, ms) ==
  /\ AllOf(c, said, ms)
  /\ Len(ms) > 0 /\ Mine(c, ms[Len(ms)])
  /\ IsToolResult(ms) => /\ Len(ms) > 2
                         /\ ms[Len(ms) - 1].role = "calls"
                         /\ ms[Len(ms) - 2].role = "user"

LookupsOK(c, said, ls) == IsSeq(ls) /\ \A i \in 1..Len(ls) : LookupOK(c, said, ls[i])

PlanOK(c, said, p) ==
  /\ \A m \in p.prompt : Of(c, said, m)
  /\ AllOf(c, said, p.main) /\ Ends(c, p.main)
  /\ p.client \in {<<>>, <<c>>}

(* The message a client sends next. *)
LEMMA NewRole ==
  ASSUME NEW c
  PROVE  NewMessage(c).role = IF AwaitsTool(log[c]) THEN "tool" ELSE "user"
BY DEF NewMessage

(* A sequence has a number of user messages. *)
LEMMA UsersCount ==
  ASSUME NEW ms, IsSeq(ms)
  PROVE  Users(ms) \in Nat
<1>1. Len(ms) \in Nat /\ DOMAIN ms = 1..Len(ms)
  BY SeqShape
<1>2. IsFiniteSet(1..Len(ms))
  BY <1>1, FS_Interval
<1>3. IsFiniteSet({i \in DOMAIN ms : IsUser(ms[i])})
  BY <1>1, <1>2, FS_Subset
<1> QED
  BY <1>3, FS_CardinalityType DEF Users

(* In a chat in words of its own it is the chat's own. *)
LEMMA NewMine ==
  ASSUME NEW c, style[c].opens = 0, Users(log[c]) \in Nat
  PROVE  /\ Mine(c, NewMessage(c)) /\ Uttered(c, Sayable(c), NewMessage(c))
         /\ NewMessage(c).role = IF AwaitsTool(log[c]) THEN "tool" ELSE "user"
<1>1. NewMessage(c).text[1] = c
  BY DEF NewMessage, Words
<1>2. Mine(c, NewMessage(c))
  BY <1>1, NewRole DEF Mine
<1> QED
  BY <1>2, NewRole DEF Uttered, Sayable

(* The last message of a role, where it is known. *)
LEMMA LastIs ==
  ASSUME NEW ms, IsSeq(ms), NEW role, NEW k \in 1..Len(ms), ms[k].role = role,
         \A j \in (k + 1)..Len(ms) : ms[j].role # role
  PROVE  LastAt(ms, role) = k
<1>1. DOMAIN ms = 1..Len(ms) /\ Len(ms) \in Nat
  BY SeqShape
<1>2. \A i \in DOMAIN ms :
        (ms[i].role = role /\ \A j \in (i + 1)..Len(ms) : ms[j].role # role) <=> i = k
  BY <1>1
<1> QED
  BY <1>1, <1>2 DEF LastAt

(* So are the messages of its request, whole or the newest exchange. *)
LEMMA MessagesFit ==
  ASSUME NEW c, style[c].opens = 0, AllOf(c, Sayable(c), log[c]), Paired(log[c])
  PROVE  /\ MessagesOK(c, Sayable(c), Messages(c))
         /\ Messages(c)[Len(Messages(c))] = NewMessage(c)
<1> DEFINE said == Sayable(c)
           new == NewMessage(c)
           chat == Append(log[c], new)
           n == Len(log[c]) + 1
           from == LastAt(chat, "user")
<1>1. Len(log[c]) \in Nat /\ (log[c] = <<>> <=> Len(log[c]) = 0)
  BY SeqShape DEF AllOf
<1>2. Mine(c, new) /\ Of(c, said, new) /\ new.role = IF AwaitsTool(log[c]) THEN "tool" ELSE "user"
  BY NewMine, UsersCount DEF Of, AllOf
<1>3. /\ AllOf(c, said, chat) /\ Len(chat) = n
      /\ \A i \in 1..(n - 1) : chat[i] = log[c][i]
      /\ chat[n] = new
  BY <1>2, AppendAll
<1>4. ASSUME new.role = "tool"
      PROVE  n > 2 /\ chat[n - 1].role = "calls" /\ chat[n - 2].role = "user"
  <2>1. Len(log[c]) > 0 /\ log[c][Len(log[c])].role = "calls"
    BY <1>1, <1>2, <1>4 DEF AwaitsTool, Last
  <2>2. Len(log[c]) > 1 /\ log[c][Len(log[c]) - 1].role = "user"
    BY <1>1, <2>1 DEF Paired
  <2> QED
    BY <1>1, <1>3, <2>1, <2>2
<1> HIDE DEF chat, new, said
<1>5. MessagesOK(c, said, chat) /\ chat[Len(chat)] = new
  <2>1. IsToolResult(chat) => new.role = "tool"
    BY <1>3 DEF IsToolResult, Last
  <2> QED
    BY <1>1, <1>2, <1>3, <1>4, <2>1 DEF MessagesOK
<1>6. /\ MessagesOK(c, said, SubSeq(chat, from, Len(chat)))
      /\ SubSeq(chat, from, Len(chat))[Len(SubSeq(chat, from, Len(chat)))] = new
  <2> DEFINE newest == SubSeq(chat, from, Len(chat))
  <2>1. IsSeq(chat)
    BY <1>3 DEF AllOf
  <2>2. CASE new.role = "user"
    <3>1. from = n
      BY <1>1, <1>3, <2>1, <2>2, LastIs
    <3>2. AllOf(c, said, newest) /\ Len(newest) = 1 /\ newest[1] = new
      <4>1. newest = SubSeq(chat, n, n)
        BY <1>3, <3>1
      <4> HIDE DEF newest
      <4> QED
        BY <1>1, <1>3, <4>1, SubAll
    <3> HIDE DEF newest
    <3>3. ~IsToolResult(newest)
      BY <2>2, <3>2 DEF IsToolResult, Last
    <3>4. MessagesOK(c, said, newest) /\ newest[Len(newest)] = new
      BY <1>2, <3>2, <3>3 DEF MessagesOK
    <3> QED
      BY <3>4 DEF newest
  <2>3. CASE new.role = "tool"
    <3>1. from = n - 2
      <4>1. \A j \in ((n - 2) + 1)..Len(chat) : chat[j].role # "user"
        BY <1>1, <1>3, <1>4, <2>3
      <4>2. n - 2 \in 1..Len(chat) /\ chat[n - 2].role = "user"
        BY <1>1, <1>3, <1>4, <2>3
      <4> QED
        BY <2>1, <4>1, <4>2, LastIs
    <3>2. /\ AllOf(c, said, newest) /\ Len(newest) = 3
          /\ newest[1] = chat[n - 2] /\ newest[2] = chat[n - 1] /\ newest[3] = new
      <4>1. newest = SubSeq(chat, n - 2, n)
        BY <1>3, <3>1
      <4> HIDE DEF newest
      <4>2. /\ AllOf(c, said, newest) /\ Len(newest) = 3
            /\ \A k \in 1..3 : newest[k] = chat[n - 2 + k - 1]
        BY <1>1, <1>3, <1>4, <2>3, <4>1, SubAll
      <4> QED
        BY <1>1, <1>3, <4>2
    <3> HIDE DEF newest
    <3>3. MessagesOK(c, said, newest) /\ newest[Len(newest)] = new
      BY <1>2, <1>4, <2>3, <3>2 DEF MessagesOK
    <3> QED
      BY <3>3 DEF newest
  <2> QED
    BY <1>2, <2>2, <2>3
<1>7. Messages(c) = IF style[c].whole THEN chat ELSE SubSeq(chat, from, Len(chat))
  BY DEF Messages, chat, new
<1> HIDE DEF from
<1>8. MessagesOK(c, said, Messages(c)) /\ Messages(c)[Len(Messages(c))] = new
  BY <1>5, <1>6, <1>7
<1> QED
  BY <1>8 DEF said, new

(* The question of a tool result is the third message from the end. *)
LEMMA AskedIs ==
  ASSUME NEW c, NEW said, NEW ms, MessagesOK(c, said, ms), IsToolResult(ms)
  PROVE  Asked(ms) = Len(ms) - 2 /\ Len(ms) \in Nat
<1>1. Len(ms) \in Nat /\ IsSeq(ms)
  BY SeqShape DEF MessagesOK, AllOf
<1>2. Len(ms) > 2 /\ ms[Len(ms) - 1].role = "calls" /\ ms[Len(ms)].role = "tool"
  BY DEF MessagesOK, IsToolResult, Last
<1>3. LastAt(ms, "calls") = Len(ms) - 1
  BY <1>1, <1>2, LastIs
<1> QED
  BY <1>1, <1>3 DEF Asked

-----------------------------------------------------------------------------
(* The lookups of a request. *)
LEMMA TriesOK ==
  ASSUME NEW c, NEW said, NEW ms, NEW kinds, NEW n \in Nat, DOMAIN kinds = 1..n,
         \A i \in 1..n : LookupOK(c, said, [kind |-> kinds[i], messages |-> ms])
  PROVE  LookupsOK(c, said, Tries(kinds, ms))
<1> DEFINE ls == Tries(kinds, ms)
           S == {[kind |-> kinds[i], messages |-> ms] : i \in 1..n}
<1>1. ls = [i \in 1..n |-> [kind |-> kinds[i], messages |-> ms]]
  BY DEF Tries
<1>2. ls \in [1..n -> S]
  BY <1>1
<1>3. ls \in Seq(S) /\ Len(ls) = n
  <2> HIDE DEF ls, S
  <2>1. ls \in Seq(S)
    BY <1>2, SeqDef
  <2> QED
    BY <1>2, <2>1, LenProperties
<1> HIDE DEF ls, S
<1>4. IsSeq(ls)
  BY <1>3, SeqOfRange DEF IsSeq
<1>5. \A i \in 1..Len(ls) : LookupOK(c, said, ls[i])
  BY <1>1, <1>3
<1> QED
  BY <1>4, <1>5 DEF LookupsOK, ls

(* Lists of lookups. *)
LEMMA JoinLookups ==
  ASSUME NEW c, NEW said, NEW s, NEW t, LookupsOK(c, said, s), LookupsOK(c, said, t)
  PROVE  LookupsOK(c, said, s \o t)
<1> DEFINE S == Range(s) \cup Range(t)
<1>1. s \in Seq(S) /\ t \in Seq(S)
  BY SeqMonotonic, Range(s) \subseteq S, Range(t) \subseteq S DEF LookupsOK, IsSeq
<1>2. /\ s \o t \in Seq(S)
      /\ Len(s \o t) = Len(s) + Len(t)
      /\ \A i \in 1..Len(s) + Len(t) :
           (s \o t)[i] = IF i <= Len(s) THEN s[i] ELSE t[i - Len(s)]
  BY <1>1, ConcatProperties
<1>3. IsSeq(s \o t)
  BY <1>2, SeqOfRange DEF IsSeq
<1>4. \A i \in 1..Len(s \o t) : LookupOK(c, said, (s \o t)[i])
  BY <1>2, SeqShape DEF LookupsOK
<1> QED
  BY <1>3, <1>4 DEF LookupsOK

LEMMA NextLookup ==
  ASSUME NEW c, NEW said, NEW ls, LookupsOK(c, said, ls), ls # <<>>
  PROVE  LookupOK(c, said, Head(ls)) /\ LookupsOK(c, said, Tail(ls))
<1>1. /\ Tail(ls) \in Seq(Range(ls)) /\ Len(Tail(ls)) = Len(ls) - 1
      /\ \A i \in 1..Len(Tail(ls)) : Tail(ls)[i] = ls[i + 1]
  BY HeadTailProperties DEF LookupsOK, IsSeq
<1>2. IsSeq(Tail(ls))
  BY <1>1, SeqOfRange DEF IsSeq
<1>3. Len(ls) \in Nat /\ Len(ls) > 0 /\ Head(ls) = ls[1]
  BY SeqShape DEF LookupsOK, IsSeq
<1> QED
  BY <1>1, <1>2, <1>3 DEF LookupsOK

(* Every lookup of a request carries messages of its chat. *)
LEMMA LookupsFit ==
  ASSUME NEW c, NEW said, NEW ms, MessagesOK(c, said, ms)
  PROVE  LookupsOK(c, said, Lookups(c, ms))
<1>1. AllOf(c, said, ms) /\ Len(ms) \in Nat
  BY SeqShape DEF MessagesOK, AllOf
<1>2. ASSUME NEW some, AllOf(c, said, some), NEW first \in {"transcript", "any"}
      PROVE  LookupsOK(c, said, Tries(<<first, "suffix", "window", "root">>, some))
  <2> DEFINE kinds == <<first, "suffix", "window", "root">>
  <2>1. /\ DOMAIN kinds = 1..4
        /\ \A i \in 1..4 : kinds[i] \in {"transcript", "any", "suffix", "window", "root"}
    OBVIOUS
  <2> HIDE DEF kinds
  <2>2. \A i \in 1..4 : LookupOK(c, said, [kind |-> kinds[i], messages |-> some])
    BY <1>2, <2>1 DEF LookupOK
  <2>3. LookupsOK(c, said, Tries(kinds, some))
    BY <2>1, <2>2, TriesOK
  <2> QED
    BY <2>3 DEF kinds
<1>3. CASE IsToolResult(ms)
  <2>1. Asked(ms) = Len(ms) - 2 /\ Len(ms) > 2
    BY <1>3, AskedIs DEF MessagesOK
  <2>2. AllOf(c, said, SubSeq(ms, 1, Asked(ms) - 1)) /\ AllOf(c, said, SubSeq(ms, 1, Asked(ms)))
    BY <1>1, <2>1, SubAll
  <2> QED
    BY <1>2, <1>3, <2>2, JoinLookups DEF Lookups
<1>4. CASE ~IsToolResult(ms) /\ Continues(ms)
  <2>1. AllOf(c, said, Front(ms))
    BY <1>1, <1>4, SubAll DEF Front, Continues
  <2> QED
    BY <1>2, <1>4, <2>1 DEF Lookups
<1>5. CASE ~IsToolResult(ms) /\ ~Continues(ms) /\ style[c].explicit
  <2> DEFINE kinds == <<"explicit", "self">>
  <2>1. DOMAIN kinds = 1..2 /\ \A i \in 1..2 : kinds[i] \in {"explicit", "self"}
    OBVIOUS
  <2> HIDE DEF kinds
  <2>2. \A i \in 1..2 : LookupOK(c, said, [kind |-> kinds[i], messages |-> <<c>>])
    BY <2>1 DEF LookupOK
  <2>3. LookupsOK(c, said, Tries(kinds, <<c>>))
    BY <2>1, <2>2, TriesOK
  <2> QED
    BY <1>5, <2>3 DEF Lookups, kinds
<1>6. CASE ~IsToolResult(ms) /\ ~Continues(ms) /\ ~style[c].explicit
  <2>1. LookupsOK(c, said, <<>>)
    BY EmptySeq DEF LookupsOK, IsSeq
  <2> QED
    BY <1>6, <2>1 DEF Lookups
<1> QED
  BY <1>3, <1>4, <1>5, <1>6

(* The plan of a request. *)
LEMMA PlannedFits ==
  ASSUME NEW c, NEW said, MessagesOK(c, said, req[c].messages), NEW id, NEW auto
  PROVE  PlanOK(c, said, Planned(c, id, auto))
<1> DEFINE ms == req[c].messages
           p == Planned(c, id, auto)
<1>1. AllOf(c, said, ms) /\ Len(ms) \in Nat /\ DOMAIN ms = 1..Len(ms)
  BY SeqShape DEF MessagesOK, AllOf
<1> HIDE DEF ms
<1>2. /\ p.prompt = Prompt(ms, auto)
      /\ p.main = IF IsToolResult(ms) THEN SubSeq(ms, 1, Asked(ms)) ELSE ms
      /\ p.client \in {<<>>, <<c>>}
  BY DEF Planned, ms
<1> HIDE DEF p
<1>3. CASE IsToolResult(ms)
  <2>1. Asked(ms) = Len(ms) - 2 /\ Len(ms) > 2 /\ ms[Len(ms) - 2].role = "user"
    BY <1>3, AskedIs DEF MessagesOK, ms
  <2>2. /\ AllOf(c, said, p.main) /\ Len(p.main) = Len(ms) - 2
        /\ p.main[Len(ms) - 2] = ms[Len(ms) - 2]
    BY <1>1, <1>2, <1>3, <2>1, SubAll
  <2>3. Mine(c, ms[Len(ms) - 2])
    BY <1>1, <2>1, UserMine DEF AllOf
  <2>4. AllOf(c, said, SubSeq(ms, Asked(ms), Len(ms)))
    BY <1>1, <2>1, SubAll
  <2>5. \A m \in p.prompt : Of(c, said, m)
    <3>1. p.prompt = Range(SubSeq(ms, Asked(ms), Len(ms)))
      BY <1>2, <1>3 DEF Prompt
    <3> QED
      BY <2>4, <3>1, SeqShape DEF AllOf, Range
  <2>6. PlanOK(c, said, p)
    BY <1>2, <2>1, <2>2, <2>3, <2>5 DEF PlanOK, Ends
  <2> QED
    BY <2>6 DEF p
<1>4. CASE ~IsToolResult(ms)
  <2>1. \A m \in p.prompt : Of(c, said, m)
    BY <1>1, <1>2, <1>4 DEF Prompt, AllOf, Range, Last, MessagesOK, ms
  <2>2. PlanOK(c, said, p)
    BY <1>1, <1>2, <1>4, <2>1 DEF PlanOK, Ends, MessagesOK, ms
  <2> QED
    BY <2>2 DEF p
<1> QED
  BY <1>3, <1>4

-----------------------------------------------------------------------------
(***************************************************************************)
(* Conversations belong to chats, where no two open with the same words.   *)
(***************************************************************************)
OwnWords == \A s \in Styles : s.opens = 0

Shape ==
  /\ DOMAIN store = Maps
  /\ DOMAIN records \subseteq Ids /\ issued \in Nat
  /\ known = [id \in Ids |-> known[id]]
  /\ log = [c \in Chats |-> log[c]] /\ branches = [c \in Chats |-> branches[c]]
  /\ lookups = [c \in Chats |-> lookups[c]]
  /\ plan = [c \in Chats |-> plan[c]] /\ opened = [c \in Chats |-> opened[c]]

Busy(c) == pc[c] \notin {"idle", "plan"}

Talk(c) ==
  /\ style[c].opens = 0
  /\ branches[c] \in Nat
  /\ AllOf(c, Sayable(c), log[c]) /\ Paired(log[c])
  /\ pc[c] # "idle" => /\ MessagesOK(c, Sayable(c), req[c].messages)
                       /\ req[c].messages[Len(req[c].messages)] = NewMessage(c)
  /\ pc[c] = "plan" => LookupsOK(c, Sayable(c), lookups[c])
  /\ DOMAIN plan[c] = DOMAIN NoPlan
  /\ Busy(c) => /\ PlanOK(c, Sayable(c), plan[c])
                /\ plan[c].id \in Ids /\ opened[c] \in Ids
  /\ pc[c] \in {"tools", "repair"} => UsesBridge(req[c])
  /\ pc[c] = "remember" /\ outcome[c].calls # <<>> => UsesBridge(req[c])

Holds(c, id) ==
  /\ StoreFor(c, Sayable(c), id, store)
  /\ \A m \in Said(known[id]) : Uttered(c, Sayable(c), m)
  /\ \A d \in Chats : id \in {plan[d].id, opened[d]} => d = c

Apart ==
  \A id \in Ids :
    IF id <= issued THEN \E c \in Chats : Holds(c, id)
    ELSE \A c \in Chats : Holds(c, id)

Isolated == Shape /\ (\A c \in Chats : Talk(c)) /\ Apart

-----------------------------------------------------------------------------
(* Frames. *)
LEMMA SayableSame ==
  ASSUME NEW c \in Chats, style' = style, log'[c] = log[c], branches'[c] = branches[c]
  PROVE  NewMessage(c)' = NewMessage(c) /\ Sayable(c)' = Sayable(c)
<1>1. NewMessage(c)' = NewMessage(c)
  BY DEF NewMessage, Words, AwaitsTool
<1> QED
  BY <1>1 DEF Sayable

SameTalk(c) ==
  /\ style' = style
  /\ log'[c] = log[c] /\ branches'[c] = branches[c] /\ pc'[c] = pc[c] /\ req'[c] = req[c]
  /\ lookups'[c] = lookups[c] /\ plan'[c] = plan[c] /\ opened'[c] = opened[c]
  /\ outcome'[c] = outcome[c]

(* What a step leaves alone. *)
LEMMA TalkStill ==
  ASSUME NEW c \in Chats, Talk(c), SameTalk(c)
  PROVE  Talk(c)'
BY SayableSame DEF Talk, SameTalk, Busy

(* A request moves on. *)
LEMMA TalkMoves ==
  ASSUME NEW c \in Chats, Talk(c), pc[c] # "idle", style' = style,
         log'[c] = log[c], branches'[c] = branches[c], req'[c] = req[c],
         pc'[c] = "plan" => LookupsOK(c, Sayable(c), lookups'[c]),
         DOMAIN plan'[c] = DOMAIN NoPlan,
         Busy(c)' => /\ PlanOK(c, Sayable(c), plan'[c])
                     /\ plan'[c].id \in Ids /\ opened'[c] \in Ids,
         pc'[c] \in {"tools", "repair"} => UsesBridge(req[c]),
         pc'[c] = "remember" /\ outcome'[c].calls # <<>> => UsesBridge(req[c])
  PROVE  Talk(c)'
BY SayableSame DEF Talk

(* It ends. *)
LEMMA TalkOver ==
  ASSUME NEW c \in Chats, Arrays, Shape, Talk(c), Over(c),
         style' = style, log'[c] = log[c], branches'[c] = branches[c]
  PROVE  Talk(c)'
<1>1. pc'[c] = "idle" /\ plan'[c] = NoPlan
  BY DEF Over, Goto, Arrays, Shape
<1> QED
  BY <1>1, SayableSame DEF Talk, Busy

(* More said breaks nothing that holds of a conversation. *)
LEMMA StoreGrows ==
  ASSUME NEW c, NEW said, NEW more, MaxBranches = 0 => said \subseteq more, NEW id, NEW st,
         StoreFor(c, said, id, st)
  PROVE  StoreFor(c, more, id, st)
BY AllGrows DEF StoreFor

LEMMA HoldsKept ==
  ASSUME NEW c \in Chats, NEW id \in Ids, MaxBranches = 0 => Sayable(c) \subseteq Sayable(c)',
         StoreFor(c, Sayable(c), id, store'),
         \A m \in Said(known'[id]) : Uttered(c, Sayable(c), m),
         \A d \in Chats : id \in {plan'[d].id, opened'[d]} => d = c
  PROVE  Holds(c, id)'
<1>1. StoreFor(c, Sayable(c)', id, store')
  BY StoreGrows
<1>2. \A m \in Said(known'[id]) : Uttered(c, Sayable(c)', m)
  BY OfGrows
<1> QED
  BY <1>1, <1>2 DEF Holds

LEMMA ApartKept ==
  ASSUME Apart, issued' = issued,
         \A id \in Ids : \A c \in Chats : Holds(c, id) => Holds(c, id)'
  PROVE  Apart'
BY DEF Apart

(* A step that changes neither the store nor a log, gives no id away and   *)
(* tells no conversation anything.                                         *)
LEMMA ApartStill ==
  ASSUME Apart, UNCHANGED <<store, issued, style, log, branches>>,
         \A id \in Ids : known'[id] \subseteq known[id],
         \A d \in Chats : /\ plan'[d].id \in {plan[d].id, NoId}
                          /\ opened'[d] \in {opened[d], NoId}
  PROVE  Apart'
<1>1. ASSUME NEW id \in Ids, NEW c \in Chats, Holds(c, id) PROVE Holds(c, id)'
  <2>1. Sayable(c)' = Sayable(c)
    BY SayableSame
  <2>2. \A d \in Chats : id \in {plan'[d].id, opened'[d]} => d = c
    BY <1>1, IdsAssumption DEF Holds
  <2>3. \A m \in Said(known'[id]) : m \in Said(known[id])
    BY DEF Said
  <2> QED
    BY <1>1, <2>1, <2>2, <2>3 DEF Holds
<1> QED
  BY <1>1, ApartKept

(* A step of one chat, and a step of none. *)
LEMMA OneTalk ==
  ASSUME Isolated, NEW c \in Chats, Shape', Talk(c)', \A d \in Chats \ {c} : SameTalk(d), Apart'
  PROVE  Isolated'
BY TalkStill DEF Isolated

LEMMA NoTalk ==
  ASSUME Isolated, Shape', \A d \in Chats : SameTalk(d), Apart'
  PROVE  Isolated'
BY TalkStill DEF Isolated

-----------------------------------------------------------------------------
(* The actions. *)
LEMMA OverIsolated ==
  ASSUME Arrays, Isolated, NEW c \in Chats, Over(c), UNCHANGED <<store, issued, style, log, branches>>,
         known' = [id \in Ids |-> known'[id]],
         \A id \in Ids : known'[id] \subseteq known[id],
         DOMAIN records' \subseteq Ids
  PROVE  Isolated'
<1> USE DEF Isolated
<1>1. Shape'
  BY DEF Shape, Over
<1>2. Talk(c)'
  BY TalkOver
<1>3. \A d \in Chats \ {c} : SameTalk(d)
  BY DEF SameTalk, Over, Goto, Arrays, Shape
<1>4. \A d \in Chats : plan'[d].id \in {plan[d].id, NoId} /\ opened'[d] \in {opened[d], NoId}
  BY DEF Over, Shape, NoPlan
<1>5. Apart'
  BY <1>4, ApartStill
<1> QED
  BY <1>1, <1>2, <1>3, <1>5, OneTalk

(* The provider records no id the service did not make. *)
LEMMA UpdatedRecords ==
  ASSUME NEW id \in Ids, NEW flagged, Updated(id, flagged), DOMAIN records \subseteq Ids
  PROVE  DOMAIN records' \subseteq Ids
BY DEF Updated, Put, Drop, Restrict

(* A request is asked, and a lookup finds only what belongs to its chat. *)
LEMMA AskIsolated ==
  ASSUME Arrays, Isolated, NEW c \in Chats, Ask(c)
  PROVE  Isolated'
<1> USE DEF Isolated, client, provider, progress, upstream
<1>1. Shape'
  BY DEF Ask, Shape
<1>2. /\ pc[c] = "idle" /\ pc'[c] = "plan" /\ style' = style
      /\ log'[c] = log[c] /\ branches'[c] = branches[c]
      /\ req'[c].messages = Messages(c) /\ lookups'[c] = Lookups(c, Messages(c))
      /\ plan'[c] = plan[c]
  <2>1. PICK stream, tools, choice : req' = [req EXCEPT ![c] = Request(c, stream, tools, choice)]
    BY DEF Ask
  <2>2. req'[c].messages = Messages(c)
    BY <2>1 DEF Arrays, Request
  <2>3. lookups'[c] = Lookups(c, Messages(c))
    BY DEF Ask, Shape
  <2>4. pc[c] = "idle" /\ pc'[c] = "plan" /\ UNCHANGED <<style, log, branches, plan>>
    BY DEF Ask, Goto, Arrays
  <2> QED
    BY <2>2, <2>3, <2>4
<1>3. /\ MessagesOK(c, Sayable(c), Messages(c))
      /\ Messages(c)[Len(Messages(c))] = NewMessage(c)
  BY MessagesFit DEF Talk
<1>4. LookupsOK(c, Sayable(c), Lookups(c, Messages(c)))
  BY <1>3, LookupsFit
<1>5. Talk(c)'
  BY <1>2, <1>3, <1>4, SayableSame DEF Talk, Busy
<1>6. \A d \in Chats \ {c} : SameTalk(d)
  BY DEF SameTalk, Ask, Goto, Arrays, Shape
<1>7. Apart'
  BY ApartStill DEF Ask
<1> QED
  BY <1>1, <1>5, <1>6, <1>7, OneTalk

LEMMA LookUpIsolated ==
  ASSUME Arrays, Isolated, NEW c \in Chats, LookUp(c)
  PROVE  Isolated'
<1> DEFINE l == Head(lookups[c])
           id == Found(store, l, Ready, clock)
           said == Sayable(c)
<1> USE DEF Isolated, client, provider, progress, upstream
<1>1. /\ pc[c] = "plan" /\ lookups[c] # <<>> /\ store' = LookedUp(store, l, Ready, clock)
      /\ IF id = NoId
         THEN /\ lookups' = [lookups EXCEPT ![c] = Tail(@)]
              /\ UNCHANGED <<pc, plan, opened>>
         ELSE /\ plan' = [plan EXCEPT ![c] = Planned(c, id, TRUE)]
              /\ opened' = [opened EXCEPT ![c] = id]
              /\ lookups' = [lookups EXCEPT ![c] = <<>>]
              /\ Goto(c, "prompt")
      /\ UNCHANGED <<records, untrusted, issued, log, style, branches, req, outcome, known>>
  BY DEF LookUp
<1>2. LookupOK(c, said, l) /\ LookupsOK(c, said, Tail(lookups[c]))
  BY <1>1, NextLookup DEF Talk
<1>3. Narrowed(store', store) /\ DOMAIN store' = Maps
  BY <1>1, <1>2, LookedUpNarrows DEF Shape
<1>4. ASSUME id # NoId PROVE id \in Ids /\ id # c
  <2>1. id \in Ready
    BY <1>4 DEF Found
  <2> QED
    BY <2>1, IdsAssumption DEF Ready, Shape
<1> HIDE DEF l, id
<1>5. Shape'
  BY <1>1, <1>3 DEF Shape
<1>6. \A d \in Chats \ {c} : SameTalk(d)
  BY <1>1 DEF SameTalk, Goto, Arrays, Shape
<1>7. Talk(c)'
  <2>1. /\ style' = style /\ log'[c] = log[c] /\ branches'[c] = branches[c]
        /\ req'[c] = req[c] /\ outcome'[c] = outcome[c]
    BY <1>1
  <2>2. CASE id = NoId
    <3>1. pc'[c] = "plan" /\ lookups'[c] = Tail(lookups[c]) /\ plan'[c] = plan[c]
      BY <1>1, <2>2 DEF Shape
    <3>2. DOMAIN plan'[c] = DOMAIN NoPlan /\ ~Busy(c)'
      BY <3>1 DEF Talk, Busy
    <3>3. Talk(c) /\ pc[c] # "idle"
      BY <1>1
    <3> QED
      BY <1>2, <2>1, <3>1, <3>2, <3>3, TalkMoves
  <2>3. CASE id # NoId
    <3>1. pc'[c] = "prompt" /\ plan'[c] = Planned(c, id, TRUE) /\ opened'[c] = id
      BY <1>1, <2>3 DEF Shape, Goto, Arrays
    <3>2. PlanOK(c, said, Planned(c, id, TRUE))
      BY <1>1, PlannedFits DEF Talk
    <3>3. DOMAIN Planned(c, id, TRUE) = DOMAIN NoPlan /\ Planned(c, id, TRUE).id = id
      BY DEF Planned, NoPlan
    <3>4. pc[c] # "idle" /\ pc'[c] \notin {"idle", "plan", "tools", "repair", "remember"}
      BY <1>1, <3>1
    <3>5. /\ PlanOK(c, said, plan'[c]) /\ DOMAIN plan'[c] = DOMAIN NoPlan
          /\ plan'[c].id \in Ids /\ opened'[c] \in Ids
      BY <1>4, <2>3, <3>1, <3>2, <3>3
    <3>6. Talk(c)
      OBVIOUS
    <3> QED
      BY <2>1, <3>4, <3>5, <3>6, TalkMoves
  <2> QED
    BY <2>2, <2>3
<1>8. ASSUME NEW x \in Ids, NEW d \in Chats, Holds(d, x) PROVE Holds(d, x)'
  <2>1. Sayable(d) \subseteq Sayable(d)'
    BY <1>1, SayableSame
  <2>2. StoreFor(d, Sayable(d), x, store')
    BY <1>3, <1>8, NarrowedFor DEF Holds
  <2>3. ASSUME NEW e \in Chats, x \in {plan'[e].id, opened'[e]} PROVE e = d
    <3>1. CASE x \in {plan[e].id, opened[e]}
      BY <1>8, <3>1 DEF Holds
    <3>2. CASE x \notin {plan[e].id, opened[e]}
      <4>1. e = c /\ id # NoId /\ x = id
        <5>1. Planned(c, id, TRUE).id = id
          BY DEF Planned
        <5>2. CASE id = NoId
          BY <1>1, <2>3, <3>2, <5>2
        <5>3. CASE id # NoId
          <6>1. e # c => plan'[e] = plan[e] /\ opened'[e] = opened[e]
            BY <1>1, <5>3 DEF Shape
          <6>2. plan'[c] = Planned(c, id, TRUE) /\ opened'[c] = id
            BY <1>1, <5>3 DEF Shape
          <6> QED
            BY <2>3, <3>2, <5>1, <5>3, <6>1, <6>2
        <5> QED
          BY <5>2, <5>3
      <4>2. StoreFor(d, Sayable(d), id, store)
        BY <1>8, <4>1 DEF Holds
      <4> QED
        BY <1>2, <1>4, <4>1, <4>2, FoundFor DEF id
    <3> QED
      BY <3>1, <3>2
  <2> QED
    BY <1>1, <1>8, <2>1, <2>2, <2>3, HoldsKept DEF Holds
<1>9. Apart'
  BY <1>1, <1>8, ApartKept
<1> QED
  BY <1>5, <1>6, <1>7, <1>9, OneTalk

(* A prompt says only what its chat says. *)
LEMMA PromptUttered ==
  ASSUME NEW c, NEW said, NEW p, PlanOK(c, said, p), NEW m \in Said(p.prompt)
  PROVE  Uttered(c, said, m)
BY DEF PlanOK, Of, Said

(* A request of chat c moves on in its conversation, which it may tell its *)
(* prompt.                                                                 *)
LEMMA MovesIsolated ==
  ASSUME Arrays, Isolated, NEW c \in Chats, Busy(c), Busy(c)',
         UNCHANGED <<issued, style, log, branches, req, lookups, opened>>,
         Narrowed(store', store), DOMAIN store' = Maps, DOMAIN records' \subseteq Ids,
         known' = [id \in Ids |-> known'[id]],
         \A id \in Ids : \A m \in known'[id] :
           m \in known[id] \/ (id = plan[c].id /\ m \in plan[c].prompt),
         plan' = [d \in Chats |-> plan'[d]],
         DOMAIN plan'[c] = DOMAIN NoPlan, plan'[c].id = plan[c].id,
         PlanOK(c, Sayable(c), plan'[c]),
         \A d \in Chats \ {c} : plan'[d] = plan[d] /\ pc'[d] = pc[d] /\ outcome'[d] = outcome[d],
         pc'[c] \in {"tools", "repair"} => UsesBridge(req[c]),
         pc'[c] = "remember" /\ outcome'[c].calls # <<>> => UsesBridge(req[c])
  PROVE  Isolated'
<1> USE DEF Isolated
<1>1. Shape'
  BY DEF Shape
<1>2. Talk(c)'
  <2>1. /\ Talk(c) /\ pc[c] # "idle" /\ pc'[c] # "plan"
        /\ log'[c] = log[c] /\ branches'[c] = branches[c] /\ req'[c] = req[c]
        /\ plan'[c].id \in Ids /\ opened'[c] \in Ids
    BY DEF Talk, Busy
  <2> QED
    BY <2>1, TalkMoves
<1>3. \A d \in Chats \ {c} : SameTalk(d)
  BY DEF SameTalk
<1>4. ASSUME NEW x \in Ids, NEW d \in Chats, Holds(d, x) PROVE Holds(d, x)'
  <2>1. Sayable(d) \subseteq Sayable(d)'
    BY SayableSame
  <2>2. StoreFor(d, Sayable(d), x, store')
    BY <1>4, NarrowedFor DEF Holds
  <2>3. ASSUME NEW m \in Said(known'[x]) PROVE Uttered(d, Sayable(d), m)
    <3>1. CASE m \in known[x]
      BY <1>4, <2>3, <3>1 DEF Holds, Said
    <3>2. CASE x = plan[c].id /\ m \in plan[c].prompt
      <4>1. d = c
        BY <1>4, <3>2 DEF Holds
      <4>2. PlanOK(c, Sayable(c), plan[c])
        BY DEF Talk
      <4> QED
        BY <2>3, <3>2, <4>1, <4>2, PromptUttered DEF Said
    <3> QED
      BY <2>3, <3>1, <3>2 DEF Said
  <2>4. \A e \in Chats : plan'[e].id = plan[e].id
    OBVIOUS
  <2>5. \A e \in Chats : x \in {plan'[e].id, opened'[e]} => e = d
    BY <1>4, <2>4 DEF Holds
  <2> QED
    BY <2>1, <2>2, <2>3, <2>5, HoldsKept
<1>5. Apart'
  BY <1>4, ApartKept
<1> QED
  BY <1>1, <1>2, <1>3, <1>5, OneTalk

(* It takes a new conversation. *)
LEMMA FreshIsolated ==
  ASSUME Arrays, Isolated, NEW c \in Chats, pc[c] # "idle", Busy(c)',
         UNCHANGED <<style, log, branches, req, lookups, known, outcome, records>>,
         issued < MaxIds, issued' = issued + 1,
         Narrowed(store', store), DOMAIN store' = Maps,
         plan' = [d \in Chats |-> plan'[d]], opened' = [d \in Chats |-> opened'[d]],
         DOMAIN plan'[c] = DOMAIN NoPlan, plan'[c].id = issued + 1,
         opened'[c] \in {opened[c], issued + 1}, opened'[c] \in Ids,
         PlanOK(c, Sayable(c), plan'[c]),
         \A d \in Chats \ {c} : plan'[d] = plan[d] /\ opened'[d] = opened[d] /\ pc'[d] = pc[d],
         pc'[c] \notin {"tools", "repair", "remember"}
  PROVE  Isolated'
<1> USE DEF Isolated
<1>1. Shape' /\ issued + 1 \in Ids
  BY BoundsAssumption DEF Shape, Ids
<1>2. Talk(c)'
  <2>1. /\ Talk(c) /\ pc'[c] # "plan" /\ log'[c] = log[c] /\ branches'[c] = branches[c]
        /\ req'[c] = req[c] /\ plan'[c].id \in Ids
    BY <1>1 DEF Busy
  <2> QED
    BY <2>1, TalkMoves
<1>3. \A d \in Chats \ {c} : SameTalk(d)
  BY DEF SameTalk
<1>4. ASSUME NEW x \in Ids, NEW d \in Chats, Holds(d, x), x = issued + 1 => d = c
      PROVE  Holds(d, x)'
  <2>1. Sayable(d) \subseteq Sayable(d)'
    BY SayableSame
  <2>2. StoreFor(d, Sayable(d), x, store')
    BY <1>4, NarrowedFor DEF Holds
  <2>3. \A m \in Said(known'[x]) : Uttered(d, Sayable(d), m)
    BY <1>4 DEF Holds
  <2>4. ASSUME NEW e \in Chats, x \in {plan'[e].id, opened'[e]} PROVE e = d
    <3>1. x \in {plan[e].id, opened[e]} => e = d
      BY <1>4 DEF Holds
    <3> QED
      BY <1>4, <2>4, <3>1
  <2> QED
    BY <2>1, <2>2, <2>3, <2>4, HoldsKept
<1>5. ASSUME NEW x \in Ids
      PROVE  IF x <= issued' THEN \E d \in Chats : Holds(d, x)'
             ELSE \A d \in Chats : Holds(d, x)'
  <2>1. x \in Int /\ issued \in Int
    BY BoundsAssumption DEF Ids, Shape
  <2>2. CASE x <= issued
    <3>1. PICK d \in Chats : Holds(d, x)
      BY <2>2 DEF Apart
    <3> QED
      BY <1>4, <2>1, <2>2, <3>1
  <2>3. CASE x = issued + 1
    BY <1>4, <2>1, <2>3 DEF Apart
  <2>4. CASE x > issued + 1
    BY <1>4, <2>1, <2>4 DEF Apart
  <2> QED
    BY <2>1, <2>2, <2>3, <2>4
<1>6. Apart'
  BY <1>5 DEF Apart
<1> QED
  BY <1>1, <1>2, <1>3, <1>6, OneTalk

(* A new id belongs to nobody yet. *)
LEMMA PlanNewIsolated ==
  ASSUME Arrays, Isolated, NEW c \in Chats, PlanNew(c)
  PROVE  Isolated'
<1> DEFINE ms == req[c].messages
           auto == style[c].explicit /\ ~IsToolResult(ms) /\ ~Continues(ms)
           new == Planned(c, issued + 1, auto)
<1>1. /\ pc[c] = "plan" /\ issued < MaxIds /\ issued' = issued + 1
      /\ plan' = [plan EXCEPT ![c] = new] /\ opened' = [opened EXCEPT ![c] = issued + 1]
      /\ Goto(c, "prompt")
      /\ UNCHANGED <<store, records, style, log, branches, req, lookups, known, outcome>>
  BY DEF PlanNew, provider, client, progress, upstream
<1>2. PlanOK(c, Sayable(c), new) /\ new.id = issued + 1 /\ DOMAIN new = DOMAIN NoPlan
  <2>1. new.id = issued + 1 /\ DOMAIN new = DOMAIN NoPlan
    BY DEF Planned, NoPlan
  <2>2. MessagesOK(c, Sayable(c), ms)
    BY <1>1 DEF Isolated, Talk
  <2> QED
    BY <2>1, <2>2, PlannedFits
<1> HIDE DEF new
<1>3. pc'[c] = "prompt" /\ Busy(c)' /\ plan'[c] = new /\ opened'[c] = issued + 1
  BY <1>1 DEF Goto, Arrays, Isolated, Shape, Busy
<1>4. /\ plan' = [d \in Chats |-> plan'[d]] /\ opened' = [d \in Chats |-> opened'[d]]
      /\ \A d \in Chats \ {c} :
           plan'[d] = plan[d] /\ opened'[d] = opened[d] /\ pc'[d] = pc[d]
  BY <1>1 DEF Goto, Arrays, Isolated, Shape
<1>5. issued + 1 \in Ids /\ DOMAIN store' = Maps
  BY <1>1, BoundsAssumption DEF Ids, Isolated, Shape
<1>6. Narrowed(store', store)
  BY <1>1, WithinSelf DEF Narrowed
<1>7. pc[c] # "idle"
  BY <1>1
<1> QED
  BY <1>1, <1>2, <1>3, <1>4, <1>5, <1>6, <1>7, FreshIsolated

LEMMA ForgetIsolated ==
  ASSUME Arrays, Isolated, NEW c \in Chats, Forget(c)
  PROVE  Isolated'
<1>1. /\ pc[c] = "forget" /\ issued < MaxIds /\ issued' = issued + 1
      /\ store' = Forgotten(store, plan[c].id)
      /\ plan' = [plan EXCEPT ![c].id = issued + 1, ![c].auto = FALSE, ![c].light = FALSE]
      /\ Goto(c, "send")
      /\ UNCHANGED <<records, style, log, branches, req, lookups, opened, known, outcome>>
  BY DEF Forget, provider, upstream
<1>2. DOMAIN plan[c] = DOMAIN NoPlan /\ PlanOK(c, Sayable(c), plan[c]) /\ opened[c] \in Ids
  BY <1>1 DEF Isolated, Talk, Busy
<1>3. /\ DOMAIN plan'[c] = DOMAIN NoPlan /\ plan'[c].id = issued + 1
      /\ plan'[c].prompt = plan[c].prompt /\ plan'[c].main = plan[c].main
      /\ plan'[c].client = plan[c].client
  BY <1>1, <1>2 DEF Isolated, Shape, NoPlan
<1>4. PlanOK(c, Sayable(c), plan'[c])
  BY <1>2, <1>3 DEF PlanOK
<1>5. pc'[c] = "send" /\ Busy(c)'
  BY <1>1 DEF Goto, Arrays, Busy
<1>6. /\ plan' = [d \in Chats |-> plan'[d]] /\ opened' = [d \in Chats |-> opened'[d]]
      /\ \A d \in Chats \ {c} :
           plan'[d] = plan[d] /\ opened'[d] = opened[d] /\ pc'[d] = pc[d]
  BY <1>1 DEF Goto, Arrays, Isolated, Shape
<1>7. Narrowed(store', store) /\ DOMAIN store' = Maps
  BY <1>1, ForgottenNarrows
<1>8. pc[c] # "idle"
  BY <1>1
<1>9. opened'[c] = opened[c]
  BY <1>1
<1> QED
  BY <1>1, <1>2, <1>3, <1>4, <1>5, <1>6, <1>7, <1>8, <1>9, FreshIsolated

(* Steps that leave the plan as it is, but for its light field. *)
LEMMA PlainIsolated ==
  ASSUME Arrays, Isolated, NEW c \in Chats, Busy(c),
         UNCHANGED <<issued, style, log, branches, req, lookups, opened>>,
         Narrowed(store', store), DOMAIN store' = Maps, DOMAIN records' \subseteq Ids,
         known' = [id \in Ids |-> known'[id]],
         \A id \in Ids : \A m \in known'[id] :
           m \in known[id] \/ (id = plan[c].id /\ m \in plan[c].prompt),
         plan' = plan \/ \E light : plan' = [plan EXCEPT ![c].light = light],
         NEW label, label \notin {"idle", "plan"}, Goto(c, label),
         \A d \in Chats \ {c} : outcome'[d] = outcome[d],
         label \in {"tools", "repair"} => UsesBridge(req[c]),
         label = "remember" /\ outcome'[c].calls # <<>> => UsesBridge(req[c])
  PROVE  Isolated'
<1>1. DOMAIN plan[c] = DOMAIN NoPlan /\ PlanOK(c, Sayable(c), plan[c])
  BY DEF Isolated, Talk
<1>2. /\ DOMAIN plan'[c] = DOMAIN NoPlan /\ plan'[c].id = plan[c].id
      /\ plan'[c].prompt = plan[c].prompt /\ plan'[c].main = plan[c].main
      /\ plan'[c].client = plan[c].client
  BY <1>1 DEF Isolated, Shape, NoPlan
<1>3. PlanOK(c, Sayable(c), plan'[c])
  BY <1>1, <1>2 DEF PlanOK
<1>4. pc'[c] = label /\ Busy(c)'
  BY DEF Goto, Arrays, Busy
<1>5. /\ plan' = [d \in Chats |-> plan'[d]]
      /\ \A d \in Chats \ {c} : plan'[d] = plan[d] /\ pc'[d] = pc[d]
  BY DEF Goto, Arrays, Isolated, Shape
<1> QED
  BY <1>2, <1>3, <1>4, <1>5, MovesIsolated

(* The steps that tell no conversation anything. *)
LEMMA SameKnown ==
  ASSUME Isolated, UNCHANGED known
  PROVE  /\ known' = [id \in Ids |-> known'[id]]
         /\ \A id \in Ids : known'[id] \subseteq known[id]
BY DEF Isolated, Shape

LEMMA SameStore ==
  ASSUME Isolated, UNCHANGED store
  PROVE  Narrowed(store', store) /\ DOMAIN store' = Maps
BY WithinSelf DEF Isolated, Shape, Narrowed

LEMMA BuildPromptIsolated ==
  ASSUME Arrays, Isolated, NEW c \in Chats, BuildPrompt(c)
  PROVE  Isolated'
<1>1. /\ Busy(c) /\ Goto(c, "send")
      /\ UNCHANGED <<store, records, issued, style, log, branches, req, lookups, opened, outcome, known>>
      /\ \E light : plan' = [plan EXCEPT ![c].light = light]
  BY DEF BuildPrompt, Busy, provider, client, progress, upstream
<1>2. DOMAIN records' \subseteq Ids
  BY <1>1 DEF Isolated, Shape
<1> QED
  BY <1>1, <1>2, SameKnown, SameStore, PlainIsolated

LEMMA SendIsolated ==
  ASSUME Arrays, Isolated, NEW c \in Chats, Send(c)
  PROVE  Isolated'
<1>1. /\ Busy(c) /\ Goto(c, "wait") /\ known' = Continued(known, plan[c].id, plan[c].prompt)
      /\ UNCHANGED <<store, records, issued, style, log, branches, req, lookups, plan, opened, outcome>>
  BY DEF Send, Busy, provider, client, request, progress
<1>2. known' = [id \in Ids |-> known'[id]]
  BY <1>1 DEF Isolated, Shape, Continued
<1>3. \A id \in Ids : \A m \in known'[id] :
        m \in known[id] \/ (id = plan[c].id /\ m \in plan[c].prompt)
  BY <1>1 DEF Isolated, Shape, Continued
<1>4. DOMAIN records' \subseteq Ids
  BY <1>1 DEF Isolated, Shape
<1> QED
  BY <1>1, <1>2, <1>3, <1>4, SameStore, PlainIsolated

LEMMA EmitIsolated ==
  ASSUME Arrays, Isolated, NEW c \in Chats, Emit(c)
  PROVE  Isolated'
<1>1. /\ pc[c] = "wait" /\ UNCHANGED <<store, records, issued, style, log, branches, pc, req, lookups,
                                       plan, opened, outcome, known>>
  BY DEF Emit, provider, client, request, upstream
<1>2. Busy(c) /\ Goto(c, "wait")
  BY <1>1 DEF Busy, Goto, Arrays
<1>3. DOMAIN records' \subseteq Ids
  BY <1>1 DEF Isolated, Shape
<1> QED
  BY <1>1, <1>2, <1>3, SameKnown, SameStore, PlainIsolated

LEMMA AnsweredIsolated ==
  ASSUME Arrays, Isolated, NEW c \in Chats, NEW answer, Answered(c, answer),
         DOMAIN records' \subseteq Ids,
         known' = [id \in Ids |-> known'[id]],
         \A id \in Ids : \A m \in known'[id] :
           m \in known[id] \/ (id = plan[c].id /\ m \in plan[c].prompt)
  PROVE  Isolated'
<1> DEFINE label == IF UsesBridge(req[c]) THEN "tools" ELSE "remember"
<1>1. /\ Busy(c) /\ Goto(c, label)
      /\ UNCHANGED <<store, issued, style, log, branches, req, lookups, plan, opened>>
  BY DEF Answered, Busy, client, request
<1>2. /\ \A d \in Chats \ {c} : outcome'[d] = outcome[d]
      /\ label = "remember" => outcome'[c].calls = <<>>
  BY DEF Answered, Arrays, Message
<1> QED
  BY <1>1, <1>2, SameStore, PlainIsolated

LEMMA AnswerIsolated ==
  ASSUME Arrays, Isolated, NEW c \in Chats, Answer(c) \/ AnswerElsewhere(c)
  PROVE  Isolated'
<1>1. PICK answer : Answered(c, answer)
  BY DEF Answer, AnswerElsewhere
<1>2. PICK flagged : Updated(plan[c].id, flagged)
  BY DEF Answer, AnswerElsewhere
<1>3. plan[c].id \in Ids
  BY <1>1 DEF Answered, Isolated, Talk, Busy
<1>4. DOMAIN records' \subseteq Ids
  BY <1>2, <1>3, UpdatedRecords DEF Isolated, Shape
<1>5. CASE Answer(c)
  BY <1>1, <1>4, <1>5, SameKnown, AnsweredIsolated DEF Answer, upstream
<1>6. CASE AnswerElsewhere(c)
  <2>1. known' = [known EXCEPT ![plan[c].id] = plan[c].prompt]
    BY <1>6 DEF AnswerElsewhere
  <2>2. known' = [id \in Ids |-> known'[id]]
    BY <2>1 DEF Isolated, Shape
  <2>3. \A id \in Ids : \A m \in known'[id] :
          m \in known[id] \/ (id = plan[c].id /\ m \in plan[c].prompt)
    BY <2>1 DEF Isolated, Shape
  <2> QED
    BY <1>1, <1>4, <2>2, <2>3, AnsweredIsolated
<1> QED
  BY <1>5, <1>6

LEMMA FailIsolated ==
  ASSUME Arrays, Isolated, NEW c \in Chats, Fail(c)
  PROVE  Isolated'
<1>1. Over(c) /\ UNCHANGED <<store, records, issued, style, log, branches, known>>
  BY DEF Fail, provider, client, upstream
<1>2. DOMAIN records' \subseteq Ids
  BY <1>1 DEF Isolated, Shape
<1> QED
  BY <1>1, <1>2, SameKnown, OverIsolated

LEMMA RejectIsolated ==
  ASSUME Arrays, Isolated, NEW c \in Chats, Reject(c)
  PROVE  Isolated'
<1>1. /\ pc[c] = "wait" /\ UNCHANGED <<store, records, issued, style, log, branches, known>>
      /\ \/ Goto(c, "recover") /\ UNCHANGED <<req, lookups, plan, opened, outcome>>
         \/ Over(c)
  BY DEF Reject, client, upstream, request, progress
<1>2. DOMAIN records' \subseteq Ids
  BY <1>1 DEF Isolated, Shape
<1>3. CASE Over(c)
  BY <1>1, <1>2, <1>3, SameKnown, OverIsolated
<1>4. CASE Goto(c, "recover") /\ UNCHANGED <<req, lookups, plan, opened, outcome>>
  BY <1>1, <1>2, <1>4, SameKnown, SameStore, PlainIsolated DEF Busy
<1> QED
  BY <1>1, <1>3, <1>4

(* A migration retells what was retained for the conversation it leaves. *)
LEMMA RecoverIsolated ==
  ASSUME Arrays, Isolated, NEW c \in Chats, Recover(c)
  PROVE  Isolated'
<1> USE DEF Isolated
<1>1. PICK pruned \in Pruned(store, clock) :
        /\ store' = pruned
        /\ plan' = [plan EXCEPT
             ![c].main = Merged(Retained(pruned, plan[c].id), req[c].messages),
             ![c].prompt = Range(Merged(Retained(pruned, plan[c].id), req[c].messages))]
  BY DEF Recover
<1> DEFINE base == Retained(pruned, plan[c].id)
           ms == Merged(base, req[c].messages)
<1>2. /\ pc[c] = "recover" /\ Goto(c, "forget")
      /\ UNCHANGED <<records, issued, style, log, branches, req, lookups, opened, outcome, known>>
  BY DEF Recover, provider, client, progress, upstream
<1>3. Narrowed(store', store) /\ DOMAIN store' = Maps
  BY <1>1, PrunedNarrows
<1>4. /\ plan[c].id \in Ids /\ DOMAIN plan[c] = DOMAIN NoPlan /\ PlanOK(c, Sayable(c), plan[c])
      /\ MessagesOK(c, Sayable(c), req[c].messages)
  BY <1>2 DEF Talk, Busy
<1>5. PICK d \in Chats : Holds(d, plan[c].id)
  BY <1>4 DEF Apart
<1>6. d = c
  BY <1>5 DEF Holds
<1>7. AllOf(c, Sayable(c), base)
  <2>1. StoreFor(c, Sayable(c), plan[c].id, pruned)
    BY <1>1, <1>3, <1>5, <1>6, NarrowedFor DEF Holds
  <2> QED
    BY <2>1, NoneOf DEF Retained, StoreFor
<1>8. AllOf(c, Sayable(c), ms) /\ Ends(c, ms)
  BY <1>4, <1>7, MergedEnds DEF MessagesOK, Ends
<1> HIDE DEF base, ms
<1>9. /\ DOMAIN plan'[c] = DOMAIN NoPlan /\ plan'[c].id = plan[c].id
      /\ plan'[c].main = ms /\ plan'[c].prompt = Range(ms) /\ plan'[c].client = plan[c].client
  BY <1>1, <1>4 DEF Shape, NoPlan, ms, base
<1>10. PlanOK(c, Sayable(c), plan'[c])
  <2>1. \A m \in Range(ms) : Of(c, Sayable(c), m)
    BY <1>8, SeqShape DEF AllOf, Range
  <2> QED
    BY <1>4, <1>8, <1>9, <2>1 DEF PlanOK
<1>11. /\ plan' = [e \in Chats |-> plan'[e]]
       /\ \A e \in Chats \ {c} : plan'[e] = plan[e] /\ pc'[e] = pc[e]
  BY <1>1, <1>2 DEF Goto, Arrays, Shape
<1>12. Busy(c) /\ Busy(c)' /\ pc'[c] = "forget"
  BY <1>2 DEF Busy, Goto, Arrays
<1>13. DOMAIN records' \subseteq Ids
  BY <1>2 DEF Shape
<1> HIDE DEF Isolated
<1> QED
  BY <1>2, <1>3, <1>9, <1>10, <1>11, <1>12, <1>13, SameKnown, MovesIsolated

LEMMA ReadIsolated ==
  ASSUME Arrays, Isolated, NEW c \in Chats, ReadAnswer(c)
  PROVE  Isolated'
<1>1. /\ pc[c] = "tools" /\ \E label \in {"repair", "remember"} : Goto(c, label)
      /\ store' = ToolsRemembered(store, plan[c].id, req[c].tools, clock)
      /\ UNCHANGED <<records, issued, style, log, branches, req, lookups, plan, opened, known>>
  BY DEF ReadAnswer, provider, client, request, upstream
<1>2. \A d \in Chats \ {c} : outcome'[d] = outcome[d]
  BY DEF ReadAnswer, Arrays
<1>3. Narrowed(store', store) /\ DOMAIN store' = Maps
  BY <1>1, ToolsNarrows DEF Isolated, Shape
<1>4. Busy(c) /\ UsesBridge(req[c])
  BY <1>1 DEF Isolated, Talk, Busy
<1>5. DOMAIN records' \subseteq Ids
  BY <1>1 DEF Isolated, Shape
<1> QED
  BY <1>1, <1>2, <1>3, <1>4, <1>5, SameKnown, PlainIsolated

LEMMA SettledIsolated ==
  ASSUME Arrays, Isolated, NEW c \in Chats, pc[c] = "repair", NEW result, Settled(c, result),
         UNCHANGED <<store, issued, style, log, branches>>,
         DOMAIN records' \subseteq Ids,
         known' = [id \in Ids |-> known'[id]],
         \A id \in Ids : known'[id] \subseteq known[id]
  PROVE  Isolated'
<1>1. CASE ~result.ok
  BY <1>1, OverIsolated DEF Settled
<1>2. CASE result.ok
  <2>1. Goto(c, "remember") /\ UNCHANGED <<req, lookups, plan, opened>>
    BY <1>2 DEF Settled, request
  <2>2. \A d \in Chats \ {c} : outcome'[d] = outcome[d]
    BY <1>2 DEF Settled, Arrays
  <2>3. Busy(c) /\ UsesBridge(req[c])
    BY DEF Isolated, Talk, Busy
  <2>4. \A id \in Ids : \A m \in known'[id] : m \in known[id]
    OBVIOUS
  <2> QED
    BY <2>1, <2>2, <2>3, <2>4, SameStore, PlainIsolated
<1> QED
  BY <1>1, <1>2

LEMMA RepairIsolated ==
  ASSUME Arrays, Isolated, NEW c \in Chats, Repair(c) \/ RepairFails(c)
  PROVE  Isolated'
<1>1. PICK result : Settled(c, result)
  BY DEF Repair, RepairFails
<1>2. pc[c] = "repair" /\ UNCHANGED <<store, issued, style, log, branches>>
  BY DEF Repair, RepairFails, client
<1>3. CASE Repair(c)
  <2>1. opened[c] \in Ids
    BY <1>2 DEF Isolated, Talk, Busy
  <2>2. DOMAIN records' \subseteq Ids
    BY <1>3, <2>1, UpdatedRecords DEF Repair, Isolated, Shape
  <2>3. known' = Continued(known, opened[c], {})
    BY <1>3 DEF Repair
  <2>4. /\ known' = [id \in Ids |-> known'[id]]
        /\ \A id \in Ids : known'[id] \subseteq known[id]
    BY <2>3 DEF Continued, Isolated, Shape
  <2> QED
    BY <1>1, <1>2, <2>2, <2>4, SettledIsolated
<1>4. CASE RepairFails(c)
  <2>1. UNCHANGED <<records, known>>
    BY <1>4 DEF RepairFails, provider, upstream
  <2>2. DOMAIN records' \subseteq Ids
    BY <2>1 DEF Isolated, Shape
  <2> QED
    BY <1>1, <1>2, <2>1, <2>2, SameKnown, SettledIsolated
<1> QED
  BY <1>3, <1>4

(* A finished turn files its conversation under keys of its chat alone. *)
LEMMA RememberIsolated ==
  ASSUME Arrays, Isolated, NEW c \in Chats, Remember(c)
  PROVE  Isolated'
<1> DEFINE said == Sayable(c)
           new == NewMessage(c)
           reply == Reply(c)
           chat == log[c] \o <<new, reply>>
           n == Len(log[c])
           ms == req[c].messages
<1> USE DEF Isolated
<1>1. /\ pc[c] = "remember" /\ log' = [log EXCEPT ![c] = chat] /\ Over(c)
      /\ UNCHANGED <<records, issued, style, branches, known>>
  BY DEF Remember, provider, upstream
<1>2. /\ AllOf(c, said, log[c]) /\ Paired(log[c]) /\ branches[c] \in Nat
      /\ MessagesOK(c, said, ms) /\ ms[Len(ms)] = new
      /\ PlanOK(c, said, plan[c]) /\ plan[c].id \in Ids
      /\ outcome[c].calls # <<>> => UsesBridge(req[c])
  BY <1>1 DEF Talk, Busy
<1>3. /\ Mine(c, new) /\ Of(c, said, new) /\ Of(c, said, reply)
      /\ reply.role = "calls" => new.role = "user"
      /\ reply.role \in {"assistant", "calls"}
  <2>1. reply.role = IF outcome[c].calls # <<>> THEN "calls" ELSE "assistant"
    BY DEF Reply
  <2>2. UsesBridge(req[c]) => new.role = "user"
    BY <1>2 DEF UsesBridge, Last
  <2> QED
    BY <1>1, <1>2, <2>1, <2>2, NewMine, UsersCount DEF Of, Talk, AllOf
<1> HIDE DEF new, reply
<1>4. /\ AllOf(c, said, chat) /\ Len(chat) = n + 2 /\ n \in Nat
      /\ \A i \in 1..n : chat[i] = log[c][i]
      /\ chat[n + 1] = new /\ chat[n + 2] = reply
  <2> DEFINE two == <<new, reply>>
  <2>1. two \in Seq({new, reply}) /\ Len(two) = 2 /\ two[1] = new /\ two[2] = reply
    OBVIOUS
  <2> HIDE DEF two
  <2>2. IsSeq(two)
    BY <2>1, SeqOfRange DEF IsSeq
  <2>3. AllOf(c, said, two)
    BY <1>3, <2>1, <2>2 DEF AllOf
  <2>4. n \in Nat
    BY <1>2, SeqShape DEF AllOf
  <2>5. /\ AllOf(c, said, log[c] \o two) /\ Len(log[c] \o two) = n + 2
        /\ \A i \in 1..(n + 2) : (log[c] \o two)[i] = IF i <= n THEN log[c][i] ELSE two[i - n]
    <3>1. Len(log[c]) + Len(two) = n + 2
      BY <2>1
    <3>2. /\ AllOf(c, said, log[c] \o two)
          /\ Len(log[c] \o two) = Len(log[c]) + Len(two)
          /\ \A i \in 1..Len(log[c]) + Len(two) :
               (log[c] \o two)[i] = IF i <= Len(log[c]) THEN log[c][i] ELSE two[i - Len(log[c])]
      BY <1>2, <2>3, JoinAll
    <3> QED
      BY <3>1, <3>2
  <2> QED
    BY <2>1, <2>4, <2>5 DEF two
<1> HIDE DEF chat
<1>5. log'[c] = chat /\ branches'[c] = branches[c]
  BY <1>1 DEF Shape
<1>6. said \subseteq Sayable(c)'
  <2>1. DOMAIN chat = 1..(n + 2) /\ DOMAIN log[c] = 1..n
    BY <1>2, <1>4, SeqShape DEF AllOf
  <2>2. Range(log[c]) \cup {new} \subseteq Range(chat)
    <3>1. new \in Range(chat)
      BY <1>4, <2>1 DEF Range
    <3>2. ASSUME NEW i \in 1..n PROVE log[c][i] \in Range(chat)
      BY <1>4, <2>1 DEF Range
    <3> QED
      BY <2>1, <3>1, <3>2 DEF Range
  <2>3. new \in Said({new})
    BY <1>3 DEF Said, Mine
  <2> QED
    BY <1>5, <2>2, <2>3 DEF Sayable, Said, new
<1>7. Paired(chat)
  <2> SUFFICES ASSUME NEW i \in 1..(n + 2), chat[i].role = "calls"
               PROVE  i > 1 /\ chat[i - 1].role = "user"
    BY <1>4 DEF Paired
  <2>1. CASE i \in 1..n
    <3>1. i > 1 /\ log[c][i - 1].role = "user"
      BY <1>2, <1>4, <2>1 DEF Paired
    <3> QED
      BY <1>4, <2>1, <3>1
  <2>2. CASE i = n + 1
    BY <1>3, <1>4, <2>2 DEF Mine
  <2>3. CASE i = n + 2
    BY <1>3, <1>4, <2>3
  <2> QED
    BY <1>4, <2>1, <2>2, <2>3
<1>8. Talk(c)'
  <2>1. AllOf(c, Sayable(c)', chat)
    BY <1>4, <1>6, AllGrows
  <2>2. pc'[c] = "idle" /\ plan'[c] = NoPlan
    BY <1>1 DEF Over, Goto, Arrays, Shape
  <2> QED
    BY <1>1, <1>2, <1>5, <1>7, <2>1, <2>2 DEF Talk, Busy
<1>9. Narrowed(store', store) \/ \E pruned \in Pruned(store, clock) : \E turn :
        /\ store' = Remembered(pruned, turn, clock)
        /\ turn.id = plan[c].id /\ turn.client = plan[c].client /\ turn.main = plan[c].main
        /\ turn.reply.role = "assistant"
  <2>1. CASE plan[c].id \in DOMAIN records /\ Recorded(c) # NoText
    <3> DEFINE turn == [id |-> plan[c].id, client |-> plan[c].client, main |-> plan[c].main,
                        reply |-> [role |-> "assistant", text |-> Recorded(c)]]
    <3>1. PICK pruned \in Pruned(store, clock) : store' = Remembered(pruned, turn, clock)
      BY <2>1 DEF Remember
    <3>2. /\ turn.id = plan[c].id /\ turn.client = plan[c].client /\ turn.main = plan[c].main
          /\ turn.reply.role = "assistant"
      OBVIOUS
    <3> QED
      BY <3>1, <3>2
  <2>2. CASE ~(plan[c].id \in DOMAIN records /\ Recorded(c) # NoText)
    BY <2>2, SameStore DEF Remember
  <2> QED
    BY <2>1, <2>2
<1>10. DOMAIN store' = Maps
  <2>1. CASE plan[c].id \in DOMAIN records /\ Recorded(c) # NoText
    <3>1. PICK pruned \in Pruned(store, clock) :
            \E turn : store' = Remembered(pruned, turn, clock)
      BY <2>1 DEF Remember
    <3> QED
      BY <3>1, PrunedNarrows DEF Remembered
  <2>2. CASE ~(plan[c].id \in DOMAIN records /\ Recorded(c) # NoText)
    BY <2>2, SameStore DEF Remember
  <2> QED
    BY <2>1, <2>2
<1>11. Shape'
  BY <1>1, <1>10 DEF Shape, Over
<1>12. \A d \in Chats \ {c} : SameTalk(d)
  BY <1>1 DEF SameTalk, Over, Goto, Arrays, Shape
<1>13. ASSUME NEW x \in Ids, NEW d \in Chats, Holds(d, x) PROVE Holds(d, x)'
  <2>1. MaxBranches = 0 => Sayable(d) \subseteq Sayable(d)'
    BY <1>1, <1>6, SayableSame, <1>12 DEF SameTalk
  <2>2. StoreFor(d, Sayable(d), x, store')
    <3>1. CASE Narrowed(store', store)
      BY <1>13, <3>1, NarrowedFor DEF Holds
    <3>2. CASE ~Narrowed(store', store)
      <4>0. PICK pruned \in Pruned(store, clock) : \E turn :
              /\ store' = Remembered(pruned, turn, clock)
              /\ turn.id = plan[c].id /\ turn.client = plan[c].client /\ turn.main = plan[c].main
              /\ turn.reply.role = "assistant"
        BY <1>9, <3>2
      <4>1. PICK turn :
              /\ store' = Remembered(pruned, turn, clock)
              /\ turn.id = plan[c].id /\ turn.client = plan[c].client /\ turn.main = plan[c].main
              /\ turn.reply.role = "assistant"
        BY <4>0
      <4>2. StoreFor(d, Sayable(d), x, pruned) /\ DOMAIN pruned = Maps
        BY <1>13, PrunedNarrows, NarrowedFor DEF Holds
      <4>3. CASE x # plan[c].id
        BY <4>1, <4>2, <4>3, RememberedOther
      <4>4. CASE x = plan[c].id
        <5>1. d = c
          BY <1>13, <4>4 DEF Holds
        <5> QED
          BY <1>2, <4>1, <4>2, <4>4, <5>1, RememberedFor DEF PlanOK
      <4> QED
        BY <4>3, <4>4
    <3> QED
      BY <3>1, <3>2
  <2>3. \A m \in Said(known'[x]) : Uttered(d, Sayable(d), m)
    BY <1>1, <1>13 DEF Holds
  <2>4. \A e \in Chats : plan'[e].id \in {plan[e].id, NoId} /\ opened'[e] \in {opened[e], NoId}
    BY <1>1 DEF Over, Shape, NoPlan
  <2>5. \A e \in Chats : x \in {plan'[e].id, opened'[e]} => e = d
    BY <1>13, <2>4, IdsAssumption DEF Holds
  <2> QED
    BY <2>1, <2>2, <2>3, <2>5, HoldsKept
<1>14. Apart'
  BY <1>1, <1>13, ApartKept
<1> QED
  BY <1>8, <1>11, <1>12, <1>14, OneTalk

(* A client that goes back unsays messages; it may only where the bound    *)
(* allows.                                                                 *)
LEMMA BranchIsolated ==
  ASSUME Arrays, Isolated, NEW c \in Chats, Branch(c)
  PROVE  Isolated'
<1> USE DEF Isolated
<1>1. PICK i \in DOMAIN log[c] : log' = [log EXCEPT ![c] = SubSeq(log[c], 1, i - 1)]
  BY DEF Branch
<1> DEFINE kept == SubSeq(log[c], 1, i - 1)
<1>2. /\ pc[c] = "idle" /\ branches[c] < MaxBranches
      /\ branches' = [branches EXCEPT ![c] = @ + 1]
      /\ UNCHANGED <<store, records, issued, style, pc, req, lookups, plan, opened, outcome, known>>
  BY DEF Branch, provider, request, progress, upstream
<1>3. AllOf(c, Sayable(c), log[c]) /\ Paired(log[c]) /\ branches[c] \in Nat
  BY DEF Talk
<1>4. MaxBranches # 0
  BY <1>2, <1>3
<1>5. AllOf(c, Sayable(c), kept) /\ Paired(kept)
  <2>1. i \in 1..Len(log[c]) /\ Len(log[c]) \in Nat
    BY <1>3, SeqShape DEF AllOf
  <2>2. /\ AllOf(c, Sayable(c), kept) /\ Len(kept) = i - 1
        /\ \A k \in 1..(i - 1) : kept[k] = log[c][1 + k - 1]
    BY <1>3, <2>1, SubAll
  <2> HIDE DEF kept
  <2>3. \A k \in 1..(i - 1) : kept[k] = log[c][k]
    BY <2>2
  <2>4. Paired(kept)
    BY <1>3, <2>1, <2>2, <2>3 DEF Paired
  <2> QED
    BY <2>2, <2>4
<1> HIDE DEF kept
<1>6. log'[c] = kept /\ branches'[c] = branches[c] + 1
  BY <1>1, <1>2 DEF Shape, kept
<1>7. Shape'
  BY <1>1, <1>2 DEF Shape
<1>8. Talk(c)'
  <2>1. AllOf(c, Sayable(c)', kept)
    BY <1>4, <1>5, AllGrows
  <2>2. pc'[c] = "idle" /\ DOMAIN plan'[c] = DOMAIN NoPlan
    BY <1>2 DEF Talk
  <2> QED
    BY <1>2, <1>3, <1>5, <1>6, <2>1, <2>2 DEF Talk, Busy
<1>9. \A d \in Chats \ {c} : SameTalk(d)
  BY <1>1, <1>2 DEF SameTalk, Shape
<1>10. ASSUME NEW x \in Ids, NEW d \in Chats, Holds(d, x) PROVE Holds(d, x)'
  BY <1>2, <1>4, <1>10, HoldsKept DEF Holds
<1>11. Apart'
  BY <1>2, <1>10, ApartKept
<1> QED
  BY <1>7, <1>8, <1>9, <1>11, OneTalk

LEMMA StillIsolated ==
  ASSUME Arrays, Isolated,
         UNCHANGED <<store, issued, style, log, branches, pc, req, lookups, plan, opened, outcome, known>>,
         DOMAIN records' \subseteq Ids
  PROVE  Isolated'
<1>1. Shape'
  BY DEF Isolated, Shape
<1>2. \A d \in Chats : SameTalk(d)
  BY DEF SameTalk
<1>3. Apart'
  BY ApartStill DEF Isolated
<1> QED
  BY <1>1, <1>2, <1>3, NoTalk

(* Every step keeps conversations apart. *)
LEMMA IsolatedStep == Inv /\ Isolated /\ [Next]_vars => Isolated'
<1> SUFFICES ASSUME Inv, Isolated, [Next]_vars PROVE Isolated'
  OBVIOUS
<1>1. Arrays
  BY DEF Inv
<1>2. DOMAIN records \subseteq Ids
  BY DEF Isolated, Shape
<1>3. ASSUME NEW c \in Chats, Turn(c) PROVE Isolated'
  <2>1. CASE Ask(c) \/ LookUp(c) \/ PlanNew(c) \/ BuildPrompt(c) \/ Send(c) \/ Emit(c)
    BY <1>1, <2>1, AskIsolated, LookUpIsolated, PlanNewIsolated, BuildPromptIsolated,
       SendIsolated, EmitIsolated
  <2>2. CASE Answer(c) \/ AnswerElsewhere(c) \/ Fail(c) \/ Reject(c) \/ Recover(c) \/ Forget(c)
    BY <1>1, <2>2, AnswerIsolated, FailIsolated, RejectIsolated, RecoverIsolated, ForgetIsolated
  <2>3. CASE ReadAnswer(c) \/ Repair(c) \/ RepairFails(c) \/ Remember(c)
    BY <1>1, <2>3, ReadIsolated, RepairIsolated, RememberIsolated
  <2> QED
    BY <1>3, <2>1, <2>2, <2>3 DEF Turn
<1>4. ASSUME NEW c \in Chats, Branch(c) PROVE Isolated'
  BY <1>1, <1>4, BranchIsolated
<1>5. ASSUME NEW id \in Ids, LoseRecord(id) PROVE Isolated'
  <2>1. DOMAIN records' \subseteq Ids
    BY <1>2, <1>5 DEF LoseRecord, Drop, Restrict
  <2> QED
    BY <1>1, <1>5, <2>1, StillIsolated DEF LoseRecord, client, request, progress, upstream
<1>6. CASE Tick
  BY <1>1, <1>2, <1>6, StillIsolated DEF Tick, provider, client, request, progress, upstream
<1>7. CASE UNCHANGED vars
  BY <1>1, <1>2, <1>7, StillIsolated
     DEF vars, provider, client, request, progress, upstream, bounds
<1> QED
  BY <1>3, <1>4, <1>5, <1>6, <1>7 DEF Next

LEMMA InitIsolated == OwnWords /\ Init => Isolated
<1> SUFFICES ASSUME OwnWords, Init PROVE Isolated
  OBVIOUS
<1>1. Shape
  <2>1. DOMAIN store = Maps /\ DOMAIN records = {}
    BY DEF Init, EmptyStore, Empty, Maps
  <2> QED
    BY <2>1 DEF Init, Shape
<1>2. ASSUME NEW c \in Chats PROVE Talk(c)
  <2>1. log[c] = <<System>> \/ log[c] = <<>>
    BY DEF Init
  <2>2. AllOf(c, Sayable(c), log[c]) /\ Paired(log[c])
    <3>1. CASE log[c] = <<System>>
      <4>1. log[c] \in Seq({System}) /\ Len(log[c]) = 1 /\ log[c][1] = System
        BY <3>1
      <4>2. IsSeq(log[c]) /\ System \in Range(log[c])
        BY <4>1, SeqOfRange, LenProperties DEF IsSeq, Range
      <4>3. Of(c, Sayable(c), System) /\ System.role # "calls"
        BY <4>2 DEF Of, Uttered, Sayable, Said, System
      <4> QED
        BY <4>1, <4>2, <4>3 DEF AllOf, Paired
    <3>2. CASE log[c] = <<>>
      BY <3>2, NoneOf, EmptySeq DEF Paired
    <3> QED
      BY <2>1, <3>1, <3>2
  <2>3. pc[c] = "idle" /\ plan[c] = NoPlan /\ branches[c] = 0
    BY DEF Init
  <2>4. style[c].opens = 0
    BY StylesAssumption DEF Init, OwnWords
  <2> QED
    BY <2>2, <2>3, <2>4 DEF Talk, Busy
<1>3. Apart
  <2>1. ASSUME NEW id \in Ids, NEW c \in Chats PROVE Holds(c, id)
    <3>1. StoreFor(c, Sayable(c), id, store)
      BY DEF Init, EmptyStore, Empty, StoreFor, Derived
    <3>2. known[id] = {} /\ \A d \in Chats : plan[d].id = NoId /\ opened[d] = NoId
      BY DEF Init, NoPlan
    <3> QED
      BY <3>1, <3>2, IdsAssumption DEF Holds, Said
  <2>2. issued = 0 /\ \A id \in Ids : ~(id <= issued)
    BY BoundsAssumption DEF Init, Ids
  <2> QED
    BY <2>1, <2>2 DEF Apart
<1> QED
  BY <1>1, <1>2, <1>3 DEF Isolated

LEMMA Isolation ==
  ASSUME OwnWords
  PROVE  Spec => []Isolated
<1>1. Init => Isolated
  BY InitIsolated
<1> QED
  BY <1>1, IsolatedStep, Invariance, PTL DEF Spec

-----------------------------------------------------------------------------
(* Type correctness. *)
Labels == {"idle", "plan", "prompt", "send", "wait", "recover", "forget",
           "tools", "repair", "remember"}

Numbered(c) ==
  /\ plan[c].id \in {NoId} \cup 1..issued
  /\ opened[c] \in {NoId} \cup 1..issued
  /\ attempt[c] \in {1, 2}
  /\ pc[c] \in Labels
  /\ DOMAIN plan[c] = DOMAIN NoPlan
  /\ Busy(c) => plan[c].id # NoId /\ opened[c] # NoId

Slots == plan = [c \in Chats |-> plan[c]] /\ opened = [c \in Chats |-> opened[c]]

Typed ==
  /\ clock \in 0..MaxTime /\ faults \in 0..MaxFaults /\ issued \in 0..MaxIds
  /\ DOMAIN records \subseteq 1..issued /\ untrusted \subseteq 1..issued
  /\ Slots /\ \A c \in Chats : Numbered(c)

SameNumbers(c) ==
  /\ plan'[c].id = plan[c].id /\ DOMAIN plan'[c] = DOMAIN plan[c] /\ opened'[c] = opened[c]
  /\ attempt'[c] = attempt[c] /\ pc'[c] = pc[c]

(* A step of one chat that issues no id. *)
LEMMA TypedStep ==
  ASSUME Typed, NEW c \in Chats, clock' = clock, faults' \in 0..MaxFaults,
         issued' = issued, Slots',
         DOMAIN records' \subseteq 1..issued, untrusted' \subseteq 1..issued,
         Numbered(c)', \A d \in Chats \ {c} : SameNumbers(d)
  PROVE  Typed'
<1>1. ASSUME NEW d \in Chats \ {c} PROVE Numbered(d)'
  BY <1>1 DEF Typed, Numbered, SameNumbers, Busy
<1> QED
  BY <1>1 DEF Typed

(* A request that ends. *)
LEMMA OverTyped ==
  ASSUME Arrays, Typed, NEW c \in Chats, Over(c), clock' = clock,
         faults' \in 0..MaxFaults, issued' = issued,
         DOMAIN records' \subseteq 1..issued, untrusted' \subseteq 1..issued
  PROVE  Typed'
<1>1. /\ plan'[c] = NoPlan /\ opened'[c] = NoId /\ attempt'[c] = 1 /\ pc'[c] = "idle"
      /\ \A d \in Chats \ {c} : SameNumbers(d)
  BY DEF Over, Goto, Arrays, Typed, Slots, SameNumbers
<1>2. Numbered(c)' /\ Slots'
  BY <1>1 DEF Over, Typed, Slots, Numbered, NoPlan, Labels, Busy
<1> QED
  BY <1>1, <1>2, TypedStep

SamePlans ==
  /\ plan' = [d \in Chats |-> plan'[d]]
  /\ \A d \in Chats : plan'[d].id = plan[d].id /\ DOMAIN plan'[d] = DOMAIN plan[d]

(* A step that only moves on. *)
LEMMA MoveTyped ==
  ASSUME Arrays, Typed, NEW c \in Chats, NEW label \in Labels, Goto(c, label),
         Busy(c) \/ label = "plan",
         UNCHANGED <<opened, attempt>>,
         clock' = clock, faults' \in 0..MaxFaults, issued' = issued,
         DOMAIN records' \subseteq 1..issued, untrusted' \subseteq 1..issued,
         SamePlans
  PROVE  Typed'
<1>1. pc'[c] = label /\ \A d \in Chats \ {c} : pc'[d] = pc[d]
  BY DEF Goto, Arrays
<1>2. Numbered(c)' /\ Slots'
  BY <1>1 DEF Typed, Numbered, Slots, SamePlans, Busy
<1>3. \A d \in Chats \ {c} : SameNumbers(d)
  BY <1>1 DEF SameNumbers, SamePlans
<1> QED
  BY <1>2, <1>3, TypedStep

LEMMA PlansSame ==
  ASSUME Typed, plan' = plan
  PROVE  SamePlans
BY DEF Typed, Slots, SamePlans

(* The provider's record. *)
LEMMA UpdatedTyped ==
  ASSUME Typed, NEW id \in 1..issued, NEW flagged, flagged \subseteq 1..issued, Updated(id, flagged)
  PROVE  DOMAIN records' \subseteq 1..issued /\ untrusted' \subseteq 1..issued
BY DEF Typed, Updated, Put, Drop, Restrict

(* The conversations of a request under way have been issued. *)
LEMMA BusyIssued ==
  ASSUME Typed, NEW c \in Chats, Busy(c)
  PROVE  plan[c].id \in 1..issued /\ opened[c] \in 1..issued
BY DEF Typed, Numbered

(* A lookup finds an id that was issued. *)
LEMMA LookUpTyped ==
  ASSUME Arrays, Typed, NEW c \in Chats, LookUp(c)
  PROVE  Typed'
<1> DEFINE l == Head(lookups[c])
           id == Found(store, l, Ready, clock)
<1>1. /\ pc[c] = "plan"
      /\ IF id = NoId THEN UNCHANGED <<pc, plan, opened>>
         ELSE /\ plan' = [plan EXCEPT ![c] = Planned(c, id, TRUE)]
              /\ opened' = [opened EXCEPT ![c] = id]
              /\ Goto(c, "prompt")
      /\ UNCHANGED <<records, untrusted, issued, attempt, clock, faults>>
  BY DEF LookUp, provider, progress, bounds
<1>2. id \in {NoId} \cup 1..issued
  BY DEF Found, Ready, Typed
<1>3. Planned(c, id, TRUE).id = id /\ DOMAIN Planned(c, id, TRUE) = DOMAIN NoPlan
  BY DEF Planned, NoPlan
<1> HIDE DEF id
<1>4. CASE id = NoId
  BY <1>1, <1>4 DEF Typed, Numbered, Slots, Busy
<1>5. CASE id # NoId
  <2>1. /\ plan'[c] = Planned(c, id, TRUE) /\ opened'[c] = id /\ pc'[c] = "prompt"
        /\ \A d \in Chats \ {c} : SameNumbers(d)
    BY <1>1, <1>5 DEF Goto, Arrays, Typed, Slots, SameNumbers
  <2>2. Numbered(c)' /\ Slots'
    BY <1>1, <1>2, <1>3, <1>5, <2>1 DEF Numbered, Labels, Typed, Slots, Busy
  <2> QED
    BY <1>1, <2>1, <2>2, TypedStep DEF Typed
<1> QED
  BY <1>4, <1>5

(* The next id is issued. *)
LEMMA FreshTyped ==
  ASSUME Arrays, Typed, NEW c \in Chats, issued < MaxIds, issued' = issued + 1,
         UNCHANGED <<clock, faults, records, untrusted>>,
         plan'[c].id = issued + 1, DOMAIN plan'[c] = DOMAIN NoPlan, Slots',
         Busy(c) \/ opened'[c] = issued + 1, opened'[c] \in {opened[c], issued + 1},
         attempt'[c] \in {1, 2}, pc'[c] \in Labels,
         \A d \in Chats \ {c} : SameNumbers(d)
  PROVE  Typed'
<1>1. /\ issued \in Nat /\ issued' \in 0..MaxIds /\ 1..issued \subseteq 1..issued'
      /\ issued + 1 # NoId
  BY BoundsAssumption, IdsAssumption DEF Typed, Ids
<1>2. Numbered(c)'
  BY <1>1 DEF Typed, Numbered
<1>3. ASSUME NEW d \in Chats \ {c} PROVE Numbered(d)'
  BY <1>1, <1>3 DEF Typed, Numbered, SameNumbers, Busy
<1> QED
  BY <1>1, <1>2, <1>3 DEF Typed

LEMMA NewTyped ==
  ASSUME Arrays, Typed, NEW c \in Chats, PlanNew(c) \/ Forget(c)
  PROVE  Typed'
<1>1. CASE PlanNew(c)
  <2>1. PICK auto : plan' = [plan EXCEPT ![c] = Planned(c, issued + 1, auto)]
    BY <1>1 DEF PlanNew
  <2>2. plan'[c].id = issued + 1 /\ DOMAIN plan'[c] = DOMAIN NoPlan
    BY <2>1 DEF Planned, NoPlan, Typed, Slots
  <2>3. /\ issued < MaxIds /\ issued' = issued + 1
        /\ opened' = [opened EXCEPT ![c] = issued + 1]
        /\ Goto(c, "prompt")
        /\ UNCHANGED <<clock, faults, records, untrusted, attempt>>
    BY <1>1 DEF PlanNew, provider, progress, bounds
  <2>4. /\ opened'[c] = issued + 1 /\ pc'[c] \in Labels /\ attempt'[c] \in {1, 2}
        /\ Slots' /\ \A d \in Chats \ {c} : SameNumbers(d)
    BY <2>1, <2>3 DEF Goto, Arrays, Slots, SameNumbers, Labels, Typed, Numbered
  <2> QED
    BY <2>2, <2>3, <2>4, FreshTyped
<1>2. CASE Forget(c)
  <2>1. /\ issued < MaxIds /\ issued' = issued + 1
        /\ plan' = [plan EXCEPT ![c].id = issued + 1, ![c].auto = FALSE, ![c].light = FALSE]
        /\ attempt' = [attempt EXCEPT ![c] = 2]
        /\ Goto(c, "send") /\ Busy(c)
        /\ UNCHANGED <<clock, faults, records, untrusted, opened>>
    BY <1>2 DEF Forget, provider, bounds, Busy
  <2>2. plan'[c].id = issued + 1 /\ DOMAIN plan'[c] = DOMAIN NoPlan
    BY <2>1 DEF Typed, Slots, Numbered, NoPlan
  <2>3. /\ opened'[c] = opened[c] /\ pc'[c] \in Labels /\ attempt'[c] \in {1, 2}
        /\ Slots' /\ \A d \in Chats \ {c} : SameNumbers(d)
    BY <2>1 DEF Goto, Arrays, Typed, Slots, SameNumbers, Labels
  <2> QED
    BY <2>1, <2>2, <2>3, FreshTyped DEF Busy
<1> QED
  BY <1>1, <1>2

(* A repair that is settled. *)
LEMMA SettledTyped ==
  ASSUME Arrays, Typed, NEW c \in Chats, Busy(c), NEW result, Settled(c, result),
         clock' = clock, faults' \in 0..MaxFaults, issued' = issued,
         DOMAIN records' \subseteq 1..issued, untrusted' \subseteq 1..issued
  PROVE  Typed'
<1>1. CASE ~result.ok
  BY <1>1, OverTyped DEF Settled
<1>2. CASE result.ok
  <2>1. Goto(c, "remember") /\ UNCHANGED <<plan, opened, attempt>> /\ "remember" \in Labels
    BY <1>2 DEF Settled, request, Labels
  <2>2. SamePlans
    BY <2>1, PlansSame
  <2> QED
    BY <2>1, <2>2, MoveTyped
<1> QED
  BY <1>1, <1>2

(* Every step of a request. *)
LEMMA TurnTyped ==
  ASSUME Arrays, Typed, NEW c \in Chats, Turn(c)
  PROVE  Typed'
<1> USE DEF provider, client, request, progress, upstream, bounds
<1>0. /\ faults \in 0..MaxFaults /\ DOMAIN records \subseteq 1..issued /\ untrusted \subseteq 1..issued
      /\ faults < MaxFaults => faults + 1 \in 0..MaxFaults
  BY BoundsAssumption DEF Typed
<1> USE PlansSame DEF Busy
<1>1. CASE Ask(c)
  BY <1>0, <1>1, MoveTyped DEF Ask, Labels
<1>2. CASE LookUp(c)
  BY <1>2, LookUpTyped
<1>3. CASE PlanNew(c) \/ Forget(c)
  BY <1>3, NewTyped
<1>4. CASE BuildPrompt(c)
  <2>1. PICK light : plan' = [plan EXCEPT ![c].light = light]
    BY <1>4 DEF BuildPrompt
  <2>2. SamePlans
    BY <2>1 DEF Typed, Slots, Numbered, NoPlan, SamePlans
  <2> QED
    BY <1>0, <1>4, <2>2, MoveTyped DEF BuildPrompt, Labels
<1>5. CASE Send(c)
  BY <1>0, <1>5, MoveTyped DEF Send, Labels
<1>6. CASE Emit(c)
  <2>1. Goto(c, "wait")
    BY <1>6 DEF Emit, Goto, Arrays
  <2> QED
    BY <1>0, <1>6, <2>1, MoveTyped DEF Emit, Labels
<1>7. CASE Answer(c) \/ AnswerElsewhere(c)
  <2>1. PICK answer : Answered(c, answer)
    BY <1>7 DEF Answer, AnswerElsewhere
  <2>2. Busy(c) /\ UNCHANGED <<clock, issued, plan, opened, attempt>>
    BY <2>1 DEF Answered, Busy
  <2>3. PICK label \in Labels : Goto(c, label)
    BY <2>1 DEF Answered, Labels
  <2>4. plan[c].id \in 1..issued
    BY <2>2, BusyIssued
  <2>5. \E flagged : Updated(plan[c].id, flagged) /\ flagged \subseteq {plan[c].id}
    BY <1>7 DEF Answer, AnswerElsewhere
  <2>6. DOMAIN records' \subseteq 1..issued /\ untrusted' \subseteq 1..issued
    BY <2>4, <2>5, UpdatedTyped
  <2>7. faults' \in 0..MaxFaults
    BY <1>0, <1>7 DEF Answer, AnswerElsewhere
  <2> QED
    BY <2>2, <2>3, <2>6, <2>7, MoveTyped
<1>8. CASE Fail(c)
  BY <1>0, <1>8, OverTyped DEF Fail
<1>9. CASE Reject(c)
  <2>1. plan[c].id \in 1..issued
    BY <1>9, BusyIssued DEF Reject, Busy
  <2>2. untrusted' \subseteq 1..issued /\ faults' \in 0..MaxFaults
    BY <1>0, <1>9, <2>1 DEF Reject
  <2>3. CASE Over(c)
    BY <1>0, <1>9, <2>2, <2>3, OverTyped DEF Reject
  <2>4. CASE Goto(c, "recover") /\ UNCHANGED <<request, progress>>
    BY <1>0, <1>9, <2>2, <2>4, MoveTyped DEF Reject, Labels
  <2> QED
    BY <1>9, <2>3, <2>4 DEF Reject
<1>10. CASE Recover(c)
  <2>1. PICK ms : plan' = [plan EXCEPT ![c].main = ms, ![c].prompt = Range(ms)]
    BY <1>10 DEF Recover
  <2>2. SamePlans
    BY <2>1 DEF Typed, Slots, Numbered, NoPlan, SamePlans
  <2> QED
    BY <1>0, <1>10, <2>2, MoveTyped DEF Recover, Labels
<1>11. CASE ReadAnswer(c)
  <2>1. PICK label \in Labels : Goto(c, label)
    BY <1>11 DEF ReadAnswer, Labels
  <2> QED
    BY <1>0, <1>11, <2>1, MoveTyped DEF ReadAnswer
<1>12. CASE Repair(c)
  <2>1. opened[c] \in 1..issued
    BY <1>12, BusyIssued DEF Repair, Busy
  <2>2. DOMAIN records' \subseteq 1..issued /\ untrusted' \subseteq 1..issued
    BY <1>12, <2>1, UpdatedTyped DEF Repair
  <2>3. PICK result : Settled(c, result)
    BY <1>12 DEF Repair
  <2> QED
    BY <1>0, <1>12, <2>2, <2>3, SettledTyped DEF Repair
<1>13. CASE RepairFails(c)
  <2>1. PICK result : Settled(c, result)
    BY <1>13 DEF RepairFails
  <2> QED
    BY <1>0, <1>13, <2>1, SettledTyped DEF RepairFails
<1>14. CASE Remember(c)
  BY <1>0, <1>14, OverTyped DEF Remember
<1> QED
  BY <1>1, <1>2, <1>3, <1>4, <1>5, <1>6, <1>7, <1>8, <1>9, <1>10, <1>11, <1>12, <1>13, <1>14 DEF Turn

LEMMA TypedNext == Inv /\ Typed /\ [Next]_vars => Typed'
<1> SUFFICES ASSUME Inv, Typed, [Next]_vars PROVE Typed'
  OBVIOUS
<1> USE DEF provider, client, request, progress, upstream, bounds
<1>1. ASSUME NEW c \in Chats, Turn(c) PROVE Typed'
  BY <1>1, TurnTyped DEF Inv
<1>2. ASSUME NEW c \in Chats, Branch(c) PROVE Typed'
  BY <1>2 DEF Branch, Typed, Numbered, Slots, Busy
<1>3. ASSUME NEW id \in Ids, LoseRecord(id) PROVE Typed'
  <2>1. faults' \in 0..MaxFaults
    BY <1>3, BoundsAssumption DEF Typed, LoseRecord
  <2>2. DOMAIN records' \subseteq 1..issued /\ untrusted' \subseteq 1..issued
    BY <1>3 DEF Typed, LoseRecord, Drop, Restrict
  <2> QED
    BY <1>3, <2>1, <2>2 DEF LoseRecord, Typed, Numbered, Slots, Busy
<1>4. CASE Tick
  BY <1>4, BoundsAssumption DEF Tick, Typed, Numbered, Slots, Busy
<1>5. CASE UNCHANGED vars
  BY <1>5 DEF vars, Typed, Numbered, Slots, Busy
<1> QED
  BY <1>1, <1>2, <1>3, <1>4, <1>5 DEF Next

LEMMA Typing == Spec => []Typed
<1>1. Init => Typed
  BY BoundsAssumption DEF Init, Typed, Numbered, Labels, NoPlan, Empty, Slots, Busy
<1> QED
  BY <1>1, TypedNext, Invariance, PTL DEF Spec

(* The conversation ids in plans, options and the provider's maps are ids  *)
(* the service has issued, and the counters stay within their bounds.      *)
THEOREM TypeCorrect == Spec => []TypeOK
<1>1. Inv /\ Typed => TypeOK
  <2> SUFFICES ASSUME Inv, Typed PROVE TypeOK
    OBVIOUS
  <2>1. \A c \in Chats : shown[c] \subseteq 1..attempt[c]
    BY DEF Inv, ChatInv, Typed, Numbered
  <2> QED
    BY <2>1 DEF Typed, Numbered, TypeOK, Labels
<1> QED
  BY <1>1, Invariance, Typing, PTL

-----------------------------------------------------------------------------
(***************************************************************************)
(* The tools a conversation was told.                                      *)
(***************************************************************************)

(* No record expires or is evicted: the others are lost only between the   *)
(* requests of all chats.                                                  *)
Kept == ~Racy /\ TTL >= MaxTime /\ MaxConversations >= MaxIds

(* The service remembers tools only for a conversation with a record ...   *)
Tracked(id) == id \in DOMAIN records \/ id \notin DOMAIN store.bridge

(* ... and only those it was told, unless it is flagged.                   *)
Briefed(id) ==
  id \in DOMAIN store.bridge /\ id \in Ready => store.bridge[id].to \in told[id]

Light(c) ==
  /\ Busy(c) => Tracked(plan[c].id) /\ Tracked(opened[c])
  /\ pc[c] = "prompt" /\ plan[c].id \in DOMAIN store.bridge => plan[c].id \in Ready
  /\ pc[c] \in {"send", "wait"} /\ plan[c].light =>
       plan[c].id \in Ready /\ req[c].tools \in told[plan[c].id]
  /\ pc[c] \in {"wait", "tools"} /\ UsesBridge(req[c]) /\ plan[c].id \notin untrusted =>
       req[c].tools \in told[plan[c].id]
  /\ pc[c] \in {"tools", "repair", "remember"} => plan[c].id \in DOMAIN records

Upstream ==
  /\ told = [id \in Ids |-> told[id]]
  /\ DOMAIN store.bridge \subseteq 1..issued
  /\ \A id \in DOMAIN records : records[id].at \in Nat

Lit == Upstream /\ (\A id \in Ids : Briefed(id)) /\ (\A c \in Chats : Light(c))

(* Two requests under way are in different conversations. *)
LEMMA Distinct ==
  ASSUME Isolated, NEW c \in Chats, NEW d \in Chats, c # d, Busy(c), Busy(d)
  PROVE  {plan[c].id, opened[c]} \cap {plan[d].id, opened[d]} = {}
<1>1. {plan[c].id, opened[c]} \subseteq Ids
  BY DEF Isolated, Talk
<1>2. \A id \in Ids : \E e \in Chats : Holds(e, id)
  BY DEF Isolated, Apart
<1>3. ASSUME NEW id \in Ids, id \in {plan[c].id, opened[c]}, id \in {plan[d].id, opened[d]}
      PROVE  FALSE
  BY <1>2, <1>3 DEF Holds
<1> QED
  BY <1>1, <1>3

(* With room for every record and no record too old, an update removes none. *)
LEMMA NoneRemoved ==
  ASSUME Kept, Typed, Upstream, NEW id \in Ids, NEW flagged, Updated(id, flagged)
  PROVE  /\ DOMAIN records' = DOMAIN records \cup {id}
         /\ untrusted' = untrusted \cup flagged
         /\ \A x \in DOMAIN records' : records'[x].at \in Nat
<1> DEFINE stale == Stale(records, clock)
           young == Drop(records, stale)
<1>1. clock \in Nat /\ clock <= TTL /\ TTL \in Nat
  BY BoundsAssumption, TTLAssumption DEF Typed, Kept
<1>2. stale = {}
  BY <1>1 DEF Stale, Upstream
<1>3. DOMAIN young = DOMAIN records /\ \A x \in DOMAIN records : young[x] = records[x]
  BY <1>2 DEF Drop, Restrict
<1>4. Cardinality(DOMAIN young) \in Nat /\ Cardinality(DOMAIN young) <= MaxIds
  <2>1. MaxIds \in Nat /\ IsFiniteSet(Ids) /\ Cardinality(Ids) = MaxIds
    BY BoundsAssumption, FS_Interval DEF Ids
  <2>2. DOMAIN records \subseteq Ids
    BY BoundsAssumption DEF Typed, Ids
  <2> QED
    BY <1>3, <2>1, <2>2, FS_Subset, FS_CardinalityType
<1>5. Oldest(young, MaxConversations) = {{}}
  <2>1. Cardinality(DOMAIN young) - MaxConversations <= 0
    BY <1>4, BoundsAssumption DEF Kept
  <2> QED
    BY <2>1 DEF Oldest
<1>6. /\ records' = Put(Drop(young, {}), {id}, id, clock)
      /\ untrusted' = (untrusted \cup flagged) \ (stale \cup {})
  BY <1>5 DEF Updated
<1> HIDE DEF stale, young
<1>7. untrusted' = untrusted \cup flagged
  BY <1>2, <1>6
<1>8. /\ DOMAIN records' = DOMAIN records \cup {id}
      /\ \A x \in DOMAIN records' :
           records'[x] = IF x = id THEN [to |-> id, at |-> clock] ELSE records[x]
  BY <1>3, <1>6 DEF Put, Drop, Restrict
<1> QED
  BY <1>1, <1>7, <1>8 DEF Upstream

(* What a step leaves alone of the conversations outside its own. *)
SameUpstream(own) ==
  \A id \in Ids \ own :
    /\ told'[id] = told[id]
    /\ id \in DOMAIN records' <=> id \in DOMAIN records
    /\ id \in untrusted' <=> id \in untrusted
    /\ id \in DOMAIN store'.bridge =>
         id \in DOMAIN store.bridge /\ store'.bridge[id].to = store.bridge[id].to

SameRequest(d) ==
  pc'[d] = pc[d] /\ req'[d] = req[d] /\ plan'[d] = plan[d] /\ opened'[d] = opened[d]

LEMMA LightSame ==
  ASSUME Isolated, NEW d \in Chats, Light(d), SameRequest(d), NEW own, SameUpstream(own),
         Busy(d) => own \cap {plan[d].id, opened[d]} = {}
  PROVE  Light(d)'
<1>1. CASE ~Busy(d)
  BY <1>1 DEF Light, Busy, SameRequest
<1>2. CASE Busy(d)
  <2>1. plan[d].id \in Ids \ own /\ opened[d] \in Ids \ own
    BY <1>2 DEF Isolated, Talk
  <2> QED
    BY <2>1 DEF SameUpstream, Light, Busy, SameRequest, Tracked, Ready
<1> QED
  BY <1>1, <1>2

LEMMA OneLight ==
  ASSUME Isolated, Lit, NEW c \in Chats, NEW own, SameUpstream(own),
         own = {} \/ (Busy(c) /\ own \subseteq {plan[c].id, opened[c]}),
         \A d \in Chats \ {c} : SameRequest(d),
         Upstream', \A id \in own : Briefed(id)', Light(c)'
  PROVE  Lit'
<1>1. ASSUME NEW id \in Ids PROVE Briefed(id)'
  BY DEF Lit, Briefed, SameUpstream, Ready
<1>2. ASSUME NEW d \in Chats \ {c} PROVE Light(d)'
  <2>1. Busy(d) => own \cap {plan[d].id, opened[d]} = {}
    BY Distinct
  <2> QED
    BY <2>1, LightSame DEF Lit
<1> QED
  BY <1>1, <1>2 DEF Lit

(* A step that tells no conversation anything, and remembers no tools.     *)
LEMMA NothingTold ==
  ASSUME Typed, Upstream, UNCHANGED <<records, untrusted, told>>,
         Within(store'.bridge, store.bridge), issued' \in {issued, issued + 1}
  PROVE  SameUpstream({}) /\ Upstream'
<1>1. SameUpstream({})
  BY DEF SameUpstream, Within
<1>2. 1..issued \subseteq 1..issued'
  BY BoundsAssumption DEF Typed
<1> QED
  BY <1>1, <1>2 DEF Upstream, Within

LEMMA SameBridge ==
  ASSUME UNCHANGED store
  PROVE  Within(store'.bridge, store.bridge)
BY DEF Within

LEMMA Moved ==
  ASSUME Arrays, NEW c \in Chats, NEW label, Goto(c, label)
  PROVE  pc'[c] = label /\ \A d \in Chats \ {c} : pc'[d] = pc[d]
BY DEF Goto, Arrays

(* A request that ends. *)
LEMMA OverLight ==
  ASSUME Arrays, Isolated, Lit, NEW c \in Chats, Over(c), NEW own, SameUpstream(own),
         own = {} \/ (Busy(c) /\ own \subseteq {plan[c].id, opened[c]}),
         Upstream', \A id \in own : Briefed(id)'
  PROVE  Lit'
<1>1. pc'[c] = "idle" /\ \A d \in Chats \ {c} : SameRequest(d)
  BY DEF Over, Goto, Arrays, Isolated, Shape, SameRequest
<1>2. Light(c)'
  BY <1>1 DEF Light, Busy
<1> QED
  BY <1>1, <1>2, OneLight

LEMMA AskLight ==
  ASSUME Arrays, Isolated, Typed, Lit, NEW c \in Chats, Ask(c)
  PROVE  Lit'
<1>1. Goto(c, "plan") /\ UNCHANGED <<store, records, untrusted, told, issued, plan, opened>>
  BY DEF Ask, provider, upstream
<1>2. \A d \in Chats \ {c} : SameRequest(d)
  BY <1>1, Moved DEF Ask, Arrays, SameRequest
<1>3. Light(c)'
  BY <1>1, Moved DEF Light, Busy
<1>4. SameUpstream({}) /\ Upstream'
  BY <1>1, SameBridge, NothingTold DEF Lit
<1> QED
  BY <1>2, <1>3, <1>4, OneLight

LEMMA LookUpLight ==
  ASSUME Arrays, Isolated, Typed, Lit, NEW c \in Chats, LookUp(c)
  PROVE  Lit'
<1> DEFINE l == Head(lookups[c])
           id == Found(store, l, Ready, clock)
<1>1. /\ pc[c] = "plan" /\ lookups[c] # <<>>
      /\ IF id = NoId THEN UNCHANGED <<pc, plan, opened>>
         ELSE /\ plan' = [plan EXCEPT ![c] = Planned(c, id, TRUE)]
              /\ opened' = [opened EXCEPT ![c] = id]
              /\ Goto(c, "prompt")
      /\ store' = LookedUp(store, l, Ready, clock)
      /\ UNCHANGED <<req, records, untrusted, told, issued>>
  BY DEF LookUp, provider, upstream
<1>2. LookupOK(c, Sayable(c), l)
  BY <1>1, NextLookup DEF Isolated, Talk
<1>3. store'.bridge = store.bridge
  <2>1. CASE l.kind = "self"
    BY <1>1, <2>1 DEF LookedUp
  <2>2. CASE l.kind # "self"
    <3>1. LookupMap(l.kind) \in Derived \cup {"explicit"} /\ DOMAIN store = Maps
      BY <1>2, <2>2, LookupMapName DEF Isolated, Shape
    <3>2. \E entry : store' = [store EXCEPT ![LookupMap(l.kind)] = entry]
      BY <1>1, <2>2 DEF LookedUp
    <3> QED
      BY <3>1, <3>2 DEF Derived, Maps
  <2> QED
    BY <2>1, <2>2
<1>4. SameUpstream({}) /\ Upstream'
  <2>1. Within(store'.bridge, store.bridge)
    BY <1>3 DEF Within
  <2> QED
    BY <1>1, <2>1, NothingTold DEF Lit
<1>5. CASE id = NoId
  <2>1. \A d \in Chats : SameRequest(d)
    BY <1>1, <1>5 DEF SameRequest
  <2>2. Light(c)'
    BY <1>1, <1>5 DEF Light, Busy
  <2> QED
    BY <1>4, <2>1, <2>2, OneLight
<1>6. CASE id # NoId
  <2>1. id \in Ready
    BY <1>6 DEF Found
  <2>2. Planned(c, id, TRUE).id = id
    BY DEF Planned
  <2> HIDE DEF id
  <2>3. /\ plan'[c] = Planned(c, id, TRUE) /\ opened'[c] = id /\ pc'[c] = "prompt"
        /\ \A d \in Chats \ {c} : SameRequest(d)
    BY <1>1, <1>6 DEF Goto, Arrays, Isolated, Shape, SameRequest
  <2>4. Light(c)'
    BY <1>1, <2>1, <2>2, <2>3 DEF Light, Tracked, Ready
  <2> QED
    BY <1>4, <2>3, <2>4, OneLight
<1> QED
  BY <1>5, <1>6

LEMMA NewLight ==
  ASSUME Arrays, Isolated, Typed, Lit, NEW c \in Chats, PlanNew(c) \/ Forget(c)
  PROVE  Lit'
<1>1. issued + 1 \notin DOMAIN store.bridge
  BY BoundsAssumption DEF Lit, Upstream, Typed
<1>2. CASE PlanNew(c)
  <2>1. PICK auto : plan' = [plan EXCEPT ![c] = Planned(c, issued + 1, auto)]
    BY <1>2 DEF PlanNew
  <2>2. /\ opened' = [opened EXCEPT ![c] = issued + 1] /\ Goto(c, "prompt")
        /\ issued' = issued + 1
        /\ UNCHANGED <<req, store, records, untrusted, told>>
    BY <1>2 DEF PlanNew, provider, upstream
  <2>3. /\ plan'[c].id = issued + 1 /\ opened'[c] = issued + 1 /\ pc'[c] = "prompt"
        /\ \A d \in Chats \ {c} : SameRequest(d)
    BY <2>1, <2>2, Moved DEF Planned, Isolated, Shape, SameRequest
  <2>4. Light(c)'
    BY <1>1, <2>2, <2>3 DEF Light, Tracked
  <2>5. SameUpstream({}) /\ Upstream'
    BY <2>2, SameBridge, NothingTold DEF Lit
  <2> QED
    BY <2>3, <2>4, <2>5, OneLight
<1>3. CASE Forget(c)
  <2>1. /\ plan' = [plan EXCEPT ![c].id = issued + 1, ![c].auto = FALSE, ![c].light = FALSE]
        /\ pc[c] = "forget" /\ Goto(c, "send") /\ issued' = issued + 1
        /\ store' = Forgotten(store, plan[c].id)
        /\ UNCHANGED <<req, records, untrusted, told, opened>>
    BY <1>3 DEF Forget, provider, upstream
  <2>2. /\ plan'[c].id = issued + 1 /\ ~plan'[c].light /\ pc'[c] = "send"
        /\ \A d \in Chats \ {c} : SameRequest(d)
    BY <2>1, Moved DEF Isolated, Shape, Talk, NoPlan, SameRequest
  <2>3. Within(store'.bridge, store.bridge)
    <3>1. store'.bridge = Drop(store.bridge, {plan[c].id})
      BY <2>1 DEF Forgotten
    <3> QED
      BY <3>1, WithinDrop, WithinSelf
  <2>4. Light(c)'
    BY <1>1, <2>1, <2>2, <2>3 DEF Lit, Light, Busy, Tracked, Within
  <2>5. SameUpstream({}) /\ Upstream'
    BY <2>1, <2>3, NothingTold DEF Lit
  <2> QED
    BY <2>2, <2>4, <2>5, OneLight
<1> QED
  BY <1>2, <1>3

LEMMA BuildPromptLight ==
  ASSUME Arrays, Isolated, Typed, Lit, NEW c \in Chats, BuildPrompt(c)
  PROVE  Lit'
<1> DEFINE light == /\ UsesBridge(req[c]) /\ plan[c].auto
                    /\ ToolsKnown(store, plan[c].id, req[c].tools)
<1>1. /\ pc[c] = "prompt" /\ plan' = [plan EXCEPT ![c].light = light] /\ Goto(c, "send")
      /\ UNCHANGED <<store, req, opened, records, untrusted, told, issued>>
  BY DEF BuildPrompt, provider, upstream
<1>2. light => plan[c].id \in DOMAIN store.bridge /\ store.bridge[plan[c].id].to = req[c].tools
  BY DEF ToolsKnown
<1> HIDE DEF light
<1>3. /\ plan'[c].id = plan[c].id /\ plan'[c].light = light /\ pc'[c] = "send"
      /\ \A d \in Chats \ {c} : SameRequest(d)
  BY <1>1, Moved DEF Isolated, Shape, Talk, NoPlan, SameRequest
<1>4. plan[c].id \in Ids
  BY <1>1 DEF Isolated, Talk, Busy
<1>5. light => plan[c].id \in Ready /\ req[c].tools \in told[plan[c].id]
  BY <1>1, <1>2, <1>4 DEF Lit, Light, Briefed
<1>6. Light(c)'
  BY <1>1, <1>3, <1>5 DEF Lit, Light, Busy, Tracked, Ready
<1>7. SameUpstream({}) /\ Upstream'
  BY <1>1, SameBridge, NothingTold DEF Lit
<1> QED
  BY <1>3, <1>6, <1>7, OneLight

LEMMA SendLight ==
  ASSUME Arrays, Isolated, Typed, Lit, NEW c \in Chats, Send(c)
  PROVE  Lit'
<1> DEFINE id == plan[c].id
           tools == IF UsesBridge(req[c]) /\ ~plan[c].light THEN {req[c].tools} ELSE {}
<1>1. /\ pc[c] = "send" /\ told' = Continued(told, id, tools) /\ Goto(c, "wait")
      /\ UNCHANGED <<store, records, untrusted, req, plan, opened, issued>>
  BY DEF Send, provider, request
<1>2. Busy(c) /\ id \in Ids
  BY <1>1 DEF Isolated, Talk, Busy
<1>3. /\ told' = [x \in Ids |-> told'[x]]
      /\ told'[id] = (IF id \in DOMAIN records THEN told[id] ELSE {}) \cup tools
      /\ \A x \in Ids \ {id} : told'[x] = told[x]
  BY <1>1, <1>2 DEF Continued, Lit, Upstream
<1>4. pc'[c] = "wait" /\ \A d \in Chats \ {c} : SameRequest(d)
  BY <1>1, Moved DEF SameRequest
<1>5. Light(c)'
  BY <1>1, <1>2, <1>3, <1>4 DEF Lit, Light, Tracked, Ready, Busy
<1>6. ASSUME NEW x \in {id} PROVE Briefed(x)'
  BY <1>1, <1>2, <1>3 DEF Lit, Briefed, Ready
<1>7. SameUpstream({id}) /\ Upstream'
  BY <1>1, <1>3 DEF SameUpstream, Lit, Upstream
<1> QED
  BY <1>2, <1>4, <1>5, <1>6, <1>7, OneLight

LEMMA EmitLight ==
  ASSUME Arrays, Isolated, Typed, Lit, NEW c \in Chats, Emit(c)
  PROVE  Lit'
<1>1. UNCHANGED <<store, records, untrusted, told, issued, pc, req, plan, opened>>
  BY DEF Emit, provider, request, upstream
<1>2. Light(c)' /\ \A d \in Chats : SameRequest(d)
  BY <1>1 DEF Lit, Light, Busy, Tracked, Ready, SameRequest
<1>3. SameUpstream({}) /\ Upstream'
  BY <1>1, SameBridge, NothingTold DEF Lit
<1> QED
  BY <1>2, <1>3, OneLight

LEMMA AnswerLight ==
  ASSUME Kept, Arrays, Isolated, Typed, Lit, NEW c \in Chats, Answer(c) \/ AnswerElsewhere(c)
  PROVE  Lit'
<1> DEFINE id == plan[c].id
<1>1. PICK answer : Answered(c, answer)
  BY DEF Answer, AnswerElsewhere
<1>2. /\ pc[c] = "wait" /\ UNCHANGED <<store, req, plan, opened, issued>>
      /\ IF UsesBridge(req[c]) THEN Goto(c, "tools") ELSE Goto(c, "remember")
  BY <1>1 DEF Answered, request
<1>3. Busy(c) /\ id \in Ids
  BY <1>2 DEF Isolated, Talk, Busy
<1>4. PICK flagged : /\ Updated(id, flagged)
                     /\ \/ flagged = {} /\ told' = told
                        \/ flagged = {id} /\ told' = [told EXCEPT ![id] = {}]
  <2>1. CASE Answer(c)
    BY <2>1 DEF Answer, upstream
  <2>2. CASE AnswerElsewhere(c)
    BY <2>2 DEF AnswerElsewhere
  <2> QED
    BY <2>1, <2>2
<1>5. /\ DOMAIN records' = DOMAIN records \cup {id}
      /\ untrusted' = untrusted \cup flagged
      /\ \A x \in DOMAIN records' : records'[x].at \in Nat
  BY <1>3, <1>4, NoneRemoved DEF Lit
<1>6. /\ told' = [x \in Ids |-> told'[x]]
      /\ flagged = {} => told'[id] = told[id]
      /\ \A x \in Ids \ {id} : told'[x] = told[x]
  BY <1>4 DEF Lit, Upstream
<1>7. \A d \in Chats \ {c} : SameRequest(d)
  BY <1>2, Moved DEF SameRequest
<1>8. IF UsesBridge(req[c]) THEN pc'[c] = "tools" ELSE pc'[c] = "remember"
  BY <1>2, Moved
<1>9. Light(c)'
  BY <1>2, <1>3, <1>4, <1>5, <1>6, <1>8 DEF Lit, Light, Tracked
<1>10. ASSUME NEW x \in {id} PROVE Briefed(x)'
  BY <1>2, <1>3, <1>4, <1>5, <1>6 DEF Lit, Light, Tracked, Briefed, Ready
<1>11. SameUpstream({id}) /\ Upstream'
  BY <1>2, <1>4, <1>5, <1>6 DEF SameUpstream, Lit, Upstream
<1> QED
  BY <1>3, <1>7, <1>9, <1>10, <1>11, OneLight

LEMMA RejectLight ==
  ASSUME Arrays, Isolated, Typed, Lit, NEW c \in Chats, Fail(c) \/ Reject(c)
  PROVE  Lit'
<1> DEFINE id == plan[c].id
<1>1. /\ pc[c] \in {"send", "wait"} /\ UNCHANGED <<store, records, told, issued>>
      /\ untrusted \subseteq untrusted' /\ untrusted' \subseteq untrusted \cup {id}
      /\ Over(c) \/ (Goto(c, "recover") /\ UNCHANGED <<req, plan, opened>>)
  <2>1. CASE Fail(c)
    BY <2>1 DEF Fail, provider, upstream
  <2>2. CASE Reject(c)
    BY <2>2 DEF Reject, upstream, request
  <2> QED
    BY <2>1, <2>2
<1>2. Busy(c) /\ id \in Ids
  BY <1>1 DEF Isolated, Talk, Busy
<1>3. ASSUME NEW x \in {id} PROVE Briefed(x)'
  BY <1>1, <1>2 DEF Lit, Briefed, Ready
<1>4. SameUpstream({id}) /\ Upstream'
  BY <1>1 DEF SameUpstream, Lit, Upstream
<1>5. CASE Over(c)
  BY <1>2, <1>3, <1>4, <1>5, OverLight
<1>6. CASE Goto(c, "recover") /\ UNCHANGED <<req, plan, opened>>
  <2>1. pc'[c] = "recover" /\ \A d \in Chats \ {c} : SameRequest(d)
    BY <1>6, Moved DEF SameRequest
  <2>2. Light(c)'
    BY <1>1, <1>2, <1>6, <2>1 DEF Lit, Light, Tracked
  <2> QED
    BY <1>2, <1>3, <1>4, <2>1, <2>2, OneLight
<1> QED
  BY <1>1, <1>5, <1>6

LEMMA PrunedBridge ==
  ASSUME NEW pruned \in Pruned(store, clock)
  PROVE  Within(pruned.bridge, store.bridge)
<1>1. pruned.bridge = Fresh(store.bridge, clock)
  <2>1. PICK E \in Oldest(Fresh(store.transcripts, clock), MaxEntries),
             retained \in Trims(Fresh(store.retained, clock)),
             roots \in Trims(Fresh(store.roots, clock)),
             suffixes \in Trims(Fresh(store.suffixes, clock)),
             windows \in Trims(Fresh(store.windows, clock)) :
          pruned = [transcripts |-> Drop(Fresh(store.transcripts, clock), E),
                    latest |-> Drop(store.latest,
                                    Superseded(store, Stale(store.transcripts, clock))
                                    \cup Superseded(store, E)),
                    retained |-> retained, roots |-> roots,
                    suffixes |-> suffixes, windows |-> windows,
                    explicit |-> Fresh(store.explicit, clock),
                    bridge |-> Fresh(store.bridge, clock)]
    BY DEF Pruned
  <2> QED
    BY <2>1
<1> QED
  BY <1>1, WithinDrop, WithinSelf DEF Fresh

LEMMA RecoverLight ==
  ASSUME Arrays, Isolated, Typed, Lit, NEW c \in Chats, Recover(c)
  PROVE  Lit'
<1>1. PICK pruned \in Pruned(store, clock) :
        /\ store' = pruned
        /\ \E ms : plan' = [plan EXCEPT ![c].main = ms, ![c].prompt = Range(ms)]
  BY DEF Recover
<1>2. /\ pc[c] = "recover" /\ Goto(c, "forget")
      /\ UNCHANGED <<records, untrusted, told, issued, req, opened>>
  BY DEF Recover, provider, upstream
<1>3. Within(store'.bridge, store.bridge)
  BY <1>1, PrunedBridge
<1>4. /\ plan'[c].id = plan[c].id /\ pc'[c] = "forget"
      /\ \A d \in Chats \ {c} : SameRequest(d)
  BY <1>1, <1>2, Moved DEF Isolated, Shape, Talk, NoPlan, SameRequest
<1>5. Light(c)'
  BY <1>2, <1>3, <1>4 DEF Lit, Light, Busy, Tracked, Within
<1>6. SameUpstream({}) /\ Upstream'
  BY <1>2, <1>3, NothingTold DEF Lit
<1> QED
  BY <1>4, <1>5, <1>6, OneLight

LEMMA ReadLight ==
  ASSUME Arrays, Isolated, Typed, Lit, NEW c \in Chats, ReadAnswer(c)
  PROVE  Lit'
<1> DEFINE id == plan[c].id
<1>1. /\ pc[c] = "tools" /\ (Goto(c, "repair") \/ Goto(c, "remember"))
      /\ store' = ToolsRemembered(store, id, req[c].tools, clock)
      /\ UNCHANGED <<records, untrusted, told, issued, req, plan, opened>>
  BY DEF ReadAnswer, provider, upstream, request
<1>2. Busy(c) /\ id \in Ids /\ id \in 1..issued /\ UsesBridge(req[c])
  <2>1. Busy(c)
    BY <1>1 DEF Busy
  <2> QED
    BY <1>1, <2>1, BusyIssued DEF Isolated, Talk
<1>3. store'.bridge = Put(Fresh(store.bridge, clock), {id}, req[c].tools, clock)
  BY <1>1 DEF ToolsRemembered, Isolated, Shape, Maps
<1>4. Within(Fresh(store.bridge, clock), store.bridge)
  BY WithinDrop, WithinSelf DEF Fresh
<1>5. /\ DOMAIN store'.bridge \subseteq DOMAIN store.bridge \cup {id}
      /\ store'.bridge[id].to = req[c].tools
      /\ \A x \in DOMAIN store'.bridge \ {id} :
           x \in DOMAIN store.bridge /\ store'.bridge[x].to = store.bridge[x].to
  BY <1>3, <1>4 DEF Within, Put
<1>6. pc'[c] \in {"repair", "remember"} /\ \A d \in Chats \ {c} : SameRequest(d)
  BY <1>1, Moved DEF SameRequest
<1>7. Light(c)'
  <2>1. id \in DOMAIN records'
    BY <1>1 DEF Lit, Light
  <2>2. Tracked(opened[c])'
    BY <1>1, <1>2, <1>5, <2>1 DEF Lit, Light, Tracked
  <2> QED
    BY <1>1, <1>6, <2>1, <2>2 DEF Light, Tracked
<1>8. ASSUME NEW x \in {id} PROVE Briefed(x)'
  BY <1>1, <1>2, <1>5 DEF Lit, Light, Briefed, Ready
<1>9. SameUpstream({id}) /\ Upstream'
  BY <1>1, <1>2, <1>5 DEF SameUpstream, Lit, Upstream
<1> QED
  BY <1>2, <1>6, <1>7, <1>8, <1>9, OneLight

LEMMA SettledLight ==
  ASSUME Arrays, Isolated, Lit, NEW c \in Chats, pc[c] = "repair", NEW result, Settled(c, result),
         NEW own, own \subseteq {opened[c]}, SameUpstream(own), Upstream',
         \A id \in own : Briefed(id)', UNCHANGED store, DOMAIN records \subseteq DOMAIN records'
  PROVE  Lit'
<1>1. Busy(c)
  BY DEF Busy
<1>2. own = {} \/ (Busy(c) /\ own \subseteq {plan[c].id, opened[c]})
  BY <1>1
<1>3. CASE ~result.ok
  BY <1>2, <1>3, OverLight DEF Settled
<1>4. CASE result.ok
  <2>1. Goto(c, "remember") /\ UNCHANGED <<req, plan, opened>>
    BY <1>4 DEF Settled, request
  <2>2. pc'[c] = "remember" /\ \A d \in Chats \ {c} : SameRequest(d)
    BY <2>1, Moved DEF SameRequest
  <2>3. Light(c)'
    BY <1>1, <2>1, <2>2 DEF Lit, Light, Tracked
  <2> QED
    BY <1>2, <2>2, <2>3, OneLight
<1> QED
  BY <1>3, <1>4

LEMMA RepairLight ==
  ASSUME Kept, Arrays, Isolated, Typed, Lit, NEW c \in Chats, Repair(c) \/ RepairFails(c)
  PROVE  Lit'
<1> DEFINE id == opened[c]
<1>1. PICK result : Settled(c, result)
  BY DEF Repair, RepairFails
<1>2. pc[c] = "repair" /\ UNCHANGED <<store, issued>>
  BY DEF Repair, RepairFails
<1>3. CASE Repair(c)
  <2>1. Busy(c) /\ id \in Ids
    BY <1>2 DEF Isolated, Talk, Busy
  <2>2. Updated(id, {}) /\ told' = Continued(told, id, {req[c].tools})
    BY <1>3 DEF Repair
  <2>3. /\ DOMAIN records' = DOMAIN records \cup {id} /\ untrusted' = untrusted \cup {}
        /\ \A x \in DOMAIN records' : records'[x].at \in Nat
    BY <2>1, <2>2, NoneRemoved DEF Lit
  <2>4. /\ told' = [x \in Ids |-> told'[x]]
        /\ id \in DOMAIN records => told[id] \subseteq told'[id]
        /\ \A x \in Ids \ {id} : told'[x] = told[x]
    BY <2>1, <2>2 DEF Continued, Lit, Upstream
  <2>5. ASSUME NEW x \in {id} PROVE Briefed(x)'
    BY <1>2, <2>1, <2>3, <2>4 DEF Lit, Light, Tracked, Briefed, Ready
  <2>6. SameUpstream({id}) /\ Upstream'
    BY <1>2, <2>3, <2>4 DEF SameUpstream, Lit, Upstream
  <2>7. DOMAIN records \subseteq DOMAIN records'
    BY <2>3
  <2> QED
    BY <1>1, <1>2, <2>5, <2>6, <2>7, SettledLight
<1>4. CASE RepairFails(c)
  <2>1. UNCHANGED <<records, untrusted, told>>
    BY <1>4 DEF RepairFails, provider, upstream
  <2>2. SameUpstream({}) /\ Upstream'
    BY <1>2, <2>1, SameBridge, NothingTold DEF Lit
  <2> QED
    BY <1>1, <1>2, <2>1, <2>2, SettledLight
<1> QED
  BY <1>3, <1>4

LEMMA RememberLight ==
  ASSUME Arrays, Isolated, Typed, Lit, NEW c \in Chats, Remember(c)
  PROVE  Lit'
<1>1. Over(c) /\ UNCHANGED <<records, untrusted, told, issued>>
  BY DEF Remember, provider, upstream
<1>2. Within(store'.bridge, store.bridge)
  <2>1. CASE UNCHANGED store
    BY <2>1, SameBridge
  <2>2. ASSUME NEW pruned \in Pruned(store, clock), NEW turn, store' = Remembered(pruned, turn, clock)
        PROVE  Within(store'.bridge, store.bridge)
    <3>1. store'.bridge = pruned.bridge
      BY <2>2, PrunedNarrows DEF Remembered, Maps
    <3> QED
      BY <3>1, PrunedBridge
  <2> QED
    BY <2>1, <2>2 DEF Remember
<1>3. SameUpstream({}) /\ Upstream'
  BY <1>1, <1>2, NothingTold DEF Lit
<1> QED
  BY <1>1, <1>3, OverLight

(* Between the requests of all chats a record may be lost. *)
LEMMA LostLight ==
  ASSUME Kept, Isolated, Lit, NEW id \in Ids, LoseRecord(id)
  PROVE  Lit'
<1>1. /\ \A c \in Chats : pc'[c] = "idle"
      /\ DOMAIN records' = DOMAIN records \ {id}
      /\ \A x \in DOMAIN records' : records'[x] = records[x]
      /\ untrusted' = untrusted \ {id} /\ UNCHANGED <<store, issued, told>>
  BY DEF LoseRecord, Disturbable, Kept, Quiet, Drop, Restrict, upstream
<1>2. ASSUME NEW c \in Chats PROVE Light(c)'
  BY <1>1 DEF Light, Busy
<1>3. ASSUME NEW x \in Ids PROVE Briefed(x)'
  BY <1>1 DEF Lit, Briefed, Ready
<1> QED
  BY <1>1, <1>2, <1>3 DEF Lit, Upstream

LEMMA LitStep == Kept /\ Inv /\ Isolated /\ Typed /\ Lit /\ [Next]_vars => Lit'
<1> SUFFICES ASSUME Kept, Inv, Isolated, Typed, Lit, [Next]_vars PROVE Lit'
  OBVIOUS
<1>1. Arrays
  BY DEF Inv
<1>2. ASSUME NEW c \in Chats, Turn(c) PROVE Lit'
  <2>1. CASE Ask(c) \/ LookUp(c) \/ PlanNew(c) \/ Forget(c) \/ BuildPrompt(c) \/ Send(c) \/ Emit(c)
    BY <1>1, <2>1, AskLight, LookUpLight, NewLight, BuildPromptLight, SendLight, EmitLight
  <2>2. CASE \/ Answer(c) \/ AnswerElsewhere(c) \/ Fail(c) \/ Reject(c) \/ Recover(c)
             \/ ReadAnswer(c) \/ Repair(c) \/ RepairFails(c) \/ Remember(c)
    BY <1>1, <2>2, AnswerLight, RejectLight, RecoverLight, ReadLight, RepairLight, RememberLight
  <2> QED
    BY <1>2, <2>1, <2>2 DEF Turn
<1>3. ASSUME UNCHANGED <<store, records, untrusted, issued, pc, req, plan, opened, told>>
      PROVE  Lit'
  BY <1>3 DEF Lit, Upstream, Briefed, Light, Busy, Tracked, Ready
<1>4. ASSUME NEW c \in Chats, Branch(c) PROVE Lit'
  BY <1>3, <1>4 DEF Branch, provider, request, upstream
<1>5. ASSUME NEW id \in Ids, LoseRecord(id) PROVE Lit'
  BY <1>5, LostLight
<1>6. CASE Tick
  BY <1>3, <1>6 DEF Tick, provider, request, upstream
<1>7. CASE UNCHANGED vars
  BY <1>3, <1>7 DEF vars, provider, request, upstream
<1> QED
  BY <1>2, <1>4, <1>5, <1>6, <1>7 DEF Next

LEMMA InitLit == Init => Lit
<1> SUFFICES ASSUME Init PROVE Lit
  OBVIOUS
<1>1. DOMAIN store.bridge = {} /\ DOMAIN records = {}
  BY DEF Init, EmptyStore, Empty
<1>2. told = [id \in Ids |-> told[id]]
  BY DEF Init
<1>3. \A c \in Chats : pc[c] = "idle"
  BY DEF Init
<1> QED
  BY <1>1, <1>2, <1>3 DEF Lit, Upstream, Briefed, Light, Busy

(* As long as no record expires or is evicted under a request, the tools   *)
(* are left out of a prompt only where the conversation was told them      *)
(* (buildToolBridgePromptForPlan, toolBridgeContextReady).                 *)
THEOREM LightPromptHolds ==
  ASSUME OwnWords, Kept
  PROVE  Spec => []LightPromptKnown
<1>1. Init => Lit
  BY InitLit
<1>2. Lit => LightPromptKnown
  BY DEF Lit, Light, LightPromptKnown
<1>3. Inv /\ Isolated /\ Typed /\ Lit /\ [Next]_vars => Lit'
  BY LitStep
<1> QED
  BY <1>1, <1>2, <1>3, Invariance, Isolation, Typing, PTL DEF Spec

-----------------------------------------------------------------------------
LEMMA SameSeq ==
  ASSUME NEW s, NEW t, IsSeq(s), IsSeq(t), Len(s) = Len(t), \A i \in 1..Len(s) : s[i] = t[i]
  PROVE  s = t
<1> DEFINE S == Range(s) \cup Range(t)
<1>1. s \in Seq(S) /\ t \in Seq(S)
  BY SeqMonotonic, Range(s) \subseteq S, Range(t) \subseteq S DEF IsSeq
<1> HIDE DEF S
<1> QED
  BY <1>1, SeqEqual

-----------------------------------------------------------------------------
(* A chat and the messages of its next request. *)
LEMMA AppendSeq ==
  ASSUME NEW s, IsSeq(s), NEW m
  PROVE  /\ IsSeq(Append(s, m)) /\ Len(Append(s, m)) = Len(s) + 1
         /\ \A i \in 1..Len(s) : Append(s, m)[i] = s[i]
         /\ Append(s, m)[Len(s) + 1] = m
<1> DEFINE S == Range(s) \cup {m}
<1>1. s \in Seq(S) /\ m \in S
  BY SeqMonotonic, Range(s) \subseteq S DEF IsSeq
<1>2. /\ Append(s, m) \in Seq(S)
      /\ Len(Append(s, m)) = Len(s) + 1
      /\ \A i \in 1..Len(s) : Append(s, m)[i] = s[i]
      /\ Append(s, m)[Len(s) + 1] = m
  BY <1>1, AppendProperties
<1> QED
  BY <1>2, SeqOfRange DEF IsSeq

-----------------------------------------------------------------------------
(***************************************************************************)
(* A chat stays put.  For clients that use no tools, and that send their   *)
(* whole chat or an id of their own, the last turn of a chat is on file    *)
(* under a key that only the chat itself has: what the first lookup of the *)
(* next request asks for.                                                  *)
(***************************************************************************)
Talking == \A s \in Styles : (s.whole \/ s.explicit) /\ s.tools = {{}}

(* The transcripts never fill their map. *)
Roomy == Cardinality(DOMAIN store.transcripts) <= MaxEntries

(* The last turn was recorded, and just now. *)
Live(c) == home[c].id \in Ids /\ home[c].at = clock

HomeName(c) == IF style[c].whole THEN "transcripts" ELSE "explicit"

HomeKey(c) == IF style[c].whole THEN log[c] ELSE <<c>>

OnFile(map, key, id) == key \in DOMAIN map /\ map[key] = [to |-> id, at |-> clock]

AtHome(c, st) ==
  /\ OnFile(st[HomeName(c)], HomeKey(c), home[c].id)
  /\ style[c].whole /\ home[c].id \in DOMAIN st.latest => st.latest[home[c].id] = log[c]

Prosaic(c) ==
  /\ style[c].whole => Len(log[c]) >= 1 /\ log[c][1] = System
  /\ \A i \in 1..Len(log[c]) : log[c][i].role # "calls"
  /\ pc[c] # "idle" => req[c].tools = {} /\ req[c].messages = Messages(c)
  /\ Busy(c) => IF style[c].whole THEN plan[c].main = req[c].messages
                ELSE plan[c].client = <<c>>
  /\ pc[c] = "remember" => outcome[c] = Message(Plain.text)

Remains(c) ==
  /\ home[c].id \in Ids \cup {NoId} /\ home[c].at \in 0..clock
  /\ Live(c) => AtHome(c, store)
  /\ Live(c) /\ pc[c] = "plan" /\ lookups[c] # Lookups(c, req[c].messages) =>
       home[c].id \notin Ready
  /\ Live(c) /\ pc[c] \in {"prompt", "send"} /\ attempt[c] = 1 /\ home[c].id \in Ready =>
       plan[c].id = home[c].id

Stays ==
  /\ style \in [Chats -> Styles] /\ output = [c \in Chats |-> Plain]
  /\ home = [c \in Chats |-> home[c]]
  /\ IsFiniteSet(DOMAIN store.transcripts)
  /\ \A c \in Chats : Prosaic(c) /\ Remains(c)

-----------------------------------------------------------------------------
(* The store. *)
LEMMA LookedUpKeeps ==
  ASSUME NEW c \in Chats, NEW d, NEW said, NEW l, LookupOK(d, said, l), DOMAIN store = Maps,
         clock \in Nat, NEW ready, AtHome(c, store)
  PROVE  /\ AtHome(c, LookedUp(store, l, ready, clock))
         /\ IsFiniteSet(DOMAIN store.transcripts) =>
              IsFiniteSet(DOMAIN LookedUp(store, l, ready, clock).transcripts)
<1> DEFINE name == LookupMap(l.kind)
           map == store[name]
           key == LookupKey(l)
           id == Found(store, l, ready, clock)
           entry == IF id # NoId THEN Put(map, {key}, id, clock)
                    ELSE Drop(map, {key} \cap Stale(map, clock))
           new == LookedUp(store, l, ready, clock)
<1>1. CASE l.kind = "self"
  BY <1>1 DEF LookedUp
<1>2. CASE l.kind # "self"
  <2>1. name \in Derived \cup {"explicit"} /\ name \in Maps
    BY <1>2, LookupMapName DEF Maps, Derived
  <2>2. new = [store EXCEPT ![name] = entry]
    BY <1>2 DEF LookedUp
  <2>3. id # NoId => key \in DOMAIN map /\ map[key].to = id
    BY <1>2 DEF Found, Stale
  <2>4. ASSUME NEW k, NEW x, OnFile(map, k, x) PROVE OnFile(entry, k, x)
    <3> HIDE DEF map, key, id
    <3>1. CASE id # NoId
      BY <2>3, <2>4, <3>1 DEF OnFile, Put
    <3>2. CASE id = NoId
      <4>1. k \notin Stale(map, clock)
        BY <2>4, TTLAssumption DEF OnFile, Stale
      <4> QED
        BY <2>4, <3>2, <4>1 DEF OnFile, Drop, Restrict
    <3> QED
      BY <3>1, <3>2
  <2>5. DOMAIN entry \subseteq DOMAIN map
    <3> HIDE DEF map, key, id
    <3> QED
      BY <2>3 DEF Put, Drop, Restrict
  <2>6. name # "latest"
    BY <2>1 DEF Derived
  <2> HIDE DEF entry, name, map, new
  <2>7. \A n \in {"transcripts", "explicit"} : \A k, x : OnFile(store[n], k, x) => OnFile(new[n], k, x)
    <3> SUFFICES ASSUME NEW n \in {"transcripts", "explicit"}, NEW k, NEW x, OnFile(store[n], k, x)
                 PROVE  OnFile(new[n], k, x)
      OBVIOUS
    <3>1. n \in Maps
      BY DEF Maps
    <3>2. new[n] = IF n = name THEN entry ELSE store[n]
      BY <2>1, <2>2, <3>1
    <3> QED
      BY <2>4, <3>2 DEF map
  <2>8. new.latest = store.latest
    BY <2>1, <2>2, <2>6 DEF Maps
  <2>9. AtHome(c, new)
    BY <2>7, <2>8 DEF AtHome, HomeName
  <2>10. DOMAIN new.transcripts \subseteq DOMAIN store.transcripts
    <3>1. new.transcripts = IF "transcripts" = name THEN entry ELSE store.transcripts
      BY <2>1, <2>2 DEF Maps
    <3> QED
      BY <2>5, <3>1 DEF map
  <2> QED
    BY <2>9, <2>10, FS_Subset DEF new
<1> QED
  BY <1>1, <1>2

LEMMA PrunedParts ==
  ASSUME NEW st, NEW now, NEW pruned \in Pruned(st, now)
  PROVE  \E E \in Oldest(Fresh(st.transcripts, now), MaxEntries) :
           /\ pruned.transcripts = Drop(Fresh(st.transcripts, now), E)
           /\ \E gone : pruned.latest = Drop(st.latest, gone)
           /\ pruned.explicit = Fresh(st.explicit, now)
<1>1. PICK E \in Oldest(Fresh(st.transcripts, now), MaxEntries),
           retained \in Trims(Fresh(st.retained, now)),
           roots \in Trims(Fresh(st.roots, now)),
           suffixes \in Trims(Fresh(st.suffixes, now)),
           windows \in Trims(Fresh(st.windows, now)) :
        pruned = [transcripts |-> Drop(Fresh(st.transcripts, now), E),
                  latest |-> Drop(st.latest, Superseded(st, Stale(st.transcripts, now))
                                             \cup Superseded(st, E)),
                  retained |-> retained, roots |-> roots,
                  suffixes |-> suffixes, windows |-> windows,
                  explicit |-> Fresh(st.explicit, now),
                  bridge |-> Fresh(st.bridge, now)]
  BY DEF Pruned
<1> QED
  BY <1>1

LEMMA PrunedKeeps ==
  ASSUME Roomy, IsFiniteSet(DOMAIN store.transcripts), clock \in Nat,
         NEW pruned \in Pruned(store, clock)
  PROVE  /\ \A c : AtHome(c, store) => AtHome(c, pruned)
         /\ IsFiniteSet(DOMAIN pruned.transcripts)
<1> DEFINE fresh == Fresh(store.transcripts, clock)
<1>1. DOMAIN fresh \subseteq DOMAIN store.transcripts
  BY DEF Fresh, Drop, Restrict
<1>2. Oldest(fresh, MaxEntries) = {{}}
  <2>1. /\ Cardinality(DOMAIN fresh) \in Nat /\ Cardinality(DOMAIN store.transcripts) \in Nat
        /\ Cardinality(DOMAIN fresh) <= Cardinality(DOMAIN store.transcripts)
    BY <1>1, FS_Subset, FS_CardinalityType
  <2>2. Cardinality(DOMAIN fresh) - MaxEntries <= 0
    BY <2>1, EntriesAssumption DEF Roomy
  <2> HIDE DEF fresh
  <2> QED
    BY <2>2 DEF Oldest
<1>3. PICK E \in Oldest(fresh, MaxEntries) :
        /\ pruned.transcripts = Drop(fresh, E)
        /\ \E gone : pruned.latest = Drop(store.latest, gone)
        /\ pruned.explicit = Fresh(store.explicit, clock)
  BY PrunedParts
<1>4. ASSUME NEW map, NEW key, NEW id, OnFile(map, key, id) PROVE OnFile(Fresh(map, clock), key, id)
  <2>1. key \notin Stale(map, clock)
    BY <1>4, TTLAssumption DEF OnFile, Stale
  <2> QED
    BY <1>4, <2>1 DEF OnFile, Fresh, Drop, Restrict
<1>5. DOMAIN pruned.transcripts = DOMAIN fresh /\ \A k \in DOMAIN fresh : pruned.transcripts[k] = fresh[k]
  <2> HIDE DEF fresh
  <2> QED
    BY <1>2, <1>3 DEF Drop, Restrict
<1>6. \A key, id : OnFile(store.transcripts, key, id) => OnFile(pruned.transcripts, key, id)
  BY <1>4, <1>5 DEF OnFile
<1>7. \A key, id : OnFile(store.explicit, key, id) => OnFile(pruned.explicit, key, id)
  BY <1>3, <1>4
<1>8. \A id \in DOMAIN pruned.latest : id \in DOMAIN store.latest /\ pruned.latest[id] = store.latest[id]
  BY <1>3 DEF Drop, Restrict
<1>9. IsFiniteSet(DOMAIN pruned.transcripts)
  BY <1>1, <1>5, FS_Subset
<1> HIDE DEF fresh
<1> QED
  BY <1>6, <1>7, <1>8, <1>9 DEF AtHome, HomeName

(* Forgetting another conversation. *)
LEMMA ForgottenKeeps ==
  ASSUME NEW c, NEW id, AtHome(c, store) => id # home[c].id
  PROVE  /\ AtHome(c, store) => AtHome(c, Forgotten(store, id))
         /\ IsFiniteSet(DOMAIN store.transcripts) =>
              IsFiniteSet(DOMAIN Forgotten(store, id).transcripts)
<1>1. ASSUME NEW map, NEW key, OnFile(map, key, home[c].id), AtHome(c, store)
      PROVE  OnFile(Drop(map, To(map, id)), key, home[c].id)
  BY <1>1 DEF OnFile, Drop, Restrict, To
<1>2. /\ Forgotten(store, id).transcripts = Drop(store.transcripts, To(store.transcripts, id))
      /\ Forgotten(store, id).explicit = Drop(store.explicit, To(store.explicit, id))
      /\ Forgotten(store, id).latest = Drop(store.latest, {id})
  BY DEF Forgotten
<1>3. DOMAIN Forgotten(store, id).transcripts \subseteq DOMAIN store.transcripts
  BY <1>2 DEF Drop, Restrict
<1>4. \A x \in DOMAIN Forgotten(store, id).latest :
        x \in DOMAIN store.latest /\ Forgotten(store, id).latest[x] = store.latest[x]
  BY <1>2 DEF Drop, Restrict
<1>5. AtHome(c, store) => AtHome(c, Forgotten(store, id))
  BY <1>1, <1>2, <1>4 DEF AtHome, HomeName
<1> QED
  BY <1>3, <1>5, FS_Subset

(* The conversation of the last turn belongs to its chat. *)
LEMMA HomeOwned ==
  ASSUME Isolated, NEW c \in Chats, Live(c), AtHome(c, store), NEW d \in Chats,
         home[c].id \in {plan[d].id, opened[d]}
  PROVE  d = c
<1>1. PICK e \in Chats : Holds(e, home[c].id)
  BY DEF Isolated, Apart, Live
<1>2. d = e
  BY <1>1 DEF Holds
<1>3. /\ HomeKey(c) \in DOMAIN store[HomeName(c)]
      /\ store[HomeName(c)][HomeKey(c)].to = home[c].id
  BY DEF AtHome, OnFile
<1>4. CASE style[c].whole
  <2>1. Names(e, log[c])
    BY <1>1, <1>3, <1>4 DEF HomeName, HomeKey, Holds, StoreFor, Derived
  <2>2. AllOf(c, Sayable(c), log[c])
    BY DEF Isolated, Talk
  <2>3. \A i \in DOMAIN log[c] : Of(c, Sayable(c), log[c][i])
    BY <2>2, SeqShape DEF AllOf
  <2> QED
    BY <1>2, <2>1, <2>3, OneName
<1>5. CASE ~style[c].whole
  <2>1. <<c>> = <<e>>
    BY <1>1, <1>3, <1>5 DEF HomeName, HomeKey, Holds, StoreFor
  <2> QED
    BY <1>2, <2>1
<1> QED
  BY <1>4, <1>5

(* The turn of another chat is filed elsewhere. *)
LEMMA OtherRemembered ==
  ASSUME Isolated, NEW c \in Chats, Live(c), NEW st, DOMAIN st = Maps, AtHome(c, st),
         NEW turn, NEW d \in Chats \ {c}, turn.id # home[c].id,
         AllOf(d, Sayable(d), Retained(st, turn.id)), PlanOK(d, Sayable(d), plan[d]),
         turn.main = plan[d].main, turn.client = plan[d].client, turn.reply.role = "assistant"
  PROVE  AtHome(c, Remembered(st, turn, clock))
<1> DEFINE asked == Merged(Retained(st, turn.id), turn.main)
           next == Append(asked, turn.reply)
           new == Remembered(st, turn, clock)
<1>1. /\ new.transcripts = Put(st.transcripts, {asked, next}, turn.id, clock)
      /\ new.explicit = Put(st.explicit, {turn.client} \ {<<>>}, turn.id, clock)
      /\ new.latest = [id \in DOMAIN st.latest \cup {turn.id} |->
                         IF id = turn.id THEN next ELSE st.latest[id]]
  BY DEF Remembered, Maps
<1>2. AllOf(d, Sayable(d), asked) /\ Ends(d, asked) /\ Len(asked) \in Nat
  <2>1. AllOf(d, Sayable(d), asked) /\ Ends(d, asked)
    BY MergedEnds DEF PlanOK
  <2> QED
    BY <2>1, SeqShape DEF AllOf
<1>3. /\ AllOf(d, Sayable(d), next) /\ Len(next) = Len(asked) + 1
      /\ \A i \in 1..Len(asked) : next[i] = asked[i]
  <2> HIDE DEF asked
  <2> QED
    BY <1>2, AppendAll DEF Of
<1> HIDE DEF asked, next, new
<1>4. Names(d, asked) /\ Names(d, next)
  <2>1. Len(asked) \in DOMAIN asked /\ Len(asked) \in DOMAIN next
    BY <1>2, <1>3, SeqShape DEF AllOf, Ends
  <2> QED
    BY <1>2, <1>3, <2>1 DEF Names, Ends
<1>5. AllOf(c, Sayable(c), log[c])
  BY DEF Isolated, Talk
<1>6. \A i \in DOMAIN log[c] : Of(c, Sayable(c), log[c][i])
  BY <1>5, SeqShape DEF AllOf
<1>7. ~Names(d, log[c])
  BY <1>6, OneName
<1>8. log[c] \notin {asked, next}
  BY <1>4, <1>7
<1>9. <<c>> \notin {turn.client} \ {<<>>}
  <2>1. turn.client \in {<<>>, <<d>>}
    BY DEF PlanOK
  <2>2. <<c>> # <<d>>
    OBVIOUS
  <2> QED
    BY <2>1, <2>2
<1>10. ASSUME NEW map, NEW keys, NEW key, key \notin keys, OnFile(map, key, home[c].id)
       PROVE  OnFile(Put(map, keys, turn.id, clock), key, home[c].id)
  BY <1>10 DEF OnFile, Put
<1>11. AtHome(c, new)
  <2>1. home[c].id \in DOMAIN new.latest =>
          home[c].id \in DOMAIN st.latest /\ new.latest[home[c].id] = st.latest[home[c].id]
    BY <1>1
  <2>2. OnFile(new[HomeName(c)], HomeKey(c), home[c].id)
    BY <1>1, <1>8, <1>9, <1>10 DEF AtHome, HomeName, HomeKey
  <2> QED
    BY <2>1, <2>2 DEF AtHome
<1> QED
  BY <1>11 DEF new

-----------------------------------------------------------------------------
(* The messages of a request. *)
LEMMA JoinTwo ==
  ASSUME NEW s, IsSeq(s), NEW a, NEW b
  PROVE  s \o <<a, b>> = Append(Append(s, a), b)
<1> DEFINE S == Range(s) \cup {a, b}
           two == <<a, b>>
<1>1. s \in Seq(S) /\ Len(s) \in Nat
  BY SeqMonotonic, SeqShape, Range(s) \subseteq S DEF IsSeq
<1>2. two \in Seq(S) /\ Len(two) = 2 /\ two[1] = a /\ two[2] = b
  OBVIOUS
<1> HIDE DEF S, two
<1>3. /\ s \o two \in Seq(S) /\ Len(s \o two) = Len(s) + 2
      /\ \A i \in 1..Len(s) + 2 : (s \o two)[i] = IF i <= Len(s) THEN s[i] ELSE two[i - Len(s)]
  <2>1. /\ s \o two \in Seq(S) /\ Len(s \o two) = Len(s) + Len(two)
        /\ \A i \in 1..Len(s) + Len(two) :
             (s \o two)[i] = IF i <= Len(s) THEN s[i] ELSE two[i - Len(s)]
    BY <1>1, <1>2, ConcatProperties
  <2> QED
    BY <1>2, <2>1
<1>4. IsSeq(s \o two)
  BY <1>3, SeqOfRange DEF IsSeq
<1> DEFINE one == Append(s, a)
<1>5. IsSeq(one) /\ Len(one) = Len(s) + 1 /\ (\A i \in 1..Len(s) : one[i] = s[i]) /\ one[Len(s) + 1] = a
  BY AppendSeq
<1> HIDE DEF one
<1>6. /\ IsSeq(Append(one, b)) /\ Len(Append(one, b)) = Len(s) + 2
      /\ \A i \in 1..(Len(s) + 1) : Append(one, b)[i] = one[i]
      /\ Append(one, b)[Len(s) + 2] = b
  <2>1. /\ IsSeq(Append(one, b)) /\ Len(Append(one, b)) = Len(one) + 1
        /\ \A i \in 1..Len(one) : Append(one, b)[i] = one[i]
        /\ Append(one, b)[Len(one) + 1] = b
    BY <1>5, AppendSeq
  <2> QED
    BY <1>1, <1>5, <2>1
<1>7. ASSUME NEW i \in 1..(Len(s) + 2) PROVE (s \o two)[i] = Append(one, b)[i]
  <2>1. CASE i <= Len(s)
    BY <1>1, <1>3, <1>5, <1>6, <2>1
  <2>2. CASE i = Len(s) + 1
    <3>1. (s \o two)[i] = two[i - Len(s)] /\ i - Len(s) = 1
      BY <1>1, <1>3, <2>2
    <3>2. Append(one, b)[i] = one[i]
      BY <1>1, <1>6, <2>2
    <3> QED
      BY <1>2, <1>5, <2>2, <3>1, <3>2
  <2>3. CASE i = Len(s) + 2
    <3>1. (s \o two)[i] = two[i - Len(s)] /\ i - Len(s) = 2
      BY <1>1, <1>3, <2>3
    <3> QED
      BY <1>2, <1>6, <2>3, <3>1
  <2>4. i <= Len(s) \/ i = Len(s) + 1 \/ i = Len(s) + 2
    BY <1>1
  <2> QED
    BY <2>1, <2>2, <2>3, <2>4
<1>8. s \o two = Append(one, b)
  BY <1>3, <1>4, <1>6, <1>7, SameSeq
<1> QED
  BY <1>8 DEF one, two

LEMMA FrontAppend ==
  ASSUME NEW s, IsSeq(s), NEW m
  PROVE  Front(Append(s, m)) = s
<1> DEFINE chat == Append(s, m)
<1>1. /\ IsSeq(chat) /\ Len(chat) = Len(s) + 1 /\ Len(s) \in Nat
      /\ \A i \in 1..Len(s) : chat[i] = s[i]
  BY AppendSeq, SeqShape
<1> HIDE DEF chat
<1>2. chat \in Seq(Range(chat))
  BY <1>1 DEF IsSeq
<1>3. /\ SubSeq(chat, 1, Len(s)) \in Seq(Range(chat)) /\ Len(SubSeq(chat, 1, Len(s))) = Len(s)
      /\ \A i \in 1..Len(s) : SubSeq(chat, 1, Len(s))[i] = chat[i]
  BY <1>1, <1>2, SubSeqProperties
<1>4. IsSeq(SubSeq(chat, 1, Len(s)))
  BY <1>3, SeqOfRange DEF IsSeq
<1>5. SubSeq(chat, 1, Len(s)) = s
  BY <1>1, <1>3, <1>4, SameSeq
<1> QED
  BY <1>1, <1>5 DEF Front, chat

LEMMA NoQuestion ==
  ASSUME NEW c \in Chats, Prosaic(c), IsSeq(log[c])
  PROVE  /\ ~AwaitsTool(log[c]) /\ NewMessage(c).role = "user"
<1>1. ~AwaitsTool(log[c])
  BY SeqShape DEF AwaitsTool, Last, Prosaic
<1> QED
  BY <1>1, NewRole

LEMMA MessagesAre ==
  ASSUME NEW c \in Chats, Prosaic(c), Isolated
  PROVE  /\ ~IsToolResult(Messages(c)) /\ IsSeq(log[c])
         /\ style[c].whole => /\ Messages(c) = Append(log[c], NewMessage(c))
                              /\ Len(Messages(c)) >= 2
                              /\ Continues(Messages(c)) /\ Front(Messages(c)) = log[c]
         /\ ~style[c].whole => ~Continues(Messages(c))
<1> DEFINE new == NewMessage(c)
           chat == Append(log[c], new)
           n == Len(log[c]) + 1
<1>1. IsSeq(log[c]) /\ Len(log[c]) \in Nat
  BY SeqShape DEF Isolated, Talk, AllOf
<1>2. new.role = "user"
  BY <1>1, NoQuestion
<1> HIDE DEF new
<1>3. /\ IsSeq(chat) /\ Len(chat) = n /\ chat[n] = new
      /\ \A i \in 1..Len(log[c]) : chat[i] = log[c][i]
  BY <1>1, AppendSeq
<1>4. Front(chat) = log[c]
  BY <1>1, FrontAppend
<1> HIDE DEF chat
<1>5. CASE style[c].whole
  <2>1. Messages(c) = chat
    BY <1>5 DEF Messages, chat, new
  <2>2. Len(chat) >= 2 /\ Last(chat) = new
    BY <1>1, <1>3, <1>5 DEF Prosaic, Last
  <2> QED
    BY <1>1, <1>2, <1>4, <1>5, <2>1, <2>2 DEF Continues, IsUser, IsToolResult, chat, new
<1>6. CASE ~style[c].whole
  <2>1. LastAt(chat, "user") = n
    BY <1>1, <1>2, <1>3, LastIs
  <2>2. Messages(c) = SubSeq(chat, n, n)
    BY <1>3, <1>6, <2>1 DEF Messages, chat, new
  <2>3. Len(SubSeq(chat, n, n)) = 1 /\ SubSeq(chat, n, n)[1] = new
    BY <1>1, <1>3, SubSeqProperties DEF IsSeq
  <2>4. ~IsToolResult(Messages(c)) /\ ~Continues(Messages(c))
    BY <1>2, <2>2, <2>3 DEF IsToolResult, Continues, Last
  <2> QED
    BY <1>1, <1>6, <2>4
<1> QED
  BY <1>5, <1>6

(* The first lookup asks for the key of the last turn. *)
LEMMA FirstLookup ==
  ASSUME Talking, Stays, Isolated, NEW c \in Chats
  PROVE  /\ Lookups(c, Messages(c)) # <<>>
         /\ Head(Lookups(c, Messages(c))).kind =
              IF style[c].whole THEN "transcript" ELSE "explicit"
         /\ Head(Lookups(c, Messages(c))).messages = HomeKey(c)
         /\ Tail(Lookups(c, Messages(c))) # Lookups(c, Messages(c))
<1>1. Prosaic(c) /\ (style[c].whole \/ style[c].explicit)
  BY DEF Stays, Talking
<1> DEFINE ms == Messages(c)
<1>2. CASE style[c].whole
  <2> DEFINE ls == Tries(<<"transcript", "suffix", "window", "root">>, log[c])
  <2>1. Lookups(c, ms) = ls
    BY <1>2, MessagesAre DEF Lookups, Stays
  <2>2. ls = <<[kind |-> "transcript", messages |-> log[c]], [kind |-> "suffix", messages |-> log[c]],
               [kind |-> "window", messages |-> log[c]], [kind |-> "root", messages |-> log[c]]>>
    BY DEF Tries
  <2>3. ls # <<>> /\ Head(ls) = [kind |-> "transcript", messages |-> log[c]] /\ Len(Tail(ls)) = 3 /\ Len(ls) = 4
    BY <2>2
  <2> QED
    BY <1>2, <2>1, <2>3 DEF HomeKey
<1>3. CASE ~style[c].whole
  <2> DEFINE ls == Tries(<<"explicit", "self">>, <<c>>)
  <2>1. Lookups(c, ms) = ls
    BY <1>1, <1>3, MessagesAre DEF Lookups, Stays
  <2>2. ls = <<[kind |-> "explicit", messages |-> <<c>>], [kind |-> "self", messages |-> <<c>>]>>
    BY DEF Tries
  <2>3. ls # <<>> /\ Head(ls) = [kind |-> "explicit", messages |-> <<c>>] /\ Len(Tail(ls)) = 1 /\ Len(ls) = 2
    BY <2>2
  <2> QED
    BY <1>3, <2>1, <2>3 DEF HomeKey
<1> QED
  BY <1>2, <1>3

(* And finds its conversation, if that is ready. *)
LEMMA FirstFinds ==
  ASSUME Stays, Isolated, Typed, NEW c \in Chats, Live(c), home[c].id \in Ready, NEW l,
         l.kind = IF style[c].whole THEN "transcript" ELSE "explicit",
         l.messages = HomeKey(c)
  PROVE  Found(store, l, Ready, clock) = home[c].id
<1> DEFINE map == store[HomeName(c)]
           key == HomeKey(c)
<1>1. l.kind # "self" /\ LookupMap(l.kind) = HomeName(c) /\ LookupKey(l) = key
  BY DEF LookupMap, HomeName, LookupKey
<1>2. AtHome(c, store) /\ clock \in Nat
  BY BoundsAssumption DEF Stays, Remains, Typed
<1>3. key \in DOMAIN map /\ map[key].to = home[c].id /\ map[key].at = clock
  BY <1>2 DEF AtHome, OnFile
<1>4. key # NoKey
  <2>1. Prosaic(c) /\ IsSeq(log[c])
    BY DEF Stays, Isolated, Talk, AllOf
  <2> QED
    BY <2>1, SeqShape DEF Prosaic, HomeKey, NoKey
<1>5. AtFront(store, l, home[c].id)
  BY <1>2 DEF AtFront, AtHome, HomeKey
<1> HIDE DEF map, key
<1>6. key \notin Stale(map, clock)
  BY <1>2, <1>3, TTLAssumption DEF Stale
<1> QED
  BY <1>1, <1>3, <1>4, <1>5, <1>6 DEF Found, map, key

-----------------------------------------------------------------------------
(* What a step leaves alone of a chat. *)
SameChat(d) ==
  /\ log'[d] = log[d] /\ branches'[d] = branches[d] /\ home'[d] = home[d]
  /\ pc'[d] = pc[d] /\ req'[d] = req[d] /\ lookups'[d] = lookups[d]
  /\ plan'[d] = plan[d] /\ attempt'[d] = attempt[d] /\ outcome'[d] = outcome[d]

Calm(d) ==
  Live(d) => /\ AtHome(d, store')
             /\ home[d].id \in Ready' => home[d].id \in Ready

Steady == style' = style /\ clock' = clock

LEMMA MessagesSame ==
  ASSUME NEW c \in Chats, log'[c] = log[c], branches'[c] = branches[c], style' = style
  PROVE  Messages(c)' = Messages(c) /\ \A ms : Lookups(c, ms)' = Lookups(c, ms)
BY SayableSame DEF Messages, Lookups

LEMMA ChatStays ==
  ASSUME NEW d \in Chats, Prosaic(d), Remains(d), Steady, SameChat(d), Calm(d)
  PROVE  Prosaic(d)' /\ Remains(d)'
<1>1. Messages(d)' = Messages(d) /\ Lookups(d, req[d].messages)' = Lookups(d, req[d].messages)
  <2>1. Messages(d)' = Messages(d)
    BY MessagesSame DEF Steady, SameChat
  <2>2. Lookups(d, req[d].messages)' = Lookups(d, req[d].messages)
    BY DEF Lookups, Steady, SameChat
  <2> QED
    BY <2>1, <2>2
<1>2. Prosaic(d)'
  BY <1>1 DEF Prosaic, SameChat, Steady, Busy
<1>3. Live(d)' <=> Live(d)
  BY DEF Live, SameChat, Steady
<1>4. Live(d) => AtHome(d, store)'
  BY DEF AtHome, HomeName, HomeKey, OnFile, SameChat, Steady, Calm
<1>5. Remains(d)'
  BY <1>1, <1>3, <1>4 DEF Remains, SameChat, Steady, Calm
<1> QED
  BY <1>2, <1>5

(* A step of one chat. *)
LEMMA OneStays ==
  ASSUME Stays, NEW c \in Chats, Steady, output' = [d \in Chats |-> Plain],
         home' = [d \in Chats |-> home'[d]], IsFiniteSet(DOMAIN store'.transcripts),
         \A d \in Chats \ {c} : SameChat(d) /\ Calm(d), Prosaic(c)', Remains(c)'
  PROVE  Stays'
<1>1. ASSUME NEW d \in Chats \ {c} PROVE Prosaic(d)' /\ Remains(d)'
  BY ChatStays DEF Stays
<1> QED
  BY <1>1 DEF Stays, Steady

(* The chat itself: what it has said and where its last turn is. *)
LEMMA OwnProsaic ==
  ASSUME NEW c \in Chats, Prosaic(c), Steady, log'[c] = log[c], branches'[c] = branches[c],
         pc'[c] # "idle" => req'[c].tools = {} /\ req'[c].messages = Messages(c),
         Busy(c)' => IF style[c].whole THEN plan'[c].main = Messages(c)
                     ELSE plan'[c].client = <<c>>,
         pc'[c] = "remember" => outcome'[c] = Message(Plain.text)
  PROVE  Prosaic(c)'
<1>1. Messages(c)' = Messages(c)
  BY MessagesSame DEF Steady
<1>2. (Busy(c)' => pc'[c] # "idle")
  BY DEF Busy
<1> QED
  BY <1>1, <1>2 DEF Prosaic, Steady

LEMMA OwnRemains ==
  ASSUME NEW c \in Chats, Remains(c), Steady, log'[c] = log[c], home'[c] = home[c],
         Live(c) => AtHome(c, store'),
         Live(c) /\ pc'[c] = "plan" /\ lookups'[c] # Lookups(c, req'[c].messages) =>
           home[c].id \notin Ready',
         Live(c) /\ pc'[c] \in {"prompt", "send"} /\ attempt'[c] = 1 /\ home[c].id \in Ready' =>
           plan'[c].id = home[c].id
  PROVE  Remains(c)'
<1>1. Live(c)' <=> Live(c)
  BY DEF Live, Steady
<1>2. Live(c) => AtHome(c, store)'
  BY DEF AtHome, HomeName, HomeKey, OnFile, Steady
<1>3. Lookups(c, req[c].messages)' = Lookups(c, req'[c].messages)
  BY DEF Lookups, Steady
<1> QED
  BY <1>1, <1>2, <1>3 DEF Remains, Steady

(* A step that files nothing and makes no conversation ready disturbs no chat. *)
LEMMA AllCalm ==
  ASSUME Stays, store' = store, Ready' \subseteq Ready
  PROVE  IsFiniteSet(DOMAIN store'.transcripts) /\ \A d \in Chats : Calm(d)
BY DEF Stays, Remains, Calm

(* A conversation becomes ready only when it is updated. *)
LEMMA UpdatedReady ==
  ASSUME NEW id, NEW flagged, Updated(id, flagged), NEW x, x # id, x \in Ready'
  PROVE  x \in Ready
<1>1. PICK surplus :
        /\ records' = Put(Drop(Drop(records, Stale(records, clock)), surplus), {id}, id, clock)
        /\ untrusted' = (untrusted \cup flagged) \ (Stale(records, clock) \cup surplus)
  BY DEF Updated
<1>2. /\ x \in DOMAIN records /\ x \notin Stale(records, clock) /\ x \notin surplus
  BY <1>1 DEF Ready, Put, Drop, Restrict
<1> QED
  BY <1>1, <1>2 DEF Ready

LEMMA UpdatedCalm ==
  ASSUME Stays, Isolated, NEW c \in Chats, Updated(plan[c].id, {}) \/ Updated(plan[c].id, {plan[c].id}),
         store' = store
  PROVE  /\ IsFiniteSet(DOMAIN store'.transcripts) /\ \A d \in Chats \ {c} : Calm(d)
         /\ Live(c) => AtHome(c, store')
<1>1. ASSUME NEW d \in Chats \ {c} PROVE Calm(d)
  <2> SUFFICES ASSUME Live(d) PROVE AtHome(d, store') /\ (home[d].id \in Ready' => home[d].id \in Ready)
    BY DEF Calm
  <2>1. AtHome(d, store)
    BY DEF Stays, Remains
  <2>2. home[d].id # plan[c].id
    BY <2>1, HomeOwned
  <2> QED
    BY <2>1, <2>2, UpdatedReady
<1> QED
  BY <1>1 DEF Stays, Remains

(* No tools are used. *)
LEMMA Toolless ==
  ASSUME Isolated, Stays, NEW c \in Chats, pc[c] # "idle"
  PROVE  /\ ~UsesBridge(req[c]) /\ pc[c] \notin {"tools", "repair"}
         /\ pc[c] = "remember" => outcome[c].calls = <<>>
<1>1. ~UsesBridge(req[c])
  BY DEF Stays, Prosaic, UsesBridge, HasTools
<1> QED
  BY <1>1 DEF Isolated, Talk

-----------------------------------------------------------------------------
(* A request that ends. *)
LEMMA OverStays ==
  ASSUME Arrays, Isolated, Stays, Inv, NEW c \in Chats, Over(c), Steady, UNCHANGED <<log, branches, home>>,
         IsFiniteSet(DOMAIN store'.transcripts), \A d \in Chats \ {c} : Calm(d),
         Live(c) => AtHome(c, store')
  PROVE  Stays'
<1>1. pc'[c] = "idle" /\ output' = [d \in Chats |-> Plain] /\ \A d \in Chats \ {c} : SameChat(d)
  BY DEF Over, Goto, Arrays, Isolated, Shape, SameChat, Stays
<1>2. Prosaic(c) /\ Remains(c)
  BY DEF Stays
<1>3. Prosaic(c)'
  BY <1>1, <1>2, OwnProsaic DEF Busy
<1>4. Remains(c)'
  BY <1>1, <1>2, OwnRemains
<1>5. home' = [d \in Chats |-> home'[d]]
  BY DEF Stays
<1> QED
  BY <1>1, <1>3, <1>4, <1>5, OneStays

(* A request that moves on, and leaves its plan alone but for the prompt. *)
LEMMA MoveStays ==
  ASSUME Arrays, Isolated, Stays, NEW c \in Chats, NEW label, Goto(c, label),
         label \notin {"idle", "plan", "prompt", "send"}, pc[c] \notin {"idle", "plan"},
         Steady, UNCHANGED <<log, branches, home, req, lookups, attempt>>,
         output' = [d \in Chats |-> Plain],
         \A d \in Chats \ {c} : plan'[d] = plan[d] /\ outcome'[d] = outcome[d],
         plan'[c].main = plan[c].main, plan'[c].client = plan[c].client,
         label = "remember" => outcome'[c] = Message(Plain.text),
         IsFiniteSet(DOMAIN store'.transcripts), \A d \in Chats \ {c} : Calm(d),
         Live(c) => AtHome(c, store')
  PROVE  Stays'
<1>1. pc'[c] = label /\ \A d \in Chats \ {c} : pc'[d] = pc[d]
  BY Moved
<1>2. \A d \in Chats \ {c} : SameChat(d)
  BY <1>1 DEF SameChat
<1>3. Prosaic(c) /\ Remains(c)
  BY DEF Stays
<1>4. Prosaic(c)'
  BY <1>1, <1>3, OwnProsaic DEF Busy, Prosaic
<1>5. Remains(c)'
  BY <1>1, <1>3, OwnRemains
<1>6. home' = [d \in Chats |-> home'[d]]
  BY DEF Stays
<1> QED
  BY <1>2, <1>4, <1>5, <1>6, OneStays

LEMMA AskStays ==
  ASSUME Talking, Arrays, Isolated, Stays, NEW c \in Chats, Ask(c)
  PROVE  Stays'
<1>1. /\ pc[c] = "idle" /\ Goto(c, "plan") /\ Steady
      /\ UNCHANGED <<store, records, untrusted, log, style, branches, home, plan, attempt, output, outcome>>
      /\ lookups' = [lookups EXCEPT ![c] = Lookups(c, Messages(c))]
  BY DEF Ask, provider, client, progress, bounds, Steady
<1>2. Prosaic(c) /\ Remains(c) /\ style[c].tools = {{}}
  BY DEF Stays, Talking
<1>3. req'[c].messages = Messages(c) /\ req'[c].tools = {} /\ \A d \in Chats \ {c} : req'[d] = req[d]
  <2>1. \A tools \in (IF AwaitsTool(log[c]) THEN {{}} ELSE style[c].tools) : tools = {}
    BY <1>2
  <2>2. PICK stream, choice : req' = [req EXCEPT ![c] = Request(c, stream, {}, choice)]
    BY <2>1 DEF Ask
  <2> QED
    BY <2>2 DEF Arrays, Request
<1>4. pc'[c] = "plan" /\ \A d \in Chats \ {c} : pc'[d] = pc[d]
  BY <1>1, Moved
<1>5. lookups'[c] = Lookups(c, Messages(c)) /\ \A d \in Chats \ {c} : lookups'[d] = lookups[d]
  BY <1>1 DEF Isolated, Shape
<1>6. IsFiniteSet(DOMAIN store'.transcripts) /\ \A d \in Chats : Calm(d)
  BY <1>1, AllCalm DEF Ready
<1>7. \A d \in Chats \ {c} : SameChat(d)
  BY <1>1, <1>3, <1>4, <1>5 DEF SameChat
<1>8. Prosaic(c)'
  BY <1>1, <1>2, <1>3, <1>4, OwnProsaic DEF Busy
<1>9. Remains(c)'
  BY <1>1, <1>2, <1>3, <1>4, <1>5, <1>6, OwnRemains DEF Calm
<1>10. home' = [d \in Chats |-> home'[d]] /\ output' = [d \in Chats |-> Plain]
  BY <1>1 DEF Stays
<1> QED
  BY <1>1, <1>6, <1>7, <1>8, <1>9, <1>10, OneStays

(* The plan of a request without tools. *)
LEMMA PlannedFor ==
  ASSUME Talking, Isolated, Stays, NEW c \in Chats, pc[c] # "idle", NEW id, NEW auto
  PROVE  /\ Planned(c, id, auto).id = id
         /\ IF style[c].whole THEN Planned(c, id, auto).main = Messages(c)
            ELSE Planned(c, id, auto).client = <<c>>
<1>1. req[c].messages = Messages(c) /\ ~IsToolResult(Messages(c)) /\ (style[c].whole \/ style[c].explicit)
  BY MessagesAre DEF Stays, Prosaic, Talking
<1> QED
  BY <1>1 DEF Planned

LEMMA LookUpStays ==
  ASSUME Talking, Arrays, Isolated, Typed, Stays, NEW c \in Chats, LookUp(c)
  PROVE  Stays'
<1> DEFINE l == Head(lookups[c])
           id == Found(store, l, Ready, clock)
<1>1. /\ pc[c] = "plan" /\ lookups[c] # <<>> /\ store' = LookedUp(store, l, Ready, clock)
      /\ IF id = NoId
         THEN /\ lookups' = [lookups EXCEPT ![c] = Tail(@)]
              /\ UNCHANGED <<pc, plan, opened>>
         ELSE /\ plan' = [plan EXCEPT ![c] = Planned(c, id, TRUE)]
              /\ opened' = [opened EXCEPT ![c] = id]
              /\ lookups' = [lookups EXCEPT ![c] = <<>>]
              /\ Goto(c, "prompt")
      /\ UNCHANGED <<records, untrusted, log, style, branches, home, req, attempt, output, outcome>>
      /\ Steady
  BY DEF LookUp, provider, client, progress, bounds, Steady
<1>2. LookupOK(c, Sayable(c), l) /\ DOMAIN store = Maps
  BY <1>1, NextLookup DEF Isolated, Talk, Shape
<1>3. clock \in Nat /\ Ready' = Ready
  BY <1>1, BoundsAssumption DEF Typed, Ready
<1>4. Prosaic(c) /\ Remains(c) /\ req[c].messages = Messages(c) /\ IsFiniteSet(DOMAIN store.transcripts)
  BY <1>1 DEF Stays, Prosaic
<1>5. ASSUME NEW d \in Chats, Live(d) PROVE AtHome(d, store')
  <2>1. AtHome(d, store)
    BY <1>5 DEF Stays, Remains
  <2> QED
    BY <1>1, <1>2, <1>3, <2>1, LookedUpKeeps
<1>6. IsFiniteSet(DOMAIN store'.transcripts)
  <2>1. DOMAIN LookedUp(store, l, Ready, clock).transcripts \subseteq DOMAIN store.transcripts
    <3>1. Narrowed(LookedUp(store, l, Ready, clock), store)
      BY <1>2, LookedUpNarrows
    <3> QED
      BY <3>1 DEF Narrowed, Derived, Within
  <2> QED
    BY <1>1, <1>4, <2>1, FS_Subset
<1>7. ASSUME Live(c), home[c].id \in Ready PROVE id = home[c].id
  <2>1. lookups[c] = Lookups(c, Messages(c))
    BY <1>1, <1>4, <1>7 DEF Remains
  <2>2. /\ l.kind = IF style[c].whole THEN "transcript" ELSE "explicit"
        /\ l.messages = HomeKey(c)
    BY <2>1, FirstLookup
  <2> HIDE DEF l
  <2> QED
    BY <1>7, <2>2, FirstFinds
<1>8. Live(c) => home[c].id # NoId
  BY IdsAssumption DEF Live
<1> HIDE DEF l, id
<1>9. ASSUME NEW d \in Chats \ {c} PROVE SameChat(d) /\ Calm(d)
  <2>1. SameChat(d)
    BY <1>1 DEF SameChat, Goto, Arrays, Isolated, Shape
  <2> QED
    BY <1>3, <1>5, <2>1 DEF Calm
<1>10. CASE id = NoId
  <2>1. pc'[c] = "plan" /\ ~Busy(c)'
    BY <1>1, <1>10 DEF Busy
  <2>2. Prosaic(c)'
    BY <1>1, <1>4, <2>1, OwnProsaic DEF Prosaic
  <2>3. Live(c) => home[c].id \notin Ready'
    BY <1>3, <1>7, <1>8, <1>10
  <2>4. Remains(c)'
    BY <1>1, <1>4, <1>5, <2>1, <2>3, OwnRemains
  <2> QED
    BY <1>1, <1>6, <1>9, <2>2, <2>4, OneStays DEF Stays
<1>11. CASE id # NoId
  <2>1. pc'[c] = "prompt" /\ plan'[c] = Planned(c, id, TRUE)
    BY <1>1, <1>11, Moved DEF Isolated, Shape
  <2>2. /\ plan'[c].id = id
        /\ IF style[c].whole THEN plan'[c].main = Messages(c) ELSE plan'[c].client = <<c>>
    <3>1. ~IsToolResult(Messages(c)) /\ (style[c].whole \/ style[c].explicit)
      BY MessagesAre DEF Stays, Talking
    <3>2. /\ Planned(c, id, TRUE).id = id
          /\ IF style[c].whole THEN Planned(c, id, TRUE).main = Messages(c)
             ELSE Planned(c, id, TRUE).client = <<c>>
      BY <1>4, <3>1 DEF Planned
    <3> QED
      BY <2>1, <3>2
  <2>3. Prosaic(c)'
    BY <1>1, <1>4, <2>1, <2>2, OwnProsaic DEF Prosaic
  <2>4. Remains(c)'
    BY <1>1, <1>3, <1>4, <1>5, <1>7, <2>1, <2>2, OwnRemains
  <2> QED
    BY <1>1, <1>6, <1>9, <2>3, <2>4, OneStays DEF Stays
<1> QED
  BY <1>10, <1>11

LEMMA PlanNewStays ==
  ASSUME Talking, Arrays, Isolated, Stays, NEW c \in Chats, PlanNew(c)
  PROVE  Stays'
<1>1. /\ pc[c] = "plan" /\ lookups[c] = <<>> /\ Goto(c, "prompt") /\ Steady
      /\ UNCHANGED <<store, records, untrusted, log, style, branches, home, req, lookups, attempt,
                     output, outcome>>
  BY DEF PlanNew, provider, client, progress, bounds, Steady
<1>2. PICK auto : plan' = [plan EXCEPT ![c] = Planned(c, issued + 1, auto)]
  BY DEF PlanNew
<1>3. Prosaic(c) /\ Remains(c) /\ req[c].messages = Messages(c)
  BY <1>1 DEF Stays, Prosaic
<1>4. pc'[c] = "prompt" /\ \A d \in Chats \ {c} : pc'[d] = pc[d]
  BY <1>1, Moved
<1>5. plan'[c] = Planned(c, issued + 1, auto) /\ \A d \in Chats \ {c} : plan'[d] = plan[d]
  BY <1>2 DEF Isolated, Shape
<1>6. IF style[c].whole THEN plan'[c].main = Messages(c) ELSE plan'[c].client = <<c>>
  BY <1>1, <1>5, PlannedFor
<1>7. Ready' = Ready /\ IsFiniteSet(DOMAIN store'.transcripts) /\ \A d \in Chats : Calm(d)
  BY <1>1, AllCalm DEF Ready
<1>8. \A d \in Chats \ {c} : SameChat(d)
  BY <1>1, <1>4, <1>5 DEF SameChat
<1>9. Prosaic(c)'
  BY <1>1, <1>3, <1>4, <1>6, OwnProsaic DEF Prosaic
<1>10. Live(c) => home[c].id \notin Ready
  BY <1>1, <1>3, FirstLookup DEF Remains
<1>11. Remains(c)'
  BY <1>1, <1>3, <1>4, <1>7, <1>10, OwnRemains DEF Calm
<1> QED
  BY <1>1, <1>7, <1>8, <1>9, <1>11, OneStays DEF Stays

LEMMA BuildPromptStays ==
  ASSUME Arrays, Isolated, Stays, NEW c \in Chats, BuildPrompt(c)
  PROVE  Stays'
<1>1. /\ pc[c] = "prompt" /\ Goto(c, "send") /\ Steady
      /\ UNCHANGED <<store, records, untrusted, log, style, branches, home, req, lookups, attempt,
                     output, outcome>>
  BY DEF BuildPrompt, provider, client, progress, bounds, Steady
<1>2. /\ plan'[c].id = plan[c].id /\ plan'[c].main = plan[c].main /\ plan'[c].client = plan[c].client
      /\ \A d \in Chats \ {c} : plan'[d] = plan[d]
  BY DEF BuildPrompt, Isolated, Shape, Talk, NoPlan
<1>3. Prosaic(c) /\ Remains(c)
  BY DEF Stays
<1>4. pc'[c] = "send" /\ \A d \in Chats \ {c} : pc'[d] = pc[d]
  BY <1>1, Moved
<1>5. Ready' = Ready /\ IsFiniteSet(DOMAIN store'.transcripts) /\ \A d \in Chats : Calm(d)
  BY <1>1, AllCalm DEF Ready
<1>6. \A d \in Chats \ {c} : SameChat(d)
  BY <1>1, <1>2, <1>4 DEF SameChat
<1>7. Prosaic(c)'
  BY <1>1, <1>2, <1>3, <1>4, OwnProsaic DEF Prosaic, Busy
<1>8. Remains(c)'
  BY <1>1, <1>2, <1>3, <1>4, <1>5, OwnRemains DEF Calm, Remains
<1> QED
  BY <1>1, <1>5, <1>6, <1>7, <1>8, OneStays DEF Stays

LEMMA SendStays ==
  ASSUME Arrays, Isolated, Stays, NEW c \in Chats, Send(c)
  PROVE  Stays'
<1>1. /\ pc[c] = "send" /\ Goto(c, "wait") /\ Steady
      /\ UNCHANGED <<store, records, untrusted, log, style, branches, home, req, lookups, plan, attempt,
                     output, outcome>>
  BY DEF Send, provider, client, request, progress, bounds, Steady
<1>2. IsFiniteSet(DOMAIN store'.transcripts) /\ \A d \in Chats : Calm(d)
  BY <1>1, AllCalm DEF Ready
<1>3. output' = [d \in Chats |-> Plain]
  BY <1>1 DEF Stays
<1>4. \A label : label = "wait" => /\ label \notin {"idle", "plan", "prompt", "send"}
                                   /\ (label = "remember" => outcome'[c] = Message(Plain.text))
  OBVIOUS
<1>5. (Live(c) => AtHome(c, store')) /\ \A d \in Chats \ {c} : Calm(d)
  BY <1>2 DEF Calm
<1> QED
  BY <1>1, <1>2, <1>3, <1>4, <1>5, MoveStays

LEMMA EmitStays ==
  ASSUME Arrays, Isolated, Stays, NEW c \in Chats, Emit(c)
  PROVE  Stays'
<1>1. /\ pc[c] = "wait" /\ Steady
      /\ UNCHANGED <<store, records, untrusted, log, style, branches, home, pc, req, lookups, plan, attempt,
                     outcome>>
  BY DEF Emit, provider, client, request, bounds, Steady
<1>2. Answers(c) = {Plain}
  BY <1>1, Toolless DEF Answers
<1>3. output' = [d \in Chats |-> Plain]
  BY <1>2 DEF Emit, Stays
<1>4. IsFiniteSet(DOMAIN store'.transcripts) /\ \A d \in Chats : Calm(d)
  BY <1>1, AllCalm DEF Ready
<1>5. \A d \in Chats : SameChat(d)
  BY <1>1 DEF SameChat
<1>6. \A d \in Chats : Prosaic(d)' /\ Remains(d)'
  BY <1>1, <1>4, <1>5, ChatStays DEF Stays
<1> QED
  BY <1>1, <1>3, <1>4, <1>6 DEF Stays, Steady

LEMMA AnswerStays ==
  ASSUME Arrays, Isolated, Stays, NEW c \in Chats, Answer(c) \/ AnswerElsewhere(c)
  PROVE  Stays'
<1>1. PICK answer \in Outputs \cup {Plain} : Answered(c, answer)
  BY DEF Answer, AnswerElsewhere
<1>2. pc[c] = "wait" /\ ~UsesBridge(req[c])
  BY <1>1, Toolless DEF Answered
<1>3. answer = Plain
  BY <1>1, <1>2 DEF Answered, Answers
<1>4. /\ Goto(c, "remember") /\ outcome' = [outcome EXCEPT ![c] = Message(Plain.text)]
      /\ output' = [output EXCEPT ![c] = Plain]
      /\ UNCHANGED <<store, log, style, branches, home, req, lookups, plan, attempt>> /\ Steady
  BY <1>1, <1>2, <1>3 DEF Answered, client, request, Steady
<1>5. Updated(plan[c].id, {}) \/ Updated(plan[c].id, {plan[c].id})
  BY DEF Answer, AnswerElsewhere
<1>6. /\ IsFiniteSet(DOMAIN store'.transcripts) /\ \A d \in Chats \ {c} : Calm(d)
      /\ Live(c) => AtHome(c, store')
  BY <1>4, <1>5, UpdatedCalm
<1>7. output' = [d \in Chats |-> Plain]
  BY <1>4 DEF Stays
<1>8. outcome'[c] = Message(Plain.text) /\ \A d \in Chats \ {c} : outcome'[d] = outcome[d]
  BY <1>4 DEF Arrays
<1>9. \A label : label = "remember" => label \notin {"idle", "plan", "prompt", "send"}
  OBVIOUS
<1> QED
  BY <1>2, <1>4, <1>6, <1>7, <1>8, <1>9, MoveStays

LEMMA FailStays ==
  ASSUME Arrays, Inv, Isolated, Stays, NEW c \in Chats, Fail(c)
  PROVE  Stays'
<1>1. Over(c) /\ Steady /\ UNCHANGED <<store, records, untrusted, log, branches, home>>
  BY DEF Fail, provider, client, Steady
<1>2. IsFiniteSet(DOMAIN store'.transcripts) /\ \A d \in Chats : Calm(d)
  BY <1>1, AllCalm DEF Ready
<1>3. (Live(c) => AtHome(c, store')) /\ \A d \in Chats \ {c} : Calm(d)
  BY <1>2 DEF Calm
<1> QED
  BY <1>1, <1>2, <1>3, OverStays

LEMMA RejectStays ==
  ASSUME Arrays, Inv, Isolated, Stays, NEW c \in Chats, Reject(c)
  PROVE  Stays'
<1>1. /\ pc[c] = "wait" /\ Steady /\ untrusted \subseteq untrusted'
      /\ UNCHANGED <<store, records, log, style, branches, home>>
      /\ \/ /\ Goto(c, "recover")
            /\ UNCHANGED <<req, lookups, plan, attempt, output, outcome>>
         \/ Over(c)
  BY DEF Reject, client, request, progress, Steady
<1>2. IsFiniteSet(DOMAIN store'.transcripts) /\ \A d \in Chats : Calm(d)
  BY <1>1, AllCalm DEF Ready
<1>3. (Live(c) => AtHome(c, store')) /\ \A d \in Chats \ {c} : Calm(d)
  BY <1>2 DEF Calm
<1>4. CASE Over(c)
  BY <1>1, <1>2, <1>3, <1>4, OverStays
<1>5. CASE Goto(c, "recover") /\ UNCHANGED <<req, lookups, plan, attempt, output, outcome>>
  <2>1. output' = [d \in Chats |-> Plain]
    BY <1>5 DEF Stays
  <2>2. \A label : label = "recover" => /\ label \notin {"idle", "plan", "prompt", "send"}
                                       /\ (label = "remember" => outcome'[c] = Message(Plain.text))
    OBVIOUS
  <2> QED
    BY <1>1, <1>2, <1>3, <1>5, <2>1, <2>2, MoveStays
<1> QED
  BY <1>1, <1>4, <1>5

(* A chat of more than one message is its own history. *)
LEMMA NothingMerged ==
  ASSUME Isolated, Stays, NEW c \in Chats, style[c].whole, NEW base
  PROVE  Merged(base, Messages(c)) = Messages(c)
<1> DEFINE n == Len(Messages(c))
<1>1. n # 1
  <2>1. Len(Messages(c)) >= 2
    BY MessagesAre DEF Stays
  <2>2. Len(Messages(c)) \in Nat
    <3>1. Messages(c) = Append(log[c], NewMessage(c)) /\ IsSeq(log[c])
      BY MessagesAre DEF Stays
    <3>2. IsSeq(Append(log[c], NewMessage(c)))
      BY <3>1, AppendSeq
    <3> QED
      BY <3>1, <3>2, SeqShape
  <2>3. n \in Nat /\ n >= 2
    BY <2>1, <2>2
  <2> HIDE DEF n
  <2> QED
    BY <2>3
<1> QED
  BY <1>1 DEF Merged

LEMMA RecoverStays ==
  ASSUME Roomy, Arrays, Isolated, Typed, Stays, NEW c \in Chats, Recover(c)
  PROVE  Stays'
<1>1. /\ pc[c] = "recover" /\ Goto(c, "forget") /\ Steady
      /\ UNCHANGED <<records, untrusted, log, style, branches, home, req, lookups, attempt, output, outcome>>
  BY DEF Recover, provider, client, progress, bounds, Steady
<1>2. PICK pruned \in Pruned(store, clock) :
        /\ store' = pruned
        /\ plan' = [plan EXCEPT ![c].main = Merged(Retained(pruned, plan[c].id), req[c].messages),
                                ![c].prompt = Range(Merged(Retained(pruned, plan[c].id), req[c].messages))]
  BY DEF Recover
<1> DEFINE ms == Merged(Retained(pruned, plan[c].id), req[c].messages)
<1>3. req[c].messages = Messages(c) /\ Prosaic(c) /\ Remains(c)
  BY <1>1 DEF Stays, Prosaic
<1>4. plan'[c].main = ms /\ plan'[c].client = plan[c].client /\ \A d \in Chats \ {c} : plan'[d] = plan[d]
  BY <1>2 DEF Isolated, Shape, Talk, NoPlan
<1>5. style[c].whole => plan'[c].main = Messages(c)
  BY <1>2, <1>3, <1>4, NothingMerged
<1>6. clock \in Nat /\ Ready' = Ready /\ IsFiniteSet(DOMAIN store.transcripts)
  BY <1>1, BoundsAssumption DEF Typed, Ready, Stays
<1>7. /\ \A d \in Chats : AtHome(d, store) => AtHome(d, store')
      /\ IsFiniteSet(DOMAIN store'.transcripts)
  BY <1>2, <1>6, PrunedKeeps
<1>8. \A d \in Chats : Calm(d)
  BY <1>6, <1>7 DEF Calm, Stays, Remains
<1>9. pc'[c] = "forget" /\ \A d \in Chats \ {c} : pc'[d] = pc[d]
  BY <1>1, Moved
<1>10. \A d \in Chats \ {c} : SameChat(d)
  BY <1>1, <1>4, <1>9 DEF SameChat
<1>11. Prosaic(c)'
  BY <1>1, <1>3, <1>4, <1>5, <1>9, OwnProsaic DEF Prosaic, Busy
<1>12. Remains(c)'
  BY <1>1, <1>3, <1>8, <1>9, OwnRemains DEF Calm
<1> QED
  BY <1>1, <1>7, <1>8, <1>10, <1>11, <1>12, OneStays DEF Stays

LEMMA ForgetStays ==
  ASSUME Arrays, Isolated, Typed, Stays, NEW c \in Chats, Forget(c)
  PROVE  Stays'
<1>1. /\ pc[c] = "forget" /\ Goto(c, "send") /\ Steady /\ store' = Forgotten(store, plan[c].id)
      /\ plan' = [plan EXCEPT ![c].id = issued + 1, ![c].auto = FALSE, ![c].light = FALSE]
      /\ attempt' = [attempt EXCEPT ![c] = 2] /\ home' = [home EXCEPT ![c] = NoHome]
      /\ UNCHANGED <<records, untrusted, log, style, branches, req, lookups, output, outcome>>
  BY DEF Forget, provider, upstream, bounds, Steady
<1>2. /\ plan'[c].main = plan[c].main /\ plan'[c].client = plan[c].client
      /\ \A d \in Chats \ {c} : plan'[d] = plan[d]
  BY <1>1 DEF Isolated, Shape, Talk, NoPlan
<1>3. home'[c] = NoHome /\ attempt'[c] = 2
      /\ \A d \in Chats \ {c} : home'[d] = home[d] /\ attempt'[d] = attempt[d]
  BY <1>1 DEF Stays, Arrays
<1>4. Prosaic(c) /\ Remains(c) /\ clock \in Nat
  BY BoundsAssumption DEF Stays, Typed
<1>5. pc'[c] = "send" /\ \A d \in Chats \ {c} : pc'[d] = pc[d]
  BY <1>1, Moved
<1>6. \A d \in Chats \ {c} : SameChat(d)
  BY <1>1, <1>2, <1>3, <1>5 DEF SameChat
<1>7. ASSUME NEW d \in Chats \ {c} PROVE Calm(d)
  <2>1. Live(d) => AtHome(d, store)
    BY DEF Stays, Remains
  <2>2. Live(d) => plan[c].id # home[d].id
    BY <2>1, HomeOwned
  <2>3. Live(d) => AtHome(d, store')
    BY <1>1, <2>1, <2>2, ForgottenKeeps
  <2> QED
    BY <1>1, <2>3 DEF Calm, Ready
<1>8. IsFiniteSet(DOMAIN store'.transcripts)
  <2>1. DOMAIN store'.transcripts \subseteq DOMAIN store.transcripts
    BY <1>1 DEF Forgotten, Drop, Restrict
  <2> QED
    BY <2>1, FS_Subset DEF Stays
<1>9. Prosaic(c)'
  BY <1>1, <1>2, <1>4, <1>5, OwnProsaic DEF Prosaic, Busy
<1>10. Remains(c)'
  <2>1. ~Live(c)' /\ home'[c].id = NoId /\ home'[c].at = 0
    BY <1>3, IdsAssumption DEF Live, NoHome
  <2> QED
    BY <1>1, <1>4, <2>1 DEF Remains, Steady
<1>11. home' = [d \in Chats |-> home'[d]] /\ output' = [d \in Chats |-> Plain]
  BY <1>1 DEF Stays
<1> QED
  BY <1>1, <1>6, <1>7, <1>8, <1>9, <1>10, <1>11, OneStays

(* The turn as it is recorded: the chat as the client has it now. *)
LEMMA PlainTurn ==
  ASSUME Isolated, Stays, NEW c \in Chats, pc[c] = "remember"
  PROVE  Reply(c) = [role |-> "assistant", text |-> Plain.text] /\ Recorded(c) = Plain.text
<1>1. outcome[c].calls = <<>> /\ outcome[c] = Message(Plain.text) /\ output[c] = Plain
  BY Toolless DEF Stays, Prosaic
<1>2. outcome[c].content = Plain.text
  BY <1>1 DEF Message
<1> QED
  BY <1>1, <1>2 DEF Reply, Recorded

(* What the turn of c files, and what it leaves of the turns of others. *)
LEMMA FiledStays ==
  ASSUME Roomy, Isolated, Typed, Stays, NEW c \in Chats, pc[c] = "remember",
         NEW pruned \in Pruned(store, clock), NEW turn, turn.id = plan[c].id,
         turn.client = plan[c].client, turn.main = plan[c].main, turn.reply = Reply(c),
         store' = Remembered(pruned, turn, clock), UNCHANGED <<records, untrusted>>
  PROVE  /\ IsFiniteSet(DOMAIN store'.transcripts)
         /\ \A d \in Chats \ {c} : Calm(d)
         /\ style[c].whole =>
              /\ OnFile(store'.transcripts, Append(Append(log[c], NewMessage(c)), Reply(c)), plan[c].id)
              /\ store'.latest[plan[c].id] = Append(Append(log[c], NewMessage(c)), Reply(c))
         /\ ~style[c].whole => OnFile(store'.explicit, <<c>>, plan[c].id)
<1> DEFINE id == plan[c].id
           asked == Merged(Retained(pruned, id), plan[c].main)
           next == Append(asked, Reply(c))
<1>1. clock \in Nat /\ Narrowed(pruned, store) /\ DOMAIN pruned = Maps
  BY BoundsAssumption, PrunedNarrows DEF Typed
<1>2. /\ store'.transcripts = Put(pruned.transcripts, {asked, next}, id, clock)
      /\ store'.explicit = Put(pruned.explicit, {plan[c].client} \ {<<>>}, id, clock)
      /\ store'.latest = [x \in DOMAIN pruned.latest \cup {id} |->
                            IF x = id THEN next ELSE pruned.latest[x]]
  BY <1>1 DEF Remembered, Maps
<1>3. /\ PlanOK(c, Sayable(c), plan[c]) /\ id \in Ids /\ Busy(c)
      /\ req[c].messages = Messages(c) /\ turn.reply.role = "assistant"
  <2>1. Busy(c) /\ Prosaic(c)
    BY DEF Busy, Stays
  <2> QED
    BY <2>1, PlainTurn DEF Isolated, Talk, Prosaic
<1>4. AllOf(c, Sayable(c), Retained(pruned, id))
  <2>1. PICK e \in Chats : Holds(e, id)
    BY <1>3 DEF Isolated, Apart
  <2>2. StoreFor(c, Sayable(c), id, pruned)
    BY <1>1, <2>1, NarrowedFor DEF Holds
  <2> QED
    BY <2>2, NoneOf DEF StoreFor, Retained
<1>5. /\ \A d : AtHome(d, store) => AtHome(d, pruned)
      /\ IsFiniteSet(DOMAIN pruned.transcripts)
  BY <1>1, PrunedKeeps DEF Stays
<1>6. ASSUME NEW d \in Chats \ {c} PROVE Calm(d)
  <2> SUFFICES ASSUME Live(d) PROVE AtHome(d, store')
    BY DEF Calm, Ready
  <2>1. AtHome(d, store) /\ AtHome(d, pruned)
    BY <1>5 DEF Stays, Remains
  <2>2. id # home[d].id
    BY <2>1, HomeOwned
  <2> QED
    BY <1>1, <1>3, <1>4, <2>1, <2>2, OtherRemembered
<1>7. IsFiniteSet(DOMAIN store'.transcripts)
  <2>1. DOMAIN store'.transcripts = (DOMAIN pruned.transcripts \cup {asked}) \cup {next}
    BY <1>2 DEF Put
  <2> DEFINE S == DOMAIN pruned.transcripts
  <2> HIDE DEF asked, next, S
  <2>2. IsFiniteSet(S)
    BY <1>5 DEF S
  <2>3. IsFiniteSet(S \cup {asked})
    BY <2>2, FS_AddElement
  <2>4. IsFiniteSet((S \cup {asked}) \cup {next})
    BY <2>3, FS_AddElement
  <2> QED
    BY <2>1, <2>4 DEF S
<1>8. ASSUME style[c].whole PROVE asked = Append(log[c], NewMessage(c))
  <2>1. plan[c].main = Messages(c) /\ Messages(c) = Append(log[c], NewMessage(c))
    BY <1>3, <1>8, MessagesAre DEF Stays, Prosaic
  <2> QED
    BY <1>8, <2>1, NothingMerged
<1>9. ~style[c].whole => plan[c].client = <<c>>
  BY <1>3 DEF Stays, Prosaic
<1> HIDE DEF asked, id
<1>10. OnFile(store'.transcripts, next, id) /\ store'.latest[id] = next
  BY <1>2 DEF Put, OnFile
<1>11. ~style[c].whole => OnFile(store'.explicit, <<c>>, id)
  BY <1>2, <1>9 DEF Put, OnFile
<1> QED
  BY <1>6, <1>7, <1>8, <1>10, <1>11 DEF id

LEMMA RememberStays ==
  ASSUME Roomy, Arrays, Inv, Isolated, Typed, Stays, NEW c \in Chats, Remember(c)
  PROVE  Stays'
<1> DEFINE new == NewMessage(c)
           reply == Reply(c)
           next == Append(Append(log[c], new), reply)
           filed == plan[c].id \in DOMAIN records /\ Recorded(c) # NoText
<1>1. /\ pc[c] = "remember" /\ Over(c) /\ Steady
      /\ log' = [log EXCEPT ![c] = log[c] \o <<new, reply>>]
      /\ UNCHANGED <<records, untrusted, branches>>
      /\ home' = [home EXCEPT ![c] = IF filed THEN [id |-> plan[c].id, at |-> clock] ELSE NoHome]
  BY DEF Remember, provider, bounds, Steady
<1>2. Prosaic(c) /\ IsSeq(log[c]) /\ clock \in Nat /\ plan[c].id \in Ids
  <2>1. Busy(c) /\ Prosaic(c)
    BY <1>1 DEF Busy, Stays
  <2> QED
    BY <2>1, BoundsAssumption DEF Isolated, Talk, AllOf, Typed
<1>3. new.role = "user" /\ reply = [role |-> "assistant", text |-> Plain.text] /\ Recorded(c) = Plain.text
  BY <1>1, <1>2, NoQuestion, PlainTurn
<1>4. log'[c] = next /\ \A d \in Chats \ {c} : log'[d] = log[d]
  BY <1>1, <1>2, JoinTwo DEF Isolated, Shape
<1>5. /\ home'[c] = IF filed THEN [id |-> plan[c].id, at |-> clock] ELSE NoHome
      /\ \A d \in Chats \ {c} : home'[d] = home[d]
  BY <1>1 DEF Stays
<1>6. /\ IsFiniteSet(DOMAIN store'.transcripts) /\ \A d \in Chats \ {c} : Calm(d)
      /\ filed /\ style[c].whole =>
              /\ OnFile(store'.transcripts, next, plan[c].id) /\ store'.latest[plan[c].id] = next
      /\ filed /\ ~style[c].whole => OnFile(store'.explicit, <<c>>, plan[c].id)
  <2>1. CASE filed
    <3> DEFINE turn == [id |-> plan[c].id, client |-> plan[c].client, main |-> plan[c].main,
                        reply |-> [role |-> "assistant", text |-> Recorded(c)]]
    <3>1. PICK pruned \in Pruned(store, clock) : store' = Remembered(pruned, turn, clock)
      BY <2>1 DEF Remember
    <3>2. /\ turn.id = plan[c].id /\ turn.client = plan[c].client /\ turn.main = plan[c].main
          /\ turn.reply = Reply(c)
      BY <1>3
    <3> HIDE DEF turn
    <3> QED
      BY <1>1, <3>1, <3>2, FiledStays
  <2>2. CASE ~filed
    <3>1. store' = store
      BY <2>2 DEF Remember
    <3> QED
      BY <1>1, <2>2, <3>1, AllCalm DEF Ready
  <2> QED
    BY <2>1, <2>2
<1> HIDE DEF filed
<1>7. pc'[c] = "idle" /\ output' = [d \in Chats |-> Plain] /\ \A d \in Chats \ {c} : SameChat(d)
  BY <1>1, <1>4, <1>5 DEF Over, Goto, Arrays, Isolated, Shape, SameChat, Stays
<1>8. /\ Len(next) = Len(log[c]) + 2 /\ Len(log[c]) \in Nat /\ next[Len(log[c]) + 1] = new
      /\ next[Len(log[c]) + 2] = reply /\ \A i \in 1..Len(log[c]) : next[i] = log[c][i]
  <2> DEFINE asked == Append(log[c], new)
  <2>1. /\ IsSeq(asked) /\ Len(asked) = Len(log[c]) + 1 /\ asked[Len(log[c]) + 1] = new
        /\ Len(log[c]) \in Nat /\ \A i \in 1..Len(log[c]) : asked[i] = log[c][i]
    BY <1>2, AppendSeq, SeqShape
  <2> HIDE DEF asked
  <2>2. /\ Len(Append(asked, reply)) = Len(asked) + 1 /\ Append(asked, reply)[Len(asked) + 1] = reply
        /\ \A i \in 1..Len(asked) : Append(asked, reply)[i] = asked[i]
    BY <2>1, AppendSeq
  <2>3. Append(asked, reply) = next
    BY DEF asked
  <2>4. ASSUME NEW i \in 1..(Len(log[c]) + 1) PROVE next[i] = asked[i]
    BY <2>1, <2>2, <2>3
  <2> HIDE DEF next
  <2> QED
    BY <2>1, <2>2, <2>3, <2>4
<1> HIDE DEF next, new, reply
<1>9. Prosaic(c)'
  <2>1. style' = style /\ ~Busy(c)'
    BY <1>1, <1>7 DEF Busy, Steady
  <2>2. style[c].whole => Len(next) >= 1 /\ next[1] = System
    BY <1>2, <1>8 DEF Prosaic
  <2>3. ASSUME NEW i \in 1..Len(next) PROVE next[i].role # "calls"
    <3>1. i \in 1..Len(log[c]) \/ i = Len(log[c]) + 1 \/ i = Len(log[c]) + 2
      BY <1>8
    <3> QED
      BY <1>2, <1>3, <1>8, <3>1 DEF Prosaic
  <2> QED
    BY <1>4, <1>7, <2>1, <2>2, <2>3 DEF Prosaic
<1>10. Remains(c)'
  <2>1. CASE filed
    <3>1. home'[c].id = plan[c].id /\ home'[c].at = clock
      BY <1>5, <2>1
    <3>2. AtHome(c, store)'
      BY <1>1, <1>4, <1>6, <2>1, <3>1 DEF AtHome, HomeName, HomeKey, OnFile, Steady
    <3> QED
      BY <1>1, <1>2, <1>7, <3>1, <3>2 DEF Remains, Steady
  <2>2. CASE ~filed
    <3>1. home'[c].id = NoId /\ home'[c].at = 0 /\ ~Live(c)'
      BY <1>5, <2>2, IdsAssumption DEF NoHome, Live
    <3> QED
      BY <1>1, <1>2, <3>1 DEF Remains, Steady
  <2> QED
    BY <2>1, <2>2
<1>11. home' = [d \in Chats |-> home'[d]]
  BY <1>1 DEF Stays
<1> QED
  BY <1>1, <1>6, <1>7, <1>9, <1>10, <1>11, OneStays

(* A client that goes back gives up the conversation of its last turn. *)
LEMMA BranchStays ==
  ASSUME Arrays, Isolated, Typed, Stays, NEW c \in Chats, Branch(c)
  PROVE  Stays'
<1>1. PICK i \in DOMAIN log[c] :
        IsUser(log[c][i]) /\ log' = [log EXCEPT ![c] = SubSeq(log[c], 1, i - 1)]
  BY DEF Branch
<1>2. /\ pc[c] = "idle" /\ style[c].whole /\ Steady
      /\ home' = [home EXCEPT ![c] = NoHome] /\ branches' = [branches EXCEPT ![c] = @ + 1]
      /\ UNCHANGED <<store, records, untrusted, pc, req, lookups, plan, attempt, output, outcome>>
  BY DEF Branch, provider, request, progress, bounds, Steady
<1>3. Prosaic(c) /\ AllOf(c, Sayable(c), log[c]) /\ clock \in Nat
  BY BoundsAssumption DEF Stays, Isolated, Talk, Typed
<1> DEFINE kept == SubSeq(log[c], 1, i - 1)
<1>4. i \in 2..Len(log[c]) /\ Len(log[c]) \in Nat
  <2>1. i \in 1..Len(log[c]) /\ Len(log[c]) \in Nat
    BY <1>3, SeqShape DEF AllOf
  <2>2. log[c][1].role # "user"
    BY <1>2, <1>3 DEF Prosaic, System
  <2> QED
    BY <1>1, <2>1, <2>2 DEF IsUser
<1>5. Len(kept) = i - 1 /\ \A k \in 1..(i - 1) : kept[k] = log[c][k]
  <2>1. Len(kept) = i - 1 /\ \A k \in 1..(i - 1) : kept[k] = log[c][1 + k - 1]
    BY <1>3, <1>4, SubAll
  <2> HIDE DEF kept
  <2> QED
    BY <2>1
<1> HIDE DEF kept
<1>6. log'[c] = kept /\ home'[c] = NoHome
  BY <1>1, <1>2 DEF Isolated, Shape, Stays, kept
<1>7. \A d \in Chats \ {c} : SameChat(d)
  BY <1>1, <1>2 DEF SameChat, Isolated, Shape, Stays
<1>8. IsFiniteSet(DOMAIN store'.transcripts) /\ \A d \in Chats : Calm(d)
  BY <1>2, AllCalm DEF Ready
<1>9. Prosaic(c)'
  <2>1. pc'[c] = "idle" /\ style' = style /\ ~Busy(c)'
    BY <1>2 DEF Steady, Busy
  <2>2. Len(kept) >= 1 /\ kept[1] = System
    BY <1>2, <1>3, <1>4, <1>5 DEF Prosaic
  <2>3. \A k \in 1..Len(kept) : kept[k].role # "calls"
    BY <1>3, <1>4, <1>5 DEF Prosaic
  <2> QED
    BY <1>6, <2>1, <2>2, <2>3 DEF Prosaic
<1>10. Remains(c)'
  <2>1. ~Live(c)' /\ home'[c].id = NoId /\ home'[c].at = 0
    BY <1>6, IdsAssumption DEF Live, NoHome
  <2> QED
    BY <1>2, <1>3, <2>1 DEF Remains, Steady
<1>11. home' = [d \in Chats |-> home'[d]] /\ output' = [d \in Chats |-> Plain]
  BY <1>2 DEF Stays
<1> QED
  BY <1>2, <1>7, <1>8, <1>9, <1>10, <1>11, OneStays

(* Fewer conversations are ready, or time has passed. *)
LEMMA LostStays ==
  ASSUME Stays, Ready' \subseteq Ready, clock' = clock,
         UNCHANGED <<store, log, style, branches, home, pc, req, lookups, plan, attempt, output, outcome>>
  PROVE  Stays'
<1>1. Steady /\ \A d \in Chats : SameChat(d)
  BY DEF Steady, SameChat
<1>2. IsFiniteSet(DOMAIN store'.transcripts) /\ \A d \in Chats : Calm(d)
  BY AllCalm
<1>3. \A d \in Chats : Prosaic(d)' /\ Remains(d)'
  BY <1>1, <1>2, ChatStays DEF Stays
<1> QED
  BY <1>2, <1>3 DEF Stays

LEMMA TickStays ==
  ASSUME Typed, Stays, Tick
  PROVE  Stays'
<1>1. /\ clock' = clock + 1 /\ clock \in Nat
      /\ UNCHANGED <<store, log, style, branches, home, pc, req, lookups, plan, attempt, output, outcome>>
  BY BoundsAssumption DEF Tick, Typed, client, request, progress
<1>2. ASSUME NEW c \in Chats PROVE Prosaic(c)' /\ Remains(c)'
  <2>1. Prosaic(c) /\ Remains(c)
    BY DEF Stays
  <2>2. Messages(c)' = Messages(c)
    BY <1>1, MessagesSame
  <2>3. Prosaic(c)'
    BY <1>1, <2>1, <2>2 DEF Prosaic, Busy
  <2>4. home'[c] = home[c] /\ home[c].at \in 0..clock /\ home[c].id \in Ids \cup {NoId}
    BY <1>1, <2>1 DEF Remains
  <2>5. ~Live(c)'
    BY <1>1, <2>4 DEF Live
  <2>6. Remains(c)'
    BY <1>1, <2>4, <2>5 DEF Remains
  <2> QED
    BY <2>3, <2>6
<1> QED
  BY <1>1, <1>2 DEF Stays

LEMMA StaysStep ==
  ASSUME Talking, Roomy, Inv, Isolated, Typed, Stays, [Next]_vars
  PROVE  Stays'
<1>1. Arrays
  BY DEF Inv
<1>2. ASSUME NEW c \in Chats, Turn(c) PROVE Stays'
  <2>1. CASE Ask(c) \/ LookUp(c) \/ PlanNew(c)
    BY <1>1, <2>1, AskStays, LookUpStays, PlanNewStays
  <2>2. CASE BuildPrompt(c) \/ Send(c) \/ Emit(c)
    BY <1>1, <2>2, BuildPromptStays, SendStays, EmitStays
  <2>3. CASE Answer(c) \/ AnswerElsewhere(c) \/ Fail(c) \/ Reject(c)
    BY <1>1, <2>3, AnswerStays, FailStays, RejectStays
  <2>4. CASE Recover(c) \/ Forget(c) \/ Remember(c)
    BY <1>1, <2>4, RecoverStays, ForgetStays, RememberStays
  <2>5. CASE ReadAnswer(c) \/ Repair(c) \/ RepairFails(c)
    <3>1. pc[c] \in {"tools", "repair"}
      BY <2>5 DEF ReadAnswer, Repair, RepairFails
    <3> QED
      BY <3>1, Toolless
  <2> QED
    BY <1>2, <2>1, <2>2, <2>3, <2>4, <2>5 DEF Turn
<1>3. ASSUME NEW c \in Chats, Branch(c) PROVE Stays'
  BY <1>1, <1>3, BranchStays
<1>4. ASSUME NEW id \in Ids, LoseRecord(id) PROVE Stays'
  <2>1. Ready' \subseteq Ready
    BY <1>4 DEF LoseRecord, Ready, Drop, Restrict
  <2> QED
    BY <1>4, <2>1, LostStays DEF LoseRecord, client, request, progress
<1>5. CASE Tick
  BY <1>5, TickStays
<1>6. CASE UNCHANGED vars
  <2>1. Ready' = Ready
    BY <1>6 DEF vars, provider, Ready
  <2> QED
    BY <1>6, <2>1, LostStays DEF vars, client, request, progress, bounds
<1> QED
  BY <1>2, <1>3, <1>4, <1>5, <1>6 DEF Next

LEMMA InitStays == Init => Stays
<1> SUFFICES ASSUME Init PROVE Stays
  OBVIOUS
<1>1. /\ style \in [Chats -> Styles] /\ output = [c \in Chats |-> Plain]
      /\ home = [c \in Chats |-> NoHome] /\ clock = 0
  BY StylesAssumption DEF Init
<1>2. IsFiniteSet(DOMAIN store.transcripts)
  <2>1. DOMAIN store.transcripts = {}
    BY DEF Init, EmptyStore, Empty
  <2> QED
    BY <2>1, FS_EmptySet
<1>3. ASSUME NEW c \in Chats PROVE Prosaic(c) /\ Remains(c)
  <2>1. pc[c] = "idle" /\ ~Busy(c)
    BY DEF Init, Busy
  <2>2. log[c] = IF style[c].whole THEN <<System>> ELSE <<>>
    BY DEF Init
  <2>3. Prosaic(c)
    <3>1. CASE style[c].whole
      <4>1. log[c] = <<System>>
        BY <2>2, <3>1
      <4>2. Len(log[c]) = 1 /\ log[c][1] = System
        BY <4>1
      <4>3. System.role # "calls"
        BY DEF System
      <4> QED
        BY <2>1, <4>2, <4>3 DEF Prosaic
    <3>2. CASE ~style[c].whole
      <4>1. Len(log[c]) = 0
        BY <2>2, <3>2
      <4> QED
        BY <2>1, <3>2, <4>1 DEF Prosaic
    <3> QED
      BY <3>1, <3>2
  <2>4. home[c].id = NoId /\ home[c].at = 0 /\ ~Live(c)
    BY <1>1, IdsAssumption DEF NoHome, Live
  <2> QED
    BY <1>1, <2>1, <2>3, <2>4 DEF Remains
<1> QED
  BY <1>1, <1>2, <1>3 DEF Stays

(* A chat keeps to the conversation that answered its last turn, as long   *)
(* as that is ready: it was filed under the chat itself, or under the id   *)
(* its client brings, which is what the next request looks for first, and  *)
(* no turn, recovery or migration of another chat files, forgets or takes  *)
(* over that key (planRequestContext, rememberRequestContext,              *)
(* forgetProviderConversation).  Only an eviction could part them, which   *)
(* a map of transcripts that is not full rules out; clients may go back,   *)
(* requests fail and records be lost or expire at any time.  No chat opens *)
(* with the words of another.                                              *)
THEOREM StaysPutHolds ==
  ASSUME OwnWords, Talking
  PROVE  Spec /\ []Roomy => []StaysPut
<1>1. Isolated /\ Typed /\ Stays => StaysPut
  <2> SUFFICES ASSUME Isolated, Typed, Stays, NEW c \in Chats, pc[c] = "send", attempt[c] = 1,
                      home[c].id \in Ready, home[c].at = clock
               PROVE  plan[c].id = home[c].id
    BY DEF StaysPut
  <2>1. home[c].id \in Ids
    BY DEF Ready, Isolated, Shape
  <2> QED
    BY <2>1 DEF Stays, Remains, Live
<1>2. Init => Stays
  BY InitStays
<1>3. Roomy /\ Inv /\ Isolated /\ Typed /\ Stays /\ [Next]_vars => Stays'
  BY StaysStep
<1> QED
  BY <1>1, <1>2, <1>3, Invariance, Isolation, Typing, PTL DEF Spec
=============================================================================
