---------------------------- MODULE ChatContexts ----------------------------
(***************************************************************************)
(* The maps of OpenAIService that remember which Gemini conversation       *)
(* continues which chat, as operators on one record: the lookups           *)
(* planRequestContext tries in turn, what a finished turn adds, what a     *)
(* migration forgets and what pruning removes.                             *)
(*                                                                         *)
(* A fingerprint is a digest of its messages, so the messages themselves   *)
(* stand for it and <<>> stands for "".  A message is [role, text]; the    *)
(* role "calls" is an assistant message that carries tool calls.           *)
(***************************************************************************)
EXTENDS Integers, SequencesExt

CONSTANTS
  TTL,         \* transcriptContextTTL, also conversationCacheTTL
  MaxEntries,  \* maxTranscriptContextEntries
  NoId

ASSUME TTLAssumption == TTL \in Nat
ASSUME EntriesAssumption == MaxEntries \in Nat

NoKey == <<>>

IsUser(m) == m.role = "user"

(* The messages up to the first user message, if only system messages come *)
(* before it.                                                              *)
RootKey(ms) ==
  LET first == {i \in DOMAIN ms :
                  /\ IsUser(ms[i])
                  /\ \A j \in 1..(i - 1) : ms[j].role = "system"}
  IN IF first = {} THEN NoKey ELSE SubSeq(ms, 1, CHOOSE i \in first : TRUE)

(* The last user messages, at most "most" of them, if there are "least".   *)
WindowKey(ms, least, most) ==
  LET users == {i \in DOMAIN ms : IsUser(ms[i])}
      last == {i \in users : Cardinality({j \in users : j > i}) < most}
      Place(i) == Cardinality({j \in last : j <= i})
  IN IF Cardinality(users) < least THEN NoKey
     ELSE [n \in {Place(i) : i \in last} |-> ms[CHOOSE i \in last : Place(i) = n]]

Windows(ms) == {WindowKey(ms, n, n) : n \in 2..4} \ {NoKey}

TranscriptSuffixes(ms) ==
  IF Len(ms) < 4 THEN {} ELSE {SubSeq(ms, i, Len(ms)) : i \in 2..(Len(ms) - 1)}

-----------------------------------------------------------------------------
(* A map is a function from keys to [to, at]: a value and its time stamp.  *)

Empty == [k \in {} |-> NoId]

Put(map, keys, value, now) ==
  [k \in DOMAIN map \cup keys |->
     IF k \in keys THEN [to |-> value, at |-> now] ELSE map[k]]

Drop(map, keys) == Restrict(map, DOMAIN map \ keys)

Stale(map, now) == {k \in DOMAIN map : now - map[k].at > TTL}

Fresh(map, now) == Drop(map, Stale(map, now))

To(map, value) == {k \in DOMAIN map : map[k].to = value}

(* The sets of oldest entries whose removal leaves at most limit entries;  *)
(* the order among equal stamps is that of a Go map.                       *)
Oldest(map, limit) ==
  LET surplus == Cardinality(DOMAIN map) - limit
  IN IF surplus <= 0 THEN {{}}
     ELSE {E \in kSubset(surplus, DOMAIN map) :
             \A e \in E, k \in DOMAIN map \ E : map[e].at <= map[k].at}

Trims(map) == {Drop(map, E) : E \in Oldest(map, MaxEntries)}

(* The fields of the store are the maps of the service: transcriptContexts, *)
(* transcriptSuffixContexts, userWindowContexts, rootContexts, explicit-    *)
(* ProviderContexts, providerTranscripts, toolBridgeContexts, and latest    *)
(* for providerLatestTranscript with providerLatestLength.                  *)
EmptyStore ==
  [transcripts |-> Empty, suffixes |-> Empty, windows |-> Empty,
   roots |-> Empty, explicit |-> Empty, retained |-> Empty,
   bridge |-> Empty, latest |-> Empty]

(* The conversations whose latest transcript is among the removed keys.    *)
Superseded(store, keys) ==
  {id \in DOMAIN store.latest :
     \E k \in keys : store.transcripts[k].to = id /\ store.latest[id] = k}

(* pruneTranscriptContextsLocked: the stores it may leave. *)
Pruned(store, now) ==
  LET transcripts == Fresh(store.transcripts, now)
      stale == Superseded(store, Stale(store.transcripts, now))
  IN {[transcripts |-> Drop(transcripts, E),
       latest |-> Drop(store.latest, stale \cup Superseded(store, E)),
       retained |-> retained, roots |-> roots,
       suffixes |-> suffixes, windows |-> windows,
       explicit |-> Fresh(store.explicit, now),
       bridge |-> Fresh(store.bridge, now)] :
        E \in Oldest(transcripts, MaxEntries),
        retained \in Trims(Fresh(store.retained, now)),
        roots \in Trims(Fresh(store.roots, now)),
        suffixes \in Trims(Fresh(store.suffixes, now)),
        windows \in Trims(Fresh(store.windows, now))}

-----------------------------------------------------------------------------
(* One lookup is [kind, messages]; "explicit" and "self" carry the         *)
(* client's own id as their only message.                                  *)

LookupMap(kind) ==
  CASE kind \in {"transcript", "any"} -> "transcripts"
    [] kind = "suffix" -> "suffixes"
    [] kind = "window" -> "windows"
    [] kind = "root" -> "roots"
    [] kind = "explicit" -> "explicit"

LookupKey(l) ==
  CASE l.kind \in {"transcript", "any"} -> l.messages
    [] l.kind = "suffix" -> IF Len(l.messages) < 2 THEN NoKey ELSE l.messages
    [] l.kind = "window" -> WindowKey(l.messages, 2, 4)
    [] l.kind = "root" -> RootKey(l.messages)
    [] l.kind = "explicit" -> l.messages

(* What a lookup asks of the latest transcript of the conversation. *)
AtFront(store, l, id) ==
  LET known == id \in DOMAIN store.latest
  IN CASE l.kind = "transcript" -> known => store.latest[id] = l.messages
       [] l.kind = "suffix" -> known /\ store.latest[id] # l.messages
       [] l.kind = "root" -> known => Len(l.messages) >= Len(store.latest[id])
       [] OTHER -> TRUE

(* The conversation a lookup finds; ready is the set of conversations      *)
(* providerConversationReady accepts.                                      *)
Found(store, l, ready, now) ==
  IF l.kind = "self"
  THEN IF l.messages[1] \in ready THEN l.messages[1] ELSE NoId
  ELSE LET map == store[LookupMap(l.kind)]
           key == LookupKey(l)
       IN IF /\ key # NoKey
             /\ key \in DOMAIN map \ Stale(map, now)
             /\ map[key].to \in ready
             /\ AtFront(store, l, map[key].to)
          THEN map[key].to ELSE NoId

(* The store after the lookup: a stale entry is gone, a used one is young. *)
LookedUp(store, l, ready, now) ==
  IF l.kind = "self" THEN store
  ELSE LET name == LookupMap(l.kind)
           key == LookupKey(l)
           id == Found(store, l, ready, now)
       IN [store EXCEPT ![name] =
             IF id # NoId THEN Put(@, {key}, id, now)
             ELSE Drop(@, {key} \cap Stale(@, now))]

-----------------------------------------------------------------------------
(* mergeRecoveryMessages: a client that sends its newest message alone     *)
(* gets the retained transcript in front of it.                            *)
Merged(base, incoming) ==
  IF /\ base # <<>> /\ ~IsPrefix(base, incoming)
     /\ Len(incoming) = 1 /\ IsUser(incoming[1])
  THEN base \o incoming
  ELSE incoming

Retained(store, id) ==
  IF id \in DOMAIN store.retained THEN store.retained[id].to ELSE <<>>

(* Mutant of Remembered: the transcript is kept without the derived keys. *)
RememberedNoLatest(store, turn, now) ==
  LET next == Append(Merged(Retained(store, turn.id), turn.main), turn.reply)
  IN [store EXCEPT
        !.transcripts = Put(@, {next}, turn.id, now),
        !.retained = Put(@, {turn.id}, next, now)]

(* rememberRequestContext after its pruning; turn is [id, client, main,    *)
(* reply], client being <<>> or the client's own id.                       *)
Remembered(store, turn, now) ==
  LET asked == Merged(Retained(store, turn.id), turn.main)
      next == Append(asked, turn.reply)
  IN [store EXCEPT
        !.transcripts = Put(@, {asked, next}, turn.id, now),
        !.suffixes = Put(@, TranscriptSuffixes(asked) \cup TranscriptSuffixes(next), turn.id, now),
        !.windows = Put(@, Windows(asked) \cup Windows(next), turn.id, now),
        !.roots = Put(@, {RootKey(asked), RootKey(next)} \ {NoKey}, turn.id, now),
        !.explicit = Put(@, {turn.client} \ {<<>>}, turn.id, now),
        !.retained = Put(@, {turn.id}, next, now),
        !.latest = [id \in DOMAIN @ \cup {turn.id} |->
                      IF id = turn.id THEN next ELSE @[id]]]

(* forgetProviderConversation. *)
Forgotten(store, id) ==
  [transcripts |-> Drop(store.transcripts, To(store.transcripts, id)),
   suffixes |-> Drop(store.suffixes, To(store.suffixes, id)),
   windows |-> Drop(store.windows, To(store.windows, id)),
   roots |-> Drop(store.roots, To(store.roots, id)),
   explicit |-> Drop(store.explicit, To(store.explicit, id)),
   retained |-> Drop(store.retained, {id}),
   bridge |-> Drop(store.bridge, {id}),
   latest |-> Drop(store.latest, {id})]

(* rememberToolBridgeContext. *)
ToolsRemembered(store, id, signature, now) ==
  [store EXCEPT !.bridge = Put(Fresh(@, now), {id}, signature, now)]

(* toolBridgeContextReady, which does not look at the age of the entry. *)
ToolsKnown(store, id, signature) ==
  id \in DOMAIN store.bridge /\ store.bridge[id].to = signature
=============================================================================
