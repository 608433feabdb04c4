------------------------ MODULE ResponsesCompression ------------------------
(***************************************************************************)
(* What the callback does to the requests of one Responses API             *)
(* conversation (analytics/adapters/litellm/callback.py,                   *)
(* _local_compress_responses): every turn the client sends the whole       *)
(* conversation again, and the pre-call hook has Headroom compress tool    *)
(* outputs in it, one by one, before the request goes to the provider.     *)
(*                                                                         *)
(* An output is a text, of which only the UTF-8 length is known and what   *)
(* Headroom makes of it.  No tokens are shown as 0 where the code says     *)
(* None.                                                                   *)
(***************************************************************************)
EXTENDS Naturals, Sequences, FiniteSets

CONSTANTS
  Texts,       \* non-empty output texts, those Headroom makes included
  Bytes,       \* text -> its length
  Compress,    \* text -> what Headroom's compress answers
  CallIds,
  MinBytes,    \* HEADROOM_RESPONSES_MIN_MUTABLE_BYTES
  ToolsBefore, ToolsAfter,  \* tokens of the tool schemas, and when compacted
  MaxItems,    \* bound on the conversation
  None         \* no text, no call id

\* compress's tokens_before, tokens_after, tokens_saved, and the text of its
\* first message.
Answer == [before : Nat, after : Nat, saved : Nat, text : Texts \cup {None}]

ASSUME CompressAssumption ==
  /\ Bytes \in [Texts -> Nat] /\ MinBytes \in Nat
  /\ Compress \in [Texts -> Answer]
  /\ \A t \in Texts : Compress[t].saved > 0 =>
       Compress[t].before = Compress[t].after + Compress[t].saved
         /\ Compress[t].after > 0
  /\ ToolsBefore \in Nat /\ ToolsAfter \in Nat /\ ToolsAfter < ToolsBefore
  /\ MaxItems \in Nat
  /\ None \notin Texts

\* Items of the input: function_call, of the retrieval tool or another one, the
\* output of a call, and anything else.
Item == [type : {"message"}, call : {None}, text : {None}]
          \cup [type : {"call", "retrieval_call"}, call : CallIds \cup {None}, text : {None}]
          \cup [type : {"output"}, call : CallIds \cup {None}, text : Texts \cup {None}]

Account == [before : Nat, after : Nat, saved : Nat, attempted : Nat]

VARIABLES
  mode,      \* the environment: tool schema compaction and output compression
             \* enabled, and compression switched off by the wrapper's header
  history,   \* the conversation as the client has it
  pc,        \* is the hook working on a request?
  todo,      \* the slots it has still to try: indices of history
  replaced,  \* the slots to get Headroom's text
  account,   \* its token counts
  sent,      \* the input the provider got last
  result     \* what the hook returned for it

vars == <<mode, history, pc, todo, replaced, account, sent, result>>

Zero == [before |-> 0, after |-> 0, saved |-> 0, attempted |-> 0]

TypeOK ==
  /\ mode \in [tools : BOOLEAN, outputs : BOOLEAN, off : BOOLEAN]
  /\ history \in Seq(Item) /\ Len(history) <= MaxItems
  /\ pc \in {"idle", "units"}
  /\ todo \subseteq 1..Len(history)
  /\ replaced \subseteq 1..Len(history)
  /\ account \in Account
  /\ sent \in Seq(Item)
  /\ result \in [before : Nat, after : Nat, saved : Nat, attempted : Nat,
                 modified : Nat, skipped : BOOLEAN] \cup {None}

Init ==
  /\ mode \in [tools : BOOLEAN, outputs : BOOLEAN, off : BOOLEAN]
  /\ history = <<>>
  /\ pc = "idle"
  /\ todo = {} /\ replaced = {} /\ account = Zero
  /\ sent = <<>>
  /\ result = None

-----------------------------------------------------------------------------
(* Which outputs may change *)

\* _responses_retrieval_call_ids
RetrievalIds(h) ==
  {h[i].call : i \in {j \in 1..Len(h) : h[j].type = "retrieval_call"}} \ {None}

\* Mutant of Slots: what was retrieved is compressed again.
SlotsUnprotected(h) ==
  {i \in 1..Len(h) :
     h[i].type = "output" /\ h[i].text # None /\ Bytes[h[i].text] >= MinBytes}

\* Mutant of Slots: only the newest item is compressed.
SlotsOfLastItem(h) ==
  {i \in 1..Len(h) :
     i = Len(h) /\ h[i].type = "output" /\ h[i].text # None
       /\ h[i].call \notin RetrievalIds(h) /\ Bytes[h[i].text] >= MinBytes}

\* _responses_mutable_output_slots
Slots(h) ==
  {i \in 1..Len(h) :
     /\ h[i].type = "output" /\ h[i].text # None
     /\ h[i].call \notin RetrievalIds(h)
     /\ Bytes[h[i].text] >= MinBytes}

\* The answer makes the request smaller, in tokens and in bytes.
Accepted(t) ==
  /\ Compress[t].saved > 0
  /\ Compress[t].text \notin {None, t}
  /\ Bytes[Compress[t].text] < Bytes[t]

\* tokens_after, 0 being taken for missing.
After(t) == IF Compress[t].after = 0 THEN Compress[t].before ELSE Compress[t].after

-----------------------------------------------------------------------------
(* The conversation *)

\* The client adds an item; a call comes before its output.
Converse(item) ==
  /\ pc = "idle"
  /\ Len(history) < MaxItems
  /\ item.type = "retrieval_call" /\ item.call # None =>
       \A i \in 1..Len(history) :
         history[i].type = "output" => history[i].call # item.call
  /\ history' = Append(history, item)
  /\ UNCHANGED <<mode, pc, todo, replaced, account, sent, result>>

\* The request goes on with the rewritten input.
Send(changed, counts) ==
  /\ sent' = [i \in 1..Len(history) |->
                IF i \in changed
                THEN [history[i] EXCEPT !.text = Compress[@].text]
                ELSE history[i]]
  /\ result' = [before |-> counts.before, after |-> counts.after,
                saved |-> counts.saved, attempted |-> counts.attempted,
                modified |-> Cardinality(changed),
                skipped |-> changed = {} /\ counts.saved = 0]

\* The header switches compression off.
Pass ==
  /\ pc = "idle" /\ mode.off
  /\ Send({}, Zero)
  /\ UNCHANGED <<mode, history, pc, todo, replaced, account>>

\* Tool schemas are compacted, and the slots collected.
Begin ==
  /\ pc = "idle" /\ ~mode.off
  /\ pc' = "units"
  /\ todo' = IF mode.outputs THEN Slots(history) ELSE {}
  /\ replaced' = {}
  /\ account' = IF mode.tools
                THEN [before |-> ToolsBefore, after |-> ToolsAfter,
                      saved |-> ToolsBefore - ToolsAfter, attempted |-> 0]
                ELSE Zero
  /\ UNCHANGED <<mode, history, sent, result>>

\* Take the next slot; its token counts are the caller's.
Try(i, after, saved) ==
  /\ pc = "units" /\ i \in todo /\ \A j \in todo : i <= j
  /\ todo' = todo \ {i}
  /\ replaced' = IF Accepted(history[i].text) THEN replaced \cup {i} ELSE replaced
  /\ account' = [before |-> account.before + Compress[history[i].text].before,
                 after |-> account.after + after,
                 saved |-> account.saved + saved,
                 attempted |-> account.attempted + 1]
  /\ UNCHANGED <<mode, history, pc, sent, result>>

\* Mutant of Unit: a slot left alone counts what Headroom made of it.
UnitCountsAttempt(i) ==
  LET t == history[i].text
  IN  Try(i, After(t), IF Accepted(t) THEN Compress[t].saved ELSE 0)

\* Mutant of Unit: what is saved is the difference, even if negative.
UnitDifference(i) ==
  LET t == history[i].text
  IN  Try(i, After(t), Compress[t].before - After(t))

\* Headroom compresses the next slot; a text that is not smaller stays, and
\* counts as it is.
Unit(i) ==
  LET t == history[i].text
      c == Compress[t]
  IN  IF Accepted(t) THEN Try(i, After(t), c.saved) ELSE Try(i, c.before, 0)

\* It raises: the hook fails, and with it the request, of which nothing is sent.
UnitRaises ==
  /\ pc = "units" /\ todo # {}
  /\ pc' = "idle"
  /\ todo' = {} /\ replaced' = {} /\ account' = Zero
  /\ UNCHANGED <<mode, history, sent, result>>

\* All slots are tried.
Finish ==
  /\ pc = "units" /\ todo = {}
  /\ Send(replaced, account)
  /\ pc' = "idle"
  /\ replaced' = {} /\ account' = Zero
  /\ UNCHANGED <<mode, history, todo>>

Next ==
  \/ \E item \in Item : Converse(item)
  \/ Pass \/ Begin
  \/ \E i \in todo : Unit(i)
  \/ UnitRaises \/ Finish

Spec == Init /\ [][Next]_vars

-----------------------------------------------------------------------------
(* Properties *)

\* What the hook reports is what it did: the tokens add up over the compacted
\* schemas and the slots that were changed or left alone, as many items differ
\* from the client's as are counted, each is smaller, and a request is reported
\* as skipped exactly if nothing was saved.
ResultMatchesPayload ==
  result # None =>
    LET changed == {i \in 1..Len(sent) : sent[i] # history[i]}
    IN  /\ result.before = result.after + result.saved
        /\ result.modified = Cardinality(changed)
        /\ result.modified <= result.attempted
        /\ result.skipped <=> result.saved = 0
        /\ \A i \in changed : /\ sent[i] = [history[i] EXCEPT !.text = sent[i].text]
                              /\ Bytes[sent[i].text] < Bytes[history[i].text]

\* What the model retrieved through the analytics tool reaches it as it is, in
\* this turn and when the conversation goes on.
RetrievalsAreVerbatim ==
  \A i \in 1..Len(sent) : \A j \in 1..Len(history) :
    (/\ history[i].type = "output"
     /\ history[j].type = "retrieval_call"
     /\ history[j].call = history[i].call
     /\ history[j].call # None) => sent[i] = history[i]

\* The provider's prompt cache stays usable: each request's input begins with
\* the whole input sent before it, although the hook compresses everything anew
\* every turn and requests may fail in between.
ProviderPrefixKept ==
  [][Len(sent) <= Len(sent') /\ \A i \in 1..Len(sent) : sent'[i] = sent[i]]_sent
=============================================================================
