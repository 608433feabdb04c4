--------------------- MODULE ResponsesCompressionProofs ---------------------
(***************************************************************************)
(* Proofs about ResponsesCompression, for any texts, answers of Headroom,  *)
(* call ids, floor and length of the conversation.                         *)
(***************************************************************************)
EXTENDS ResponsesCompression, FiniteSetTheorems, TLAPS

Shorter(i) == [history[i] EXCEPT !.text = Compress[@].text]

\* The slots whose text is exchanged if every slot of the input is tried.
Chosen == {i \in Slots(history) : /\ mode.outputs /\ ~mode.off
                                  /\ Accepted(history[i].text)}

\* What the hook makes of an item, whichever turn it is.
Rewritten(i) == IF i \in Chosen THEN Shorter(i) ELSE history[i]

SentInv ==
  /\ Len(sent) <= Len(history)
  /\ \A i \in 1..Len(sent) : sent[i] = Rewritten(i)

LoopInv ==
  pc = "units" =>
    /\ ~mode.off
    /\ todo \subseteq Slots(history) /\ (todo # {} => mode.outputs)
    /\ replaced = Chosen \ todo
    /\ account.before = account.after + account.saved
    /\ Cardinality(replaced) <= account.attempted
    /\ account.saved = 0 => replaced = {}

IInv == TypeOK /\ SentInv /\ LoopInv /\ ResultMatchesPayload

-----------------------------------------------------------------------------

\* An exchanged text belongs to an output, is another one, and is shorter.
LEMMA ChosenItems ==
  ASSUME TypeOK, NEW i \in Chosen
  PROVE  /\ i \in 1..Len(history) /\ history[i] \in Item
         /\ history[i].text \in Texts /\ Accepted(history[i].text)
         /\ Shorter(i) \in Item /\ Shorter(i) # history[i]
         /\ Shorter(i) = [history[i] EXCEPT !.text = Shorter(i).text]
         /\ Bytes[Shorter(i).text] < Bytes[history[i].text]
<1>1. /\ i \in 1..Len(history) /\ history[i] \in Item
      /\ history[i].type = "output" /\ history[i].text # None
      /\ Accepted(history[i].text)
  BY DEF Chosen, Slots, TypeOK
<1>2. history[i].text \in Texts
  BY <1>1 DEF Item
<1>3. /\ Compress[history[i].text].text \in Texts
      /\ Compress[history[i].text].text # history[i].text
      /\ Bytes[Compress[history[i].text].text] < Bytes[history[i].text]
  BY <1>1, <1>2, CompressAssumption DEF Accepted, Answer
<1>4. history[i] \in [type : {"output"}, call : CallIds \cup {None}, text : Texts \cup {None}]
  BY <1>1 DEF Item
<1>5. /\ Shorter(i) = [history[i] EXCEPT !.text = Compress[history[i].text].text]
      /\ Shorter(i).text = Compress[history[i].text].text
      /\ Shorter(i) \in Item
  BY <1>3, <1>4 DEF Shorter, Item
<1> QED BY <1>1, <1>2, <1>3, <1>5

\* Sets of indices of the conversation.
LEMMA IndexSets ==
  ASSUME TypeOK, NEW S \in SUBSET (1..Len(history))
  PROVE  /\ IsFiniteSet(S) /\ Cardinality(S) \in Nat
         /\ \A i \in 1..Len(history) : Cardinality(S \cup {i}) <= Cardinality(S) + 1
<1>1. Len(history) \in Nat
  BY DEF TypeOK
<1>2. IsFiniteSet(1..Len(history))
  BY <1>1, FS_Interval
<1>3. IsFiniteSet(S)
  BY <1>2, FS_Subset
<1>4. Cardinality(S) \in Nat
  BY <1>3, FS_CardinalityType
<1>5. ASSUME NEW i \in 1..Len(history)
      PROVE  Cardinality(S \cup {i}) <= Cardinality(S) + 1
  <2>1. Cardinality(S \cup {i}) = IF i \in S THEN Cardinality(S) ELSE Cardinality(S) + 1
    BY <1>3, FS_AddElement
  <2> QED BY <1>4, <2>1
<1> QED BY <1>3, <1>4, <1>5

LEMMA InitIInv == Init => IInv
<1> SUFFICES ASSUME Init PROVE IInv
  OBVIOUS
<1>1. TypeOK
  BY CompressAssumption DEF Init, TypeOK, Zero, Account
<1>2. SentInv /\ LoopInv /\ ResultMatchesPayload
  BY DEF Init, SentInv, LoopInv, ResultMatchesPayload
<1> QED BY <1>1, <1>2 DEF IInv

\* Growing the conversation changes nothing of what is made of the items there
\* were: no later call takes an earlier output.
LEMMA ConverseKeeps ==
  ASSUME TypeOK, NEW item \in Item, Converse(item)
  PROVE  /\ history' \in Seq(Item) /\ Len(history') = Len(history) + 1
         /\ \A i \in 1..Len(history) :
              history'[i] = history[i] /\ Rewritten(i)' = Rewritten(i)
<1>1. /\ history \in Seq(Item) /\ history' = Append(history, item) /\ mode' = mode
      /\ Len(history) \in Nat
  BY DEF Converse, TypeOK
<1>2. /\ history' \in Seq(Item) /\ Len(history') = Len(history) + 1
      /\ \A i \in 1..Len(history) : history'[i] = history[i]
      /\ history'[Len(history) + 1] = item
      /\ 1..Len(history') = 1..Len(history) \cup {Len(history) + 1}
  BY <1>1
<1>3. RetrievalIds(history') =
        RetrievalIds(history)
          \cup (IF item.type = "retrieval_call" THEN {item.call} \ {None} ELSE {})
  BY <1>1, <1>2 DEF RetrievalIds
<1>4. ASSUME NEW i \in 1..Len(history), history[i].type = "output"
      PROVE  history[i].call \in RetrievalIds(history') <=>
               history[i].call \in RetrievalIds(history)
  BY <1>3, <1>4 DEF Converse
<1>5. \A i \in 1..Len(history) : i \in Slots(history') <=> i \in Slots(history)
  BY <1>2, <1>4 DEF Slots
<1>6. \A i \in 1..Len(history) : i \in Chosen' <=> i \in Chosen
  BY <1>1, <1>2, <1>5 DEF Chosen
<1> QED BY <1>2, <1>6 DEF Rewritten, Shorter

\* A request that goes on is rewritten as any other turn would have it.
LEMMA SendKeeps ==
  ASSUME TypeOK, NEW changed, NEW counts \in Account, changed = Chosen, Send(changed, counts),
         history' = history, mode' = mode,
         counts.before = counts.after + counts.saved,
         Cardinality(changed) <= counts.attempted,
         counts.saved = 0 => changed = {}
  PROVE  /\ sent' \in Seq(Item) /\ result' \in [before : Nat, after : Nat, saved : Nat,
              attempted : Nat, modified : Nat, skipped : BOOLEAN]
         /\ SentInv' /\ ResultMatchesPayload'
<1>1. /\ Len(history) \in Nat /\ history \in Seq(Item)
      /\ \A i \in 1..Len(history) : history[i] \in Item
  BY DEF TypeOK
<1>2. sent' = [i \in 1..Len(history) |-> Rewritten(i)]
  BY DEF Send, Rewritten, Shorter
<1>3. \A i \in 1..Len(history) : Rewritten(i) \in Item
  BY <1>1, ChosenItems DEF Rewritten
<1>4. sent' \in Seq(Item) /\ Len(sent') = Len(history)
  BY <1>1, <1>2, <1>3
<1>5. \A i \in 1..Len(history) : sent'[i] = Rewritten(i)
  BY <1>2
<1>6. SentInv'
  <2>1. \A i \in 1..Len(history) : Rewritten(i)' = Rewritten(i)
    BY DEF Rewritten, Shorter, Chosen
  <2> QED BY <1>1, <1>4, <1>5, <2>1 DEF SentInv
<1>7. {i \in 1..Len(sent') : sent'[i] # history[i]} = Chosen
  <2>1. \A i \in 1..Len(history) : sent'[i] # history[i] <=> i \in Chosen
    BY <1>5, ChosenItems DEF Rewritten
  <2>2. Chosen \subseteq 1..Len(history)
    BY DEF Chosen, Slots
  <2> QED BY <1>4, <2>1, <2>2
<1>8. Cardinality(changed) \in Nat
  <2>1. Chosen \subseteq 1..Len(history)
    BY DEF Chosen, Slots
  <2> HIDE DEF Chosen
  <2> QED BY <2>1, IndexSets
<1>9. result' \in [before : Nat, after : Nat, saved : Nat, attempted : Nat,
                   modified : Nat, skipped : BOOLEAN]
  <2>1. (changed = {} /\ counts.saved = 0) \in BOOLEAN
    OBVIOUS
  <2> QED BY <1>8, <2>1 DEF Send, Account
<1>10. \A i \in Chosen : /\ sent'[i] = [history[i] EXCEPT !.text = sent'[i].text]
                         /\ Bytes[sent'[i].text] < Bytes[history[i].text]
  <2> SUFFICES ASSUME NEW i \in Chosen
               PROVE  /\ sent'[i] = [history[i] EXCEPT !.text = sent'[i].text]
                      /\ Bytes[sent'[i].text] < Bytes[history[i].text]
    OBVIOUS
  <2>1. i \in 1..Len(history)
    BY ChosenItems
  <2>2. sent'[i] = Shorter(i)
    BY <1>5, <2>1 DEF Rewritten
  <2> QED BY <2>2, ChosenItems
<1>11. /\ result'.before = result'.after + result'.saved
       /\ result'.modified = Cardinality(Chosen)
       /\ result'.modified <= result'.attempted
       /\ result'.skipped <=> result'.saved = 0
  BY DEF Send
<1>12. ResultMatchesPayload'
  BY <1>7, <1>10, <1>11 DEF ResultMatchesPayload
<1> QED BY <1>4, <1>6, <1>9, <1>12

\* Nothing that the properties speak of moves while the hook works: the input
\* sent, the result and the conversation stay.
LEMMA Still ==
  ASSUME SentInv, ResultMatchesPayload, UNCHANGED <<mode, history, sent, result>>
  PROVE  SentInv' /\ ResultMatchesPayload'
BY DEF SentInv, ResultMatchesPayload, Rewritten, Shorter, Chosen

\* The next slot's tokens, as tried or as left alone, add up.
LEMMA UnitKeeps ==
  ASSUME IInv, NEW i \in todo, Unit(i)
  PROVE  TypeOK' /\ LoopInv'
<1> DEFINE t == history[i].text
           c == Compress[t]
<1>1. /\ pc = "units" /\ pc' = pc /\ todo' = todo \ {i}
      /\ history' = history /\ mode' = mode /\ sent' = sent /\ result' = result
      /\ replaced' = IF Accepted(t) THEN replaced \cup {i} ELSE replaced
  BY DEF Unit, Try
<1>2. /\ i \in Slots(history) /\ mode.outputs /\ ~mode.off
      /\ todo \subseteq Slots(history) /\ replaced = Chosen \ todo
      /\ account.before = account.after + account.saved
      /\ Cardinality(replaced) <= account.attempted
      /\ account.saved = 0 => replaced = {}
      /\ account \in Account
      /\ i \in 1..Len(history)
  BY <1>1 DEF IInv, LoopInv, TypeOK
<1>3. t \in Texts /\ c \in Answer
  BY <1>2, CompressAssumption DEF IInv, TypeOK, Slots, Item
<1>4. account' = [before |-> account.before + c.before,
                  after |-> account.after + (IF Accepted(t) THEN c.after ELSE c.before),
                  saved |-> account.saved + (IF Accepted(t) THEN c.saved ELSE 0),
                  attempted |-> account.attempted + 1]
  <2>1. CASE Accepted(t)
    <3>1. c.after > 0
      BY <1>3, <2>1, CompressAssumption DEF Accepted
    <3>2. After(t) = c.after
      BY <1>3, <3>1 DEF After, Answer
    <3> QED BY <2>1, <3>2 DEF Unit, Try
  <2>2. CASE ~Accepted(t)
    BY <2>2 DEF Unit, Try
  <2> QED BY <2>1, <2>2
<1>5. /\ account' \in Account
      /\ account'.before = account'.after + account'.saved
      /\ account'.attempted = account.attempted + 1
      /\ Accepted(t) => account'.saved > 0
      /\ ~Accepted(t) => account'.saved = account.saved
  <2>1. /\ account.before \in Nat /\ account.after \in Nat
        /\ account.saved \in Nat /\ account.attempted \in Nat
    BY <1>2 DEF Account
  <2>2. c.before \in Nat /\ c.after \in Nat /\ c.saved \in Nat
    BY <1>3 DEF Answer
  <2>3. Accepted(t) => c.before = c.after + c.saved /\ c.saved > 0
    BY <1>3, CompressAssumption DEF Accepted
  <2>4. /\ account'.before = account.before + c.before
        /\ account'.after = account.after + (IF Accepted(t) THEN c.after ELSE c.before)
        /\ account'.saved = account.saved + (IF Accepted(t) THEN c.saved ELSE 0)
        /\ account'.attempted = account.attempted + 1
    BY <1>4
  <2>5. account' \in Account
    <3> HIDE DEF t, c
    <3> QED BY <1>4, <2>1, <2>2 DEF Account
  <2> HIDE DEF t, c
  <2>6. CASE Accepted(t)
    <3>1. /\ account'.after = account.after + c.after
          /\ account'.saved = account.saved + c.saved
      BY <2>4, <2>6
    <3>2. c.before = c.after + c.saved /\ c.saved > 0
      BY <2>3, <2>6
    <3>3. /\ account.before = account.after + account.saved
          /\ account'.before = account.before + c.before
      BY <1>2, <2>4
    <3>4. account'.saved > 0
      BY <2>1, <2>2, <3>1, <3>2
    <3>5. account'.before = account'.after + account'.saved
      BY <2>1, <2>2, <3>1, <3>2, <3>3
    <3> QED BY <2>4, <2>5, <2>6, <3>4, <3>5
  <2>7. CASE ~Accepted(t)
    BY <1>2, <2>1, <2>2, <2>4, <2>5, <2>7
  <2> QED BY <2>6, <2>7
<1>6. i \in Chosen <=> Accepted(t)
  BY <1>2 DEF Chosen
<1>7. Chosen' = Chosen
  BY <1>1 DEF Chosen
<1>8. replaced' = Chosen \ todo'
  <2> HIDE DEF t
  <2> QED BY <1>1, <1>2, <1>6
<1>9. replaced \in SUBSET (1..Len(history)) /\ replaced' \in SUBSET (1..Len(history))
  BY <1>1, <1>2 DEF IInv, TypeOK
<1>10. Cardinality(replaced') <= account'.attempted
  <2>1. Cardinality(replaced) \in Nat /\ Cardinality(replaced \cup {i}) <= Cardinality(replaced) + 1
    BY <1>2, <1>9, IndexSets DEF IInv
  <2>2. Cardinality(replaced \cup {i}) \in Nat
    <3>1. replaced \cup {i} \in SUBSET (1..Len(history))
      BY <1>2, <1>9
    <3> QED BY <3>1, IndexSets DEF IInv
  <2>3. account.attempted \in Nat
    BY <1>2 DEF Account
  <2> HIDE DEF t
  <2>4. replaced' = replaced \cup {i} \/ replaced' = replaced
    BY <1>1
  <2>5. /\ Cardinality(replaced) <= account.attempted
        /\ account'.attempted = account.attempted + 1
    BY <1>2, <1>5
  <2>6. CASE replaced' = replaced
    <3>1. Cardinality(replaced') = Cardinality(replaced)
      BY <2>6
    <3> QED BY <2>1, <2>3, <2>5, <3>1
  <2>7. CASE replaced' = replaced \cup {i}
    <3>1. Cardinality(replaced') = Cardinality(replaced \cup {i})
      BY <2>7
    <3> QED BY <2>1, <2>2, <2>3, <2>5, <3>1
  <2> QED BY <2>4, <2>6, <2>7
<1>11. account'.saved = 0 => replaced' = {}
  <2> HIDE DEF t
  <2>1. account'.saved \in Nat
    BY <1>5 DEF Account
  <2> QED BY <1>1, <1>2, <1>5, <2>1
<1>12. TypeOK'
  BY <1>1, <1>5, <1>9 DEF IInv, TypeOK
<1>13. LoopInv'
  <2> HIDE DEF t
  <2> QED BY <1>1, <1>2, <1>5, <1>7, <1>8, <1>10, <1>11 DEF LoopInv
<1> QED BY <1>12, <1>13

LEMMA StepIInv ==
  ASSUME IInv, [Next]_vars
  PROVE  IInv'
<1> USE DEF IInv
<1>1. ASSUME NEW item \in Item, Converse(item)
      PROVE  IInv'
  <2>1. /\ Len(history) < MaxItems /\ pc = "idle" /\ pc' = pc /\ mode' = mode
        /\ todo' = todo /\ replaced' = replaced /\ account' = account
        /\ sent' = sent /\ result' = result
    BY <1>1 DEF Converse
  <2>2. /\ history' \in Seq(Item) /\ Len(history') = Len(history) + 1
        /\ \A i \in 1..Len(history) :
             history'[i] = history[i] /\ Rewritten(i)' = Rewritten(i)
    BY <1>1, ConverseKeeps
  <2>3. Len(history) \in Nat /\ MaxItems \in Nat
    BY CompressAssumption DEF TypeOK
  <2>4. TypeOK'
    <3>1. Len(history') <= MaxItems /\ 1..Len(history) \subseteq 1..Len(history')
      BY <2>1, <2>2, <2>3
    <3> QED BY <2>1, <2>2, <3>1 DEF TypeOK
  <2>5. Len(sent) \in Nat /\ Len(sent) <= Len(history)
    BY DEF TypeOK, SentInv
  <2>6. 1..Len(sent) \subseteq 1..Len(history)
    BY <2>3, <2>5
  <2>7. SentInv'
    <3>1. Len(sent') <= Len(history')
      BY <2>1, <2>2, <2>3, <2>5
    <3> QED BY <2>1, <2>2, <2>6, <3>1 DEF SentInv
  <2>8. ResultMatchesPayload'
    <3>1. {i \in 1..Len(sent) : sent[i] # history[i]}
            = {i \in 1..Len(sent) : sent[i] # history'[i]}
      BY <2>2, <2>6
    <3> QED BY <2>1, <2>2, <2>6, <3>1 DEF ResultMatchesPayload
  <2> QED BY <2>1, <2>4, <2>7, <2>8 DEF LoopInv
<1>2. ASSUME Pass
      PROVE  IInv'
  <2>1. /\ mode.off /\ pc = "idle" /\ pc' = pc /\ mode' = mode /\ history' = history
        /\ todo' = todo /\ replaced' = replaced /\ account' = account /\ Send({}, Zero)
    BY <1>2 DEF Pass
  <2>2. Chosen = {}
    BY <2>1 DEF Chosen
  <2>3. Zero \in Account /\ Zero.before = Zero.after + Zero.saved /\ Zero.attempted = 0
    BY DEF Zero, Account
  <2>4. Cardinality({}) = 0
    BY FS_EmptySet
  <2>5. /\ sent' \in Seq(Item) /\ result' \in [before : Nat, after : Nat, saved : Nat,
              attempted : Nat, modified : Nat, skipped : BOOLEAN]
        /\ SentInv' /\ ResultMatchesPayload'
    <3>1. Cardinality({}) <= Zero.attempted
      BY <2>3, <2>4
    <3> HIDE DEF Chosen
    <3> QED BY <2>1, <2>2, <2>3, <3>1, SendKeeps
  <2> QED BY <2>1, <2>5 DEF TypeOK, LoopInv
<1>3. ASSUME Begin
      PROVE  IInv'
  <2>1. /\ ~mode.off /\ mode' = mode /\ history' = history /\ pc' = "units"
        /\ sent' = sent /\ result' = result
        /\ todo' = IF mode.outputs THEN Slots(history) ELSE {}
        /\ replaced' = {}
    BY <1>3 DEF Begin
  <2>2. /\ account' \in Account /\ account'.attempted = 0
        /\ account'.before = account'.after + account'.saved
    <3>1. CASE mode.tools
      BY <1>3, <3>1, CompressAssumption DEF Begin, Account
    <3>2. CASE ~mode.tools
      BY <1>3, <3>2 DEF Begin, Account, Zero
    <3> QED BY <3>1, <3>2
  <2>3. todo' \subseteq Slots(history) /\ Slots(history) \subseteq 1..Len(history)
        /\ (todo' # {} => mode.outputs)
    BY <2>1 DEF Slots
  <2>4. TypeOK'
    BY <2>1, <2>2, <2>3 DEF TypeOK
  <2>5. Chosen' \ todo' = {}
    BY <2>1 DEF Chosen
  <2>6. Cardinality(replaced') <= account'.attempted
    BY <2>1, <2>2, FS_EmptySet
  <2>7. LoopInv'
    BY <2>1, <2>2, <2>3, <2>5, <2>6 DEF LoopInv
  <2> QED BY <2>1, <2>4, <2>7, Still
<1>4. ASSUME NEW i \in todo, Unit(i)
      PROVE  IInv'
  <2>1. UNCHANGED <<mode, history, sent, result>>
    BY <1>4 DEF Unit, Try
  <2> QED BY <1>4, <2>1, UnitKeeps, Still
<1>5. ASSUME UnitRaises
      PROVE  IInv'
  <2>1. UNCHANGED <<mode, history, sent, result>>
    BY <1>5 DEF UnitRaises
  <2>2. TypeOK' /\ LoopInv'
    BY <1>5 DEF UnitRaises, TypeOK, LoopInv, Zero, Account
  <2> QED BY <2>1, <2>2, Still
<1>6. ASSUME Finish
      PROVE  IInv'
  <2>1. /\ pc = "units" /\ todo = {} /\ pc' = "idle" /\ mode' = mode /\ history' = history
        /\ todo' = todo /\ replaced' = {} /\ account' = Zero /\ Send(replaced, account)
    BY <1>6 DEF Finish
  <2>2. /\ replaced = Chosen /\ account \in Account
        /\ account.before = account.after + account.saved
        /\ Cardinality(replaced) <= account.attempted
        /\ account.saved = 0 => replaced = {}
    BY <2>1 DEF TypeOK, LoopInv
  <2>3. /\ sent' \in Seq(Item) /\ result' \in [before : Nat, after : Nat, saved : Nat,
              attempted : Nat, modified : Nat, skipped : BOOLEAN]
        /\ SentInv' /\ ResultMatchesPayload'
    <3> HIDE DEF Chosen
    <3> QED BY <2>1, <2>2, SendKeeps
  <2> QED BY <2>1, <2>3 DEF TypeOK, LoopInv, Zero, Account
<1>7. CASE UNCHANGED vars
  <2>1. TypeOK' /\ LoopInv'
    BY <1>7 DEF vars, TypeOK, LoopInv, Chosen
  <2> QED BY <1>7, <2>1, Still DEF vars
<1> QED BY <1>1, <1>2, <1>3, <1>4, <1>5, <1>6, <1>7 DEF Next

-----------------------------------------------------------------------------

\* The inductive invariant: whatever request of the conversation the provider
\* got last, it was rewritten as the next one would be.
THEOREM ConversationInvariance == Spec => []IInv
<1> QED BY InitIInv, StepIInv, PTL DEF Spec

\* The type invariant of the Responses hook, for every conversation.
THEOREM ConversationTypeCorrect == Spec => []TypeOK
<1>1. IInv => TypeOK
  BY DEF IInv
<1> QED BY <1>1, ConversationInvariance, PTL

\* What _local_compress_responses reports is what it did to the payload.
THEOREM ResultsMatchPayloads == Spec => []ResultMatchesPayload
<1>1. IInv => ResultMatchesPayload
  BY DEF IInv
<1> QED BY <1>1, ConversationInvariance, PTL

\* An output of the retrieval tool is sent as it is, in the turn that has it and
\* in all that follow, whatever else was compressed.
THEOREM RetrievalsStayVerbatim == Spec => []RetrievalsAreVerbatim
<1>1. ASSUME IInv PROVE RetrievalsAreVerbatim
  <2> SUFFICES ASSUME NEW i \in 1..Len(sent), NEW j \in 1..Len(history),
                      history[j].type = "retrieval_call",
                      history[j].call = history[i].call, history[j].call # None
               PROVE  sent[i] = history[i]
    BY DEF RetrievalsAreVerbatim
  <2>1. history[i].call \in RetrievalIds(history)
    BY DEF RetrievalIds
  <2>2. i \notin Chosen
    BY <2>1 DEF Chosen, Slots
  <2> QED BY <1>1, <2>2 DEF IInv, SentInv, Rewritten
<1> QED BY <1>1, ConversationInvariance, PTL

\* Every request begins with the one sent before it, byte for byte, so that the
\* provider's prompt cache finds its prefix again: each item is rewritten the
\* same way in every turn, and a failed request leaves nothing behind.
THEOREM ProviderPrefixIsKept == Spec => ProviderPrefixKept
<1> DEFINE Kept == Len(sent) <= Len(sent') /\ \A i \in 1..Len(sent) : sent'[i] = sent[i]
<1>1. ASSUME IInv, [Next]_vars
      PROVE  [Kept]_sent
  <2>0. /\ Len(sent) \in Nat /\ Len(history) \in Nat /\ Len(sent) <= Len(history)
        /\ \A i \in 1..Len(sent) : sent[i] = Rewritten(i)
    BY <1>1 DEF IInv, TypeOK, SentInv
  <2>1. ASSUME NEW changed, NEW counts, changed = Chosen, Send(changed, counts)
        PROVE  Kept
    <3>1. sent' = [i \in 1..Len(history) |-> Rewritten(i)]
      BY <2>1 DEF Send, Rewritten, Shorter
    <3>2. Len(sent') = Len(history) /\ 1..Len(sent) \subseteq 1..Len(history)
      BY <2>0, <3>1
    <3> QED BY <2>0, <3>1, <3>2
  <2>2. CASE Pass
    <3>1. Chosen = {}
      BY <2>2 DEF Pass, Chosen
    <3> HIDE DEF Chosen, Kept
    <3> QED BY <2>1, <2>2, <3>1 DEF Pass
  <2>3. CASE Finish
    <3>1. replaced = Chosen
      BY <1>1, <2>3 DEF Finish, IInv, LoopInv
    <3> HIDE DEF Chosen, Kept
    <3> QED BY <2>1, <2>3, <3>1 DEF Finish
  <2>4. CASE ~Pass /\ ~Finish
    <3>1. sent' = sent
      BY <1>1, <2>4 DEF Next, vars, Converse, Begin, Unit, Try, UnitRaises
    <3> QED BY <3>1
  <2> QED BY <2>2, <2>3, <2>4
<1> QED BY <1>1, ConversationInvariance, PTL DEF Spec, ProviderPrefixKept
=============================================================================
