--------------------------- MODULE Adapters_proofs ---------------------------
(* Proofs about an adapter's way, part by part.  KvSession: for any vocabulary,    *)
(* adapters, context and batch lengths, what the reused context holds is the       *)
(* turn's own conversation, and a turn that continues it leaves its whole history  *)
(* to be reused.  Conversion: for any page and any number of installers that take  *)
(* turns at the folder, a converted adapter is there whole or not at all.          *)
(* Capability: for any thresholds and verdicts, the slot in use changes only when  *)
(* something has earned it.                                                        *)
EXTENDS MCAdapters, SequenceTheorems, WellFoundedInduction, FiniteSetTheorems, FunctionTheorems, TLAPS

-----------------------------------------------------------------------------
(* Facts about the helpers.                                                       *)

\* Every non-empty set of naturals has a least element, and a bounded one a greatest.
LEMMA LeastNatural ==
  ASSUME NEW T, T \subseteq Nat, T # {} PROVE \E x \in T : \A y \in T : x <= y
<1>1. PICK x \in T : \A y \in T : ~ (<<y, x>> \in OpToRel(<, Nat))
  BY NatLessThanWellFounded, WFMin
<1>2. ASSUME NEW y \in T, y < x PROVE FALSE
  BY <1>1, <1>2 DEF OpToRel
<1> QED
  BY <1>2

LEMMA GreatestNatural ==
  ASSUME NEW bound \in Nat, NEW T, T \subseteq 0..bound, T # {}
  PROVE  \E x \in T : \A y \in T : y <= x
<1> DEFINE gaps == {bound - y : y \in T}
<1>1. gaps \subseteq Nat /\ gaps # {}
  <2>1. \A y \in T : y \in Nat /\ bound - y \in Nat
    OBVIOUS
  <2> QED
    BY <2>1
<1>2. PICK g \in gaps : \A h \in gaps : g <= h
  BY <1>1, LeastNatural
<1>3. PICK x \in T : g = bound - x
  BY <1>2
<1>4. ASSUME NEW y \in T PROVE y <= x
  <2>1. bound - x <= bound - y
    BY <1>2, <1>3
  <2> QED
    BY <2>1
<1> QED
  BY <1>4

\* What is reused of a cache is the longest prefix it shares with the prompt that leaves
\* at least one token to decode.
LEMMA ReuseIsLongest ==
  ASSUME NEW c \in Seq(Tokens), NEW p \in Seq(Tokens), Len(p) > 0
  PROVE  LET n == ReusablePrefix(c, p) IN
         /\ n \in 0..Len(c) /\ n < Len(p) /\ Agree(c, p, n)
         /\ \A m \in 0..Min2(Len(c), Len(p) - 1) : Agree(c, p, m) => m <= n
<1> DEFINE limit == Min2(Len(c), Len(p) - 1)
           good == {n \in 0..limit : Agree(c, p, n)}
           Longest(n) == /\ Agree(c, p, n)
                         /\ \A m \in (n + 1)..limit : ~Agree(c, p, m)
<1>1. limit \in Nat /\ limit <= Len(c) /\ limit < Len(p)
  BY LenProperties DEF Min2
<1>2. 0 \in good
  BY <1>1 DEF Agree
<1>3. PICK n \in good : \A m \in good : m <= n
  BY <1>1, <1>2, GreatestNatural
<1>4. n \in 0..limit /\ Longest(n)
  <2>1. ASSUME NEW m \in (n + 1)..limit, Agree(c, p, m) PROVE FALSE
    BY <1>1, <1>3, <2>1
  <2> QED
    BY <1>3, <2>1
<1>5. ReusablePrefix(c, p) = CHOOSE k \in 0..limit : Longest(k)
  BY DEF ReusablePrefix
<1> HIDE DEF Longest, limit
<1>6. ReusablePrefix(c, p) \in 0..limit /\ Longest(ReusablePrefix(c, p))
  BY <1>4, <1>5
<1>7. ASSUME NEW m \in 0..limit, Agree(c, p, m) PROVE m <= ReusablePrefix(c, p)
  BY <1>1, <1>6, <1>7 DEF Longest
<1> QED
  BY <1>1, <1>6, <1>7 DEF Longest, limit

\* A decoded list is as long as its tokens, piece by piece.
LEMMA DecodedIsSeq ==
  ASSUME NEW s \in Seq(Tokens), NEW b \in Bindings
  PROVE  /\ Decoded(s, b) \in Seq([token : Tokens, under : Bindings])
         /\ Len(Decoded(s, b)) = Len(s)
         /\ \A i \in 1..Len(s) : Decoded(s, b)[i] = [token |-> s[i], under |-> b]
BY LenProperties DEF Decoded

LEMMA DecodedPrefix ==
  ASSUME NEW s \in Seq(Tokens), NEW b \in Bindings, NEW n \in 0..Len(s)
  PROVE  SubSeq(Decoded(s, b), 1, n) = Decoded(SubSeq(s, 1, n), b)
<1> DEFINE E == [token : Tokens, under : Bindings]
           d == Decoded(s, b)
           u == SubSeq(s, 1, n)
<1>1. u \in Seq(Tokens) /\ Len(u) = n /\ \A i \in 1..n : u[i] = s[i]
  BY LenProperties, ElementOfSeq, SubSeqProperties
<1>2. d \in Seq(E) /\ Len(d) = Len(s) /\ \A i \in 1..n : d[i] = [token |-> s[i], under |-> b]
  <2>1. 1..n \subseteq 1..Len(s)
    BY LenProperties
  <2> QED
    BY <2>1, DecodedIsSeq
<1>3. SubSeq(d, 1, n) \in Seq(E) /\ Len(SubSeq(d, 1, n)) = n
      /\ \A i \in 1..n : SubSeq(d, 1, n)[i] = d[i]
  <2> HIDE DEF d, E
  <2>1. \A i \in 1..n : d[i] \in E
    <3>1. 1..n \subseteq 1..Len(d)
      BY <1>2, LenProperties
    <3> QED
      BY <1>2, <3>1, ElementOfSeq
  <2> QED
    BY <1>2, <2>1, SubSeqProperties
<1>4. Decoded(u, b) \in Seq(E) /\ Len(Decoded(u, b)) = n
      /\ \A i \in 1..n : Decoded(u, b)[i] = [token |-> u[i], under |-> b]
  <2> HIDE DEF u
  <2> QED
    BY <1>1, DecodedIsSeq
<1> HIDE DEF u, d
<1>5. \A i \in 1..n : SubSeq(d, 1, n)[i] = Decoded(u, b)[i]
  BY <1>1, <1>2, <1>3, <1>4
<1>6. SubSeq(d, 1, n) = Decoded(u, b)
  BY <1>3, <1>4, <1>5, SeqEqual
<1> QED
  BY <1>6 DEF u, d

LEMMA DecodedConcat ==
  ASSUME NEW s \in Seq(Tokens), NEW t \in Seq(Tokens), NEW b \in Bindings
  PROVE  Decoded(s, b) \o Decoded(t, b) = Decoded(s \o t, b)
<1> DEFINE E == [token : Tokens, under : Bindings]
           both == Decoded(s, b) \o Decoded(t, b)
           all == Decoded(s \o t, b)
<1>1. s \o t \in Seq(Tokens) /\ Len(s \o t) = Len(s) + Len(t)
      /\ \A i \in 1..(Len(s) + Len(t)) :
           (s \o t)[i] = IF i <= Len(s) THEN s[i] ELSE t[i - Len(s)]
  BY ConcatProperties
<1>2. /\ Decoded(s, b) \in Seq(E) /\ Len(Decoded(s, b)) = Len(s)
      /\ Decoded(t, b) \in Seq(E) /\ Len(Decoded(t, b)) = Len(t)
  BY DecodedIsSeq
<1>3. /\ all \in Seq(E) /\ Len(all) = Len(s) + Len(t)
      /\ \A i \in 1..(Len(s) + Len(t)) : all[i] = [token |-> (s \o t)[i], under |-> b]
  <2> DEFINE u == s \o t
  <2>1. u \in Seq(Tokens) /\ Len(u) = Len(s) + Len(t)
    BY <1>1
  <2> HIDE DEF u
  <2>2. /\ Decoded(u, b) \in Seq(E) /\ Len(Decoded(u, b)) = Len(u)
        /\ \A i \in 1..Len(u) : Decoded(u, b)[i] = [token |-> u[i], under |-> b]
    BY <2>1, DecodedIsSeq
  <2> QED
    BY <2>1, <2>2 DEF u
<1>4. /\ both \in Seq(E) /\ Len(both) = Len(s) + Len(t)
      /\ \A i \in 1..(Len(s) + Len(t)) : both[i] =
           IF i <= Len(s) THEN Decoded(s, b)[i] ELSE Decoded(t, b)[i - Len(s)]
  <2> DEFINE x == Decoded(s, b)
             y == Decoded(t, b)
  <2>1. x \in Seq(E) /\ Len(x) = Len(s) /\ y \in Seq(E) /\ Len(y) = Len(t)
    BY <1>2
  <2> HIDE DEF x, y, E
  <2>2. /\ x \o y \in Seq(E) /\ Len(x \o y) = Len(x) + Len(y)
        /\ \A i \in 1..(Len(x) + Len(y)) : (x \o y)[i] = IF i <= Len(x) THEN x[i] ELSE y[i - Len(x)]
    BY <2>1, ConcatProperties
  <2> QED
    BY <2>1, <2>2 DEF x, y
<1>5. \A i \in 1..Len(s) : Decoded(s, b)[i] = [token |-> s[i], under |-> b]
  BY DecodedIsSeq
<1>6. \A i \in 1..Len(t) : Decoded(t, b)[i] = [token |-> t[i], under |-> b]
  BY DecodedIsSeq
<1>7. Len(s) \in Nat /\ Len(t) \in Nat
  BY LenProperties
<1> HIDE DEF both, all
<1>8. ASSUME NEW i \in 1..(Len(s) + Len(t)) PROVE both[i] = all[i]
  <2>1. CASE i <= Len(s)
    <3>1. i \in 1..Len(s)
      BY <1>7, <2>1
    <3> QED
      BY <1>1, <1>3, <1>4, <1>5, <2>1, <3>1
  <2>2. CASE ~(i <= Len(s))
    <3>1. i - Len(s) \in 1..Len(t)
      BY <1>7, <2>2
    <3> QED
      BY <1>1, <1>3, <1>4, <1>6, <2>2, <3>1
  <2> QED
    BY <2>1, <2>2
<1>9. both = all
  BY <1>3, <1>4, <1>8, SeqEqual
<1> QED
  BY <1>9 DEF both, all

-----------------------------------------------------------------------------
(* The inductive invariant.                                                       *)

\* The types the proof needs: those of TypeOK without its bounds.
KvTypes ==
  /\ model = NoModel \/ model \in LoadedModels
  /\ session = NoSession \/ session \in Sessions
  /\ turn \in TurnStates
  /\ loads \in Nat

\* The list mirrors the cache, of the model that is loaded now.
Mirror ==
  /\ session = NoSession => kv = <<>>
  /\ session # NoSession =>
       kv = Decoded(session.tokens, session.bound) /\ model # NoModel /\ session.load = model.load
  /\ \A a \in adapters : model # NoModel /\ a.load = model.load

\* Where the turn is says what the list holds of it: nothing known before the trim, the
\* prompt's own first tokens in prefill, the whole prompt and the answer in decode.
Progress ==
  /\ turn.pc \in {"context", "trim"} => model # NoModel /\ Len(turn.prompt) > 0 /\ turn.said = <<>>
  /\ At("trim") => session # NoSession
  /\ At("prefill") =>
       /\ session # NoSession /\ turn.said = <<>> /\ turn.base < Len(turn.prompt)
       /\ session.tokens = SubSeq(turn.prompt, 1, turn.base)
  /\ At("decode") =>
       session # NoSession /\ session.tokens = turn.prompt \o turn.said /\ turn.fresh

KvInv == KvTypes /\ Mirror /\ Progress

\* Nothing is loaded at the start.
LEMMA KvStart == KvAssumption /\ Init => KvInv
<1> SUFFICES ASSUME KvAssumption, Init PROVE KvInv
  OBVIOUS
<1>1. turn = Quiet /\ Quiet \in TurnStates /\ Quiet.pc = "idle"
  BY EmptySeq DEF Init, Quiet, TurnStates, Bindings
<1> QED
  BY <1>1 DEF Init, KvInv, KvTypes, Mirror, Progress, At

\* What a session keeps after its trim is a prefix of its list and of the prompt.
LEMMA KeptIsPrefix ==
  ASSUME session \in Sessions, turn \in TurnStates, Len(turn.prompt) > 0
  PROVE  /\ Kept \in 0..Len(session.tokens) /\ Kept < Len(turn.prompt)
         /\ SubSeq(session.tokens, 1, Kept) = SubSeq(turn.prompt, 1, Kept)
<1>1. session.tokens \in Seq(Tokens) /\ turn.prompt \in Seq(Tokens)
  BY DEF Sessions, TurnStates
<1>2. /\ Reuse \in 0..Len(session.tokens) /\ Reuse < Len(turn.prompt)
      /\ Agree(session.tokens, turn.prompt, Reuse)
  BY <1>1, ReuseIsLongest DEF Reuse
<1>3. Kept \in {0, Reuse}
  BY DEF Kept
<1>4. Kept \in 0..Len(session.tokens) /\ Kept < Len(turn.prompt)
      /\ Agree(session.tokens, turn.prompt, Kept)
  BY <1>1, <1>2, <1>3, LenProperties DEF Agree
<1>5. \A i \in 1..Kept : session.tokens[i] \in Tokens /\ turn.prompt[i] \in Tokens
  <2>1. 1..Kept \subseteq 1..Len(session.tokens) /\ 1..Kept \subseteq 1..Len(turn.prompt)
    BY <1>1, <1>4, LenProperties
  <2> QED
    BY <1>1, <2>1, ElementOfSeq
<1>6. SubSeq(session.tokens, 1, Kept) = SubSeq(turn.prompt, 1, Kept)
  <2> DEFINE s == SubSeq(session.tokens, 1, Kept)
             t == SubSeq(turn.prompt, 1, Kept)
             k == Kept
  <2>1. k \in Nat /\ \A i \in 1..k : session.tokens[i] = turn.prompt[i]
    BY <1>4 DEF Agree
  <2> HIDE DEF k
  <2>2. /\ s \in Seq(Tokens) /\ Len(s) = k /\ \A i \in 1..k : s[i] = session.tokens[i]
        /\ t \in Seq(Tokens) /\ Len(t) = k /\ \A i \in 1..k : t[i] = turn.prompt[i]
    BY <1>5, <2>1, SubSeqProperties DEF k
  <2> HIDE DEF s, t
  <2>3. s = t
    BY <2>1, <2>2, SeqEqual
  <2> QED
    BY <2>3 DEF s, t
<1> QED
  BY <1>4, <1>6

LEMMA TrimKeeps == ASSUME KvAssumption, KvInv, Trim PROVE KvInv'
<1> DEFINE kept == SubSeq(session.tokens, 1, Kept)
<1>1. session \in Sessions /\ turn \in TurnStates /\ Len(turn.prompt) > 0 /\ turn.said = <<>>
      /\ session # NoSession /\ model # NoModel
  BY DEF KvInv, KvTypes, Progress, Trim, At
<1>2. /\ session.tokens \in Seq(Tokens) /\ session.bound \in Bindings
      /\ turn.prompt \in Seq(Tokens)
  BY <1>1 DEF Sessions, TurnStates
<1>3. Kept \in 0..Len(session.tokens) /\ Kept < Len(turn.prompt)
      /\ kept = SubSeq(turn.prompt, 1, Kept)
  BY <1>1, KeptIsPrefix
<1>4. Kept \in Nat /\ kept \in Seq(Tokens)
  BY <1>2, <1>3, LenProperties, ElementOfSeq, SubSeqProperties
<1>5. kv' = Decoded(kept, session.bound)
  BY <1>1, <1>2, <1>3, DecodedPrefix DEF KvInv, Mirror, Trim
<1> HIDE DEF kept
<1>6. session' = [session EXCEPT !.tokens = kept]
      /\ turn' = [turn EXCEPT !.pc = "prefill", !.base = Kept] /\ UNCHANGED <<model, adapters, loads>>
  BY DEF Trim, kept
<1>7. session' \in Sessions /\ turn' \in TurnStates /\ session' # NoSession
  BY <1>1, <1>4, <1>6 DEF Sessions, TurnStates, KvAssumption
<1>8. session'.tokens = kept /\ session'.bound = session.bound /\ session'.load = session.load
  BY <1>1, <1>6 DEF Sessions
<1>9. turn'.pc = "prefill" /\ turn'.base = Kept /\ turn'.prompt = turn.prompt /\ turn'.said = <<>>
  BY <1>1, <1>6 DEF TurnStates
<1>10. Mirror'
  BY <1>1, <1>5, <1>6, <1>7, <1>8 DEF KvInv, Mirror
<1>11. Progress'
  BY <1>3, <1>7, <1>8, <1>9 DEF Progress, At
<1> QED
  BY <1>6, <1>7, <1>10, <1>11 DEF KvInv, KvTypes

\* A turn that ends without a session leaves nothing behind.
LEMMA DroppedSessionKeeps ==
  ASSUME KvAssumption, KvInv, EndSession, Return, UNCHANGED <<model, adapters, loads>>
  PROVE  KvInv'
<1>1. turn' \in TurnStates /\ turn'.pc = "idle"
  BY DEF KvInv, KvTypes, Return, TurnStates
<1> QED
  BY <1>1 DEF KvInv, KvTypes, Mirror, Progress, At, EndSession

LEMMA PrefillKeeps == ASSUME KvAssumption, KvInv, Prefill PROVE KvInv'
<1> DEFINE last == Min2(turn.base + Batch, Len(turn.prompt))
           chunk == SubSeq(turn.prompt, turn.base + 1, last)
           grown == session.tokens \o chunk
<1>1. /\ session \in Sessions /\ session # NoSession /\ turn \in TurnStates
      /\ turn.said = <<>> /\ turn.base < Len(turn.prompt)
      /\ session.tokens = SubSeq(turn.prompt, 1, turn.base)
  BY DEF KvInv, KvTypes, Progress, Prefill, At
<1>2. /\ session.tokens \in Seq(Tokens) /\ session.bound \in Bindings
      /\ turn.prompt \in Seq(Tokens) /\ turn.base \in Nat
  BY <1>1 DEF Sessions, TurnStates
<1>3. Batch \in Nat /\ Batch > 0 /\ Len(turn.prompt) \in Nat
  BY <1>2, LenProperties DEF KvAssumption
<1>4. last \in Nat /\ turn.base < last /\ last <= Len(turn.prompt)
  BY <1>1, <1>2, <1>3 DEF Min2
<1> HIDE DEF last
<1>5. chunk \in Seq(Tokens) /\ Len(chunk) = last - turn.base
  <2>1. \A i \in (turn.base + 1)..last : turn.prompt[i] \in Tokens
    <3>1. (turn.base + 1)..last \subseteq 1..Len(turn.prompt)
      BY <1>2, <1>3, <1>4
    <3> QED
      BY <1>2, <3>1, ElementOfSeq
  <2> QED
    BY <1>2, <1>4, <2>1, SubSeqProperties
<1>6. chunk # <<>>
  <2> HIDE DEF chunk
  <2> QED
    BY <1>2, <1>4, <1>5, EmptySeq
<1>7. grown = SubSeq(turn.prompt, 1, last)
  <2>1. SubSeq(turn.prompt, 1, turn.base) \o SubSeq(turn.prompt, turn.base + 1, last)
          = SubSeq(turn.prompt, 1, last)
    <3> DEFINE p == turn.prompt
               k == turn.base
    <3>1. p \in Seq(Tokens) /\ 1 \in 1..(Len(p) + 1) /\ k \in (1 - 1)..Len(p) /\ last \in k..Len(p)
      BY <1>2, <1>3, <1>4
    <3> HIDE DEF p, k
    <3>2. SubSeq(p, 1, k) \o SubSeq(p, k + 1, last) = SubSeq(p, 1, last)
      BY <3>1, ConcatAdjacentSubSeq
    <3> QED
      BY <3>2 DEF p, k
  <2> QED
    BY <1>1, <2>1
<1>8. grown \in Seq(Tokens)
  BY <1>2, <1>5, ConcatProperties
<1>9. Decoded(session.tokens, session.bound) \o Decoded(chunk, session.bound)
        = Decoded(grown, session.bound)
  BY <1>2, <1>5, DecodedConcat
<1> HIDE DEF chunk, grown
<1>10. CASE EndSession /\ Return
  BY <1>10, DroppedSessionKeeps DEF Prefill
<1>11. CASE ~(EndSession /\ Return)
  <2>1. /\ kv' = kv \o Decoded(chunk, session.bound)
        /\ session' = [session EXCEPT !.tokens = grown]
        /\ turn' = [turn EXCEPT !.base = last, !.fresh = @ \/ chunk # <<>>,
                      !.pc = IF last = Len(turn.prompt) THEN "decode" ELSE "prefill"]
        /\ UNCHANGED <<model, adapters, loads>>
    BY <1>11 DEF Prefill, last, chunk, grown
  <2>2. session' \in Sessions /\ session' # NoSession
    BY <1>1, <1>8, <2>1 DEF Sessions, KvAssumption
  <2>3. session'.tokens = grown /\ session'.bound = session.bound /\ session'.load = session.load
    BY <1>1, <2>1 DEF Sessions
  <2>4. PICK fresh \in BOOLEAN : fresh = (turn.fresh \/ chunk # <<>>)
    OBVIOUS
  <2>5. fresh = TRUE
    BY <1>6, <2>4
  <2>6. turn' = [turn EXCEPT !.base = last, !.fresh = TRUE,
                      !.pc = IF last = Len(turn.prompt) THEN "decode" ELSE "prefill"]
    BY <2>1, <2>4, <2>5, Zenon
  <2>7. /\ turn' \in TurnStates
        /\ turn'.base = last /\ turn'.fresh = TRUE /\ turn'.said = <<>> /\ turn'.prompt = turn.prompt
        /\ turn'.pc = IF last = Len(turn.prompt) THEN "decode" ELSE "prefill"
    BY <1>1, <1>4, <2>6 DEF TurnStates
  <2>8. Mirror'
    BY <1>1, <1>9, <2>1, <2>2, <2>3 DEF KvInv, Mirror
  <2>9. CASE last = Len(turn.prompt)
    <3>1. session'.tokens = turn'.prompt \o turn'.said
      <4>1. SubSeq(turn.prompt, 1, Len(turn.prompt)) = turn.prompt
        BY <1>2, SubSeqFull
      <4>2. turn.prompt \o <<>> = turn.prompt
        BY <1>2, ConcatEmptySeq
      <4> QED
        BY <1>7, <2>3, <2>7, <2>9, <4>1, <4>2
    <3>2. Progress'
      BY <2>2, <2>7, <2>9, <3>1 DEF Progress, At
    <3> QED
      BY <2>1, <2>2, <2>7, <2>8, <3>2 DEF KvInv, KvTypes
  <2>10. CASE last # Len(turn.prompt)
    <3>1. Progress'
      BY <1>3, <1>4, <1>7, <2>2, <2>3, <2>7, <2>10 DEF Progress, At
    <3> QED
      BY <2>1, <2>2, <2>7, <2>8, <3>1 DEF KvInv, KvTypes
  <2> QED
    BY <2>9, <2>10
<1> QED
  BY <1>10, <1>11

(* One token more: the answer grows at the end of the conversation, and so  *)
(* does the cache.                                                         *)
LEMMA OneMore ==
  ASSUME NEW p \in Seq(Tokens), NEW a \in Seq(Tokens), NEW t \in Tokens, NEW b \in Bindings
  PROVE  /\ Append(p \o a, t) = p \o Append(a, t)
         /\ Decoded(p \o a, b) \o Decoded(<<t>>, b) = Decoded(Append(p \o a, t), b)
<1> DEFINE u == <<t>>
           s == p \o a
<1>1. u \in Seq(Tokens) /\ s \in Seq(Tokens)
  BY ConcatProperties
<1>2. Append(s, t) = s \o u /\ Append(a, t) = a \o u
  BY <1>1, AppendIsConcat
<1> HIDE DEF u
<1>3. (p \o a) \o u = p \o (a \o u)
  BY <1>1, ConcatAssociative
<1>4. Append(s, t) = p \o Append(a, t)
  BY <1>2, <1>3
<1> HIDE DEF s
<1>5. Decoded(s, b) \o Decoded(u, b) = Decoded(s \o u, b)
  BY <1>1, DecodedConcat
<1>6. Decoded(s, b) \o Decoded(u, b) = Decoded(Append(s, t), b)
  BY <1>2, <1>5
<1> QED
  BY <1>4, <1>6 DEF s, u

LEMMA GenerateKeeps ==
  ASSUME KvAssumption, KvInv, NEW t \in Tokens, Generate(t) PROVE KvInv'
<1> DEFINE answer == Append(turn.said, t)
           grown == Append(session.tokens, t)
<1>1. /\ session \in Sessions /\ session # NoSession /\ turn \in TurnStates /\ turn.pc = "decode"
      /\ session.tokens = turn.prompt \o turn.said /\ turn.fresh
  BY DEF KvInv, KvTypes, Progress, Generate, At
<1>2. /\ session.tokens \in Seq(Tokens) /\ session.bound \in Bindings
      /\ turn.prompt \in Seq(Tokens) /\ turn.said \in Seq(Tokens)
  BY <1>1 DEF Sessions, TurnStates
<1>3. <<t>> \in Seq(Tokens) /\ grown \in Seq(Tokens) /\ answer \in Seq(Tokens)
  BY <1>2
<1>4. /\ grown = turn.prompt \o answer
      /\ Decoded(turn.prompt \o turn.said, session.bound) \o Decoded(<<t>>, session.bound)
           = Decoded(Append(turn.prompt \o turn.said, t), session.bound)
  <2> HIDE DEF answer, grown
  <2>1. /\ Append(turn.prompt \o turn.said, t) = turn.prompt \o Append(turn.said, t)
        /\ Decoded(turn.prompt \o turn.said, session.bound) \o Decoded(<<t>>, session.bound)
             = Decoded(Append(turn.prompt \o turn.said, t), session.bound)
    BY <1>2, OneMore
  <2> QED
    BY <1>1, <2>1, Zenon DEF answer, grown
<1>5. grown = turn.prompt \o answer
  BY <1>4
<1>6. Decoded(session.tokens, session.bound) \o Decoded(<<t>>, session.bound)
        = Decoded(grown, session.bound)
  BY <1>1, <1>4, Zenon DEF grown
<1> HIDE DEF answer, grown
<1>7. CASE EndSession /\ Return
  BY <1>7, DroppedSessionKeeps DEF Generate
<1>8. CASE ~(EndSession /\ Return)
  <2>1. /\ kv' = kv \o Decoded(<<t>>, session.bound)
        /\ session' = [session EXCEPT !.tokens = grown]
        /\ turn' = [turn EXCEPT !.said = answer]
        /\ UNCHANGED <<model, adapters, loads>>
    BY <1>8 DEF Generate, answer, grown
  <2>2. session' \in Sessions /\ session' # NoSession
    BY <1>1, <1>3, <2>1 DEF Sessions, KvAssumption
  <2>3. session'.tokens = grown /\ session'.bound = session.bound /\ session'.load = session.load
    BY <1>1, <2>1 DEF Sessions
  <2>4. /\ turn' \in TurnStates /\ turn'.pc = "decode" /\ turn'.said = answer
        /\ turn'.prompt = turn.prompt /\ turn'.fresh = turn.fresh
    BY <1>1, <1>3, <2>1 DEF TurnStates
  <2>5. Mirror'
    BY <1>1, <1>6, <2>1, <2>2, <2>3 DEF KvInv, Mirror
  <2>6. Progress'
    BY <1>1, <1>5, <2>2, <2>3, <2>4 DEF Progress, At
  <2> QED
    BY <2>1, <2>2, <2>4, <2>5, <2>6 DEF KvInv, KvTypes
<1> QED
  BY <1>7, <1>8

LEMMA NewContextKeeps == ASSUME KvAssumption, KvInv, NewContext PROVE KvInv'
<1>1. /\ turn \in TurnStates /\ model # NoModel /\ Len(turn.prompt) > 0 /\ turn.said = <<>>
      /\ model \in LoadedModels /\ turn.want \in Bindings
  BY DEF KvInv, KvTypes, Progress, NewContext, At, TurnStates
<1>2. CASE session' = NoSession /\ adapters' = adapters /\ Return
  BY <1>2, DroppedSessionKeeps DEF NewContext, EndSession
<1>3. CASE ~(session' = NoSession /\ adapters' = adapters /\ Return)
  <2>1. PICK bound \in {turn.want, Base}, initialised \in BOOLEAN :
          /\ adapters' = IF initialised /\ turn.want # Base
                         THEN adapters \cup {[adapter |-> turn.want, load |-> model.load]}
                         ELSE adapters
          /\ session' = [tokens |-> <<>>, nctx |-> model.nctx, key |-> turn.want,
                         bound |-> bound, load |-> model.load]
          /\ turn' = [turn EXCEPT !.pc = "trim", !.failure = (bound # turn.want)]
    BY <1>3 DEF NewContext
  <2>2. bound \in Bindings /\ kv' = <<>> /\ UNCHANGED <<model, loads>>
    BY <1>1, <2>1 DEF NewContext, Bindings
  <2>3. session' \in Sessions /\ session' # NoSession
    <3> DEFINE none == <<>>
    <3>1. none \in Seq(Tokens)
      OBVIOUS
    <3>2. model.nctx \in Contexts /\ model.load \in Nat
      BY <1>1 DEF LoadedModels
    <3> HIDE DEF none
    <3>3. session' = [tokens |-> none, nctx |-> model.nctx, key |-> turn.want,
                      bound |-> bound, load |-> model.load]
      BY <2>1 DEF none
    <3>4. session' \in Sessions
      BY <1>1, <2>2, <3>1, <3>2, <3>3 DEF Sessions
    <3> QED
      BY <3>4 DEF KvAssumption
  <2>4. Decoded(<<>>, bound) = <<>>
    BY DEF Decoded
  <2>5. \A a \in adapters' : a.load = model.load
    BY <2>1 DEF KvInv, Mirror
  <2>6. Mirror'
    BY <1>1, <2>1, <2>2, <2>3, <2>4, <2>5 DEF Mirror
  <2>7. turn' \in TurnStates /\ turn'.pc = "trim" /\ turn'.prompt = turn.prompt /\ turn'.said = <<>>
    BY <1>1, <2>1 DEF TurnStates
  <2>8. Progress'
    BY <1>1, <2>2, <2>3, <2>7 DEF Progress, At
  <2> QED
    BY <1>1, <2>2, <2>3, <2>6, <2>7, <2>8 DEF KvInv, KvTypes
<1> QED
  BY <1>2, <1>3

\* Every load, unload and step of a turn keeps the invariant.
LEMMA KvStep == KvAssumption /\ KvInv /\ [Next]_vars => KvInv'
<1> SUFFICES ASSUME KvAssumption, KvInv, [Next]_vars PROVE KvInv'
  OBVIOUS
<1>1. CASE UnloadModel
  BY <1>1 DEF UnloadModel, EndSession, At, KvInv, KvTypes, Mirror, Progress
<1>2. CASE LoadModel
  <2>1. model' = NoModel \/ model' \in LoadedModels
    BY <1>2 DEF LoadModel, LoadedModels, KvInv, KvTypes
  <2>2. session' = NoSession /\ kv' = <<>> /\ adapters' = {} /\ turn' = turn /\ loads' \in Nat
    BY <1>2 DEF LoadModel, EndSession, KvInv, KvTypes, Mirror
  <2> QED
    BY <1>2, <2>1, <2>2 DEF LoadModel, At, KvInv, KvTypes, Mirror, Progress
<1>3. ASSUME NEW p \in Prompts, NEW want \in Bindings, Begin(p, want) PROVE KvInv'
  <2>1. p \in Seq(Tokens)
    BY DEF Prompts, KvAssumption
  <2>2. turn' = [Quiet EXCEPT !.prompt = p, !.want = want,
                   !.pc = IF Len(p) = 0 \/ Len(p) >= model.nctx THEN "idle" ELSE "context"]
        /\ model # NoModel /\ UNCHANGED <<model, session, kv, adapters, loads>>
    BY <1>3 DEF Begin
  <2>3. /\ turn' \in TurnStates /\ turn'.prompt = p /\ turn'.said = <<>>
        /\ turn'.pc = IF Len(p) = 0 \/ Len(p) >= model.nctx THEN "idle" ELSE "context"
    BY <2>1, <2>2, EmptySeq DEF Quiet, TurnStates
  <2>4. turn'.pc \in {"idle", "context"} /\ (turn'.pc = "context" => Len(p) > 0)
    BY <2>1, <2>3, LenProperties
  <2> QED
    BY <2>2, <2>3, <2>4 DEF At, KvInv, KvTypes, Mirror, Progress
<1>4. CASE ReuseContext
  <2>1. turn' \in TurnStates /\ turn'.pc = "trim" /\ turn'.prompt = turn.prompt /\ turn'.said = turn.said
    BY <1>4 DEF ReuseContext, KvInv, KvTypes, TurnStates
  <2> QED
    BY <1>4, <2>1 DEF ReuseContext, Reusable, At, KvInv, KvTypes, Mirror, Progress
<1>5. CASE NewContext
  BY <1>5, NewContextKeeps
<1>6. CASE Trim
  BY <1>6, TrimKeeps
<1>7. CASE Prefill
  BY <1>7, PrefillKeeps
<1>8. CASE Finish
  <2>1. turn' \in TurnStates /\ turn'.pc = "idle"
    BY <1>8 DEF Finish, Return, KvInv, KvTypes, TurnStates
  <2> QED
    BY <1>8, <2>1 DEF Finish, At, KvInv, KvTypes, Mirror, Progress
<1>9. ASSUME NEW t \in Tokens, Generate(t) PROVE KvInv'
  BY <1>9, GenerateKeeps
<1>10. CASE UNCHANGED vars
  BY <1>10 DEF vars, At, KvInv, KvTypes, Mirror, Progress
<1> QED
  BY <1>1, <1>2, <1>3, <1>4, <1>5, <1>6, <1>7, <1>8, <1>9, <1>10 DEF Next

\* Between turns and within them the list is what the context holds, under the adapter in
\* force and of the model in memory, and every token is sampled from exactly the turn's
\* own prompt and what it has said, whatever was reused (CacheMirrorsConversation).
THEOREM ReuseIsInvisible == KvAssumption => (Spec => []CacheMirrorsConversation)
<1> SUFFICES ASSUME KvAssumption PROVE Spec => []CacheMirrorsConversation
  OBVIOUS
<1>1. Init => KvInv
  BY KvStart
<1>2. KvInv /\ [Next]_vars => KvInv'
  BY KvStep
<1>3. KvInv => CacheMirrorsConversation
  BY DEF KvInv, Mirror, Progress, CacheMirrorsConversation, At
<1> QED
  BY <1>1, <1>2, <1>3, PTL DEF Spec

\* A prompt that goes on from what the context holds keeps all of it.
LEMMA ContinuationKeepsAll ==
  ASSUME session \in Sessions, turn \in TurnStates, IsContinuation
  PROVE  Kept = Len(session.tokens)
<1> DEFINE c == session.tokens
           p == turn.prompt
           n == ReusablePrefix(c, p)
<1>1. c \in Seq(Tokens) /\ p \in Seq(Tokens)
  BY DEF Sessions, TurnStates
<1>2. Len(c) \in Nat /\ Len(p) \in Nat /\ Len(c) < Len(p) /\ Agree(c, p, Len(c))
  BY <1>1, LenProperties DEF IsContinuation
<1> HIDE DEF c, p
<1>3. /\ n \in 0..Len(c)
      /\ \A m \in 0..Min2(Len(c), Len(p) - 1) : Agree(c, p, m) => m <= n
  <2>1. Len(p) > 0
    BY <1>2
  <2> QED
    BY <1>1, <2>1, ReuseIsLongest
<1>4. Len(c) \in 0..Min2(Len(c), Len(p) - 1)
  BY <1>2 DEF Min2
<1> HIDE DEF n
<1>5. n = Len(c)
  BY <1>2, <1>3, <1>4
<1> QED
  BY <1>2, <1>5 DEF Kept, Reuse, c, p, n

\* A conversation continued decodes only what is new: when the prompt begins with all that
\* the context holds, nothing of it is trimmed, on a recurrent memory too, and the prompt is
\* decoded from where the cache ends (ContinuationIsFree).
THEOREM ContinuationsAreFree == KvAssumption => (Spec => ContinuationIsFree)
<1> DEFINE Free == At("trim") /\ IsContinuation => turn'.base = Len(session.tokens)
<1> SUFFICES ASSUME KvAssumption PROVE Spec => ContinuationIsFree
  OBVIOUS
<1>1. Init => KvInv
  BY KvStart
<1>2. KvInv /\ [Next]_vars => KvInv'
  BY KvStep
<1>3. KvInv /\ [Next]_vars => [Free]_vars
  <2> SUFFICES ASSUME KvInv, Next, At("trim"), IsContinuation
               PROVE  turn'.base = Len(session.tokens)
    OBVIOUS
  <2>1. session \in Sessions /\ turn \in TurnStates
    BY DEF KvInv, KvTypes, Progress
  <2>2. Trim
    BY DEF Next, At, UnloadModel, LoadModel, Begin, ReuseContext, NewContext, Prefill, Finish,
           Generate
  <2>3. turn'.base = Kept
    BY <2>1, <2>2 DEF Trim, TurnStates
  <2> QED
    BY <2>1, <2>3, ContinuationKeepsAll
<1> QED
  BY <1>1, <1>2, <1>3, PTL DEF Spec, ContinuationIsFree

-----------------------------------------------------------------------------
(* The conversion of an adapter.                                              *)

LEMMA AlignUpIs ==
  ASSUME NEW n \in Nat
  PROVE  Convert!AlignUp(n) \in Nat /\ Convert!AlignUp(n) >= n /\ Convert!AlignUp(n) % 32 = 0
  BY DEF Convert!AlignUp

LEMMA OffsetsAre ==
  ASSUME NEW lengths \in Seq(Nat)
  PROVE  LET at == Convert!Offsets(lengths) IN
         /\ at \in [1..Len(lengths) -> Nat]
         /\ \A i \in 1..Len(lengths) :
              at[i] = IF i = 1 THEN 0 ELSE Convert!AlignUp(at[i - 1] + lengths[i - 1])
<1> DEFINE N == Len(lengths)
           Next1(f, i) == IF i = 1 THEN 0 ELSE Convert!AlignUp(f[i - 1] + lengths[i - 1])
           Good(f, k) == f \in [1..k -> Nat] /\ \A i \in 1..k : f[i] = Next1(f, i)
           bad == {k \in 0..N : ~ \E f : Good(f, k)}
<1>0. N \in Nat /\ \A i \in 1..N : lengths[i] \in Nat
  OBVIOUS
<1>1. bad = {}
  <2> SUFFICES ASSUME bad # {} PROVE FALSE
    OBVIOUS
  <2>0. bad \subseteq 0..N /\ bad \subseteq Nat
    BY <1>0
  <2>a. \A k \in 0..N : k \notin bad => \E f : Good(f, k)
    BY Zenon
  <2>b. \A k \in bad : ~ \E f : Good(f, k)
    BY Zenon
  <2> HIDE DEF bad
  <2>1. PICK k \in bad : \A j \in bad : k <= j
    BY <2>0, LeastNatural
  <2>2. k # 0
    <3>1. Good([i \in 1..0 |-> 0], 0)
      OBVIOUS
    <3> HIDE DEF Good
    <3> QED BY <3>1, <2>1, <2>b
  <2>3. k \in 1..N /\ k - 1 \in 0..N
    BY <1>0, <2>0, <2>1, <2>2
  <2>c. k - 1 \notin bad
    BY <2>1, <2>3
  <2>4. PICK f : Good(f, k - 1)
    BY <2>3, <2>a, <2>c
  <2> DEFINE g == [i \in 1..k |-> IF i < k THEN f[i] ELSE Next1(f, k)]
  <2>5. \A i \in 1..k : g[i] \in Nat /\ g[i] = Next1(g, i)
    <3> SUFFICES ASSUME NEW i \in 1..k PROVE g[i] \in Nat /\ g[i] = Next1(g, i)
      OBVIOUS
    <3>1. CASE i < k
      <4>1. i \in 1..(k - 1) /\ g[i] = f[i] /\ (i # 1 => g[i - 1] = f[i - 1])
        BY <3>1, <2>3
      <4> QED BY <4>1, <2>4
    <3>2. CASE i = k
      <4>1. g[i] = Next1(f, k) /\ (k # 1 => k - 1 \in 1..(k - 1) /\ g[k - 1] = f[k - 1])
        BY <3>2, <2>3
      <4>2. k # 1 => f[k - 1] + lengths[k - 1] \in Nat
        BY <4>1, <2>3, <2>4, <1>0
      <4>3. Next1(f, k) \in Nat
        BY <4>2, AlignUpIs
      <4> QED BY <3>2, <4>1, <4>3
    <3> QED BY <3>1, <3>2, <2>3
  <2>6. Good(g, k)
    BY <2>5
  <2> HIDE DEF Good, g
  <2> QED BY <2>6, <2>1, <2>b
<1>2. PICK f : Good(f, N)
  <2>1. N \in 0..N
    BY <1>0
  <2> QED BY <1>1, <2>1, Zenon
<1>3. f = [i \in 1..N |-> Next1(f, i)]
  BY <1>2
<1>4. Convert!Offsets(lengths) = [i \in 1..N |-> Next1(Convert!Offsets(lengths), i)]
  BY <1>3 DEF Convert!Offsets
<1>5. PICK at : at = Convert!Offsets(lengths)
  OBVIOUS
<1>6. at = [i \in 1..N |-> Next1(at, i)]
  BY <1>4, <1>5
<1> DEFINE wrong == {i \in 1..N : at[i] \notin Nat}
<1>7. wrong = {}
  <2> SUFFICES ASSUME wrong # {} PROVE FALSE
    OBVIOUS
  <2>0. wrong \subseteq Nat
    BY <1>0
  <2> HIDE DEF wrong
  <2>1. PICK k \in wrong : \A j \in wrong : k <= j
    BY <2>0, LeastNatural
  <2> USE DEF wrong
  <2>2. CASE k = 1
    BY <1>6, <2>1, <2>2
  <2>3. CASE k # 1
    <3>1. k - 1 \in 1..N /\ at[k - 1] \in Nat
      BY <1>0, <2>1, <2>3
    <3>2. at[k - 1] + lengths[k - 1] \in Nat
      BY <1>0, <3>1
    <3>3. at[k] = Convert!AlignUp(at[k - 1] + lengths[k - 1])
      BY <1>6, <2>1, <2>3
    <3> QED BY <2>1, <3>2, <3>3, AlignUpIs
  <2> QED BY <2>2, <2>3
<1>8. at \in [1..N -> Nat]
  BY <1>6, <1>7
<1> QED BY <1>5, <1>6, <1>8

\* FiniteSets means the same in every part.
LEMMA SameFiniteSets ==
  ASSUME NEW S
  PROVE  (Convert!IsFiniteSet(S) <=> IsFiniteSet(S)) /\ Convert!Cardinality(S) = Cardinality(S)
<1>1. Convert!IsFiniteSet(S) <=> IsFiniteSet(S)
  BY DEF Convert!IsFiniteSet, IsFiniteSet
<1>2. Convert!Cardinality(S) = Cardinality(S)
  BY DEF Convert!Cardinality, Cardinality
<1> QED BY <1>1, <1>2

\* A factor of the page has a name of its own in the converted file.
LEMMA NamesAreDistinct ==
  ASSUME NEW t, NEW u, Convert!Mapped(t), Convert!Mapped(u),
         Convert!GgufName(t) = Convert!GgufName(u)
  PROVE  t.module = u.module /\ t.layer = u.layer /\ t.factor = u.factor
<1>1. t.layer = u.layer /\ t.factor = u.factor
  BY DEF Convert!GgufName
<1>2. CASE t.layer = ""
  <2>1. t.module \in {"embed_tokens", "lm_head"} /\ u.module \in {"embed_tokens", "lm_head"}
    BY <1>1, <1>2 DEF Convert!Mapped, Convert!Standalone
  <2>2. Convert!Standalone[t.module] = Convert!Standalone[u.module]
    BY <1>1, <1>2 DEF Convert!GgufName
  <2>3. Convert!Standalone["embed_tokens"] # Convert!Standalone["lm_head"]
    BY DEF Convert!Standalone
  <2> QED BY <1>1, <2>1, <2>2, <2>3
<1>3. CASE t.layer # ""
  <2> DEFINE modules == {"q_proj", "k_proj", "v_proj", "o_proj", "gate_proj", "up_proj", "down_proj"}
  <2>1. t.module \in modules /\ u.module \in modules
    BY <1>1, <1>3 DEF Convert!Mapped, Convert!Layered
  <2>2. Convert!Layered[t.module] = Convert!Layered[u.module]
    BY <1>1, <1>3 DEF Convert!GgufName
  <2>3. \A m, n \in modules : Convert!Layered[m] = Convert!Layered[n] => m = n
    BY DEF Convert!Layered
  <2> QED BY <1>1, <2>1, <2>2, <2>3
<1> QED BY <1>2, <1>3

\* A page that translates loses none of its factors.
LEMMA NothingIsLost ==
  ASSUME Convert!PagesAssumption, NEW r \in Repositories, NEW arch, Convert!Translates(r, arch)
  PROVE  /\ Cardinality(Convert!Translation(r)) = Cardinality(Convert!Factors(r.tensors))
         /\ Convert!Translation(r) # {}
<1> DEFINE factors == Convert!Factors(r.tensors)
           name == [t \in factors |-> Convert!GgufName(t)]
<1>1. /\ IsFiniteSet(r.tensors) /\ factors \subseteq r.tensors /\ factors # {}
      /\ \A t \in factors : Convert!Mapped(t)
  BY SameFiniteSets DEF Convert!PagesAssumption, Convert!Translates, Convert!Factors
<1>2. Convert!Translation(r) = {name[t] : t \in factors}
  BY <1>1 DEF Convert!Translation
<1>3. IsFiniteSet(factors)
  BY <1>1, FS_Subset
<1>4. \A t, u \in factors : name[t] = name[u] => t = u
  BY <1>1, NamesAreDistinct DEF Convert!PagesAssumption
<1>5. name \in Bijection(factors, Convert!Translation(r))
  <2>1. name \in [factors -> Convert!Translation(r)]
    BY <1>2
  <2>2. \A n \in Convert!Translation(r) : \E t \in factors : name[t] = n
    BY <1>2
  <2> HIDE DEF name, factors
  <2> QED BY <2>1, <2>2, <1>4, Fun_IsBij
<1>6. Cardinality(factors) = Cardinality(Convert!Translation(r))
  BY <1>3, <1>5, FS_Bijection DEF ExistsBijection
<1> QED BY <1>1, <1>2, <1>6

\* Widths are lengths in bytes, so the layout of any order of a page's tensors is
\* aligned and in sequence.
LEMMA LayoutIsSequential ==
  ASSUME Convert!PagesAssumption, NEW r \in Repositories,
         NEW order \in [1..Cardinality(r.tensors) -> r.tensors]
  PROVE  LET lengths == [i \in DOMAIN order |-> Convert!Width(order[i])]
         IN \A i \in DOMAIN order :
              /\ Convert!Offsets(lengths)[i] % 32 = 0
              /\ i > 1 => Convert!Offsets(lengths)[i] >= Convert!Offsets(lengths)[i - 1] + lengths[i - 1]
<1> DEFINE lengths == [i \in DOMAIN order |-> Convert!Width(order[i])]
<1>1. PICK n \in Nat : n = Cardinality(r.tensors)
  BY SameFiniteSets, FS_CardinalityType DEF Convert!PagesAssumption
<1>2. DOMAIN order = 1..n /\ \A i \in 1..n : order[i] \in r.tensors
  BY <1>1
<1>3. \A i \in 1..n : Convert!Width(order[i]) \in Nat
  BY <1>2 DEF Convert!Width, Convert!PagesAssumption
<1>4. lengths \in Seq(Nat) /\ Len(lengths) = n /\ \A i \in 1..n : lengths[i] \in Nat
  BY <1>2, <1>3
<1> HIDE DEF lengths
<1>5. PICK at : at = Convert!Offsets(lengths)
  OBVIOUS
<1>6. /\ at \in [1..n -> Nat]
      /\ \A i \in 1..n : at[i] = IF i = 1 THEN 0 ELSE Convert!AlignUp(at[i - 1] + lengths[i - 1])
  BY <1>4, <1>5, OffsetsAre
<1>7. ASSUME NEW i \in 1..n
      PROVE  at[i] % 32 = 0 /\ (i > 1 => at[i] >= at[i - 1] + lengths[i - 1])
  <2>1. CASE i = 1
    <3>1. at[i] = 0
      BY <1>6, <2>1
    <3> QED BY <2>1, <3>1
  <2>2. CASE i > 1
    <3>1. i - 1 \in 1..n /\ at[i - 1] + lengths[i - 1] \in Nat
      BY <1>4, <1>6, <2>2
    <3>2. at[i] = Convert!AlignUp(at[i - 1] + lengths[i - 1])
      BY <1>6, <2>2
    <3> QED BY <2>2, <3>1, <3>2, AlignUpIs
  <2> QED BY <1>1, <2>1, <2>2
<1> QED BY <1>2, <1>5, <1>7 DEF lengths

\* The parts of the inductive invariant: the page decides which steps an install takes;
\* a file made here names all of the page's factors; what is about to take the adapter's
\* name was finished.
Page ==
  /\ repo \in Repositories
  /\ DOMAIN pc = Installers
  /\ \A i \in Installers :
       /\ pc[i] \in {"fetch_gguf", "write_gguf"} => repo.ready
       /\ pc[i] \in {"write_temp", "replace", "rename"} => Convert!Translates(repo, base)
Made ==
  /\ DOMAIN folder = {"weights", "config", "temp", "gguf", "converted"}
  /\ ~repo.ready => folder.gguf # "torn"
  /\ folder.converted # {} =>
       folder.converted = Convert!Translation(repo) /\ Convert!Translates(repo, base)
Finished == \A i \in Installers : pc[i] \in {"replace", "rename"} => folder.temp # "torn"
InstallInv == Page /\ Made /\ Finished

LEMMA InstallStart == Convert!InstallInit => InstallInv
  BY DEF Convert!InstallInit, Convert!Empty, InstallInv, Page, Made, Finished

\* An install that only moves on, to a step the page allows it.
LEMMA MovesOn ==
  ASSUME InstallInv, NEW i \in Installers, NEW step, Convert!Go(i, step),
         UNCHANGED <<repo, base, folder>>,
         step \in {"fetch_gguf", "write_gguf"} => repo.ready,
         step \notin {"write_temp", "replace", "rename"}
  PROVE  InstallInv'
<1>1. /\ DOMAIN pc' = Installers
      /\ \A j \in Installers : pc'[j] = IF j = i THEN step ELSE pc[j]
  BY DEF Convert!Go, InstallInv, Page
<1>2. Page'
  BY <1>1 DEF InstallInv, Page, Convert!Translates, Convert!Convertible
<1>3. Made'
  BY DEF InstallInv, Made, Convert!Translation, Convert!Translates
<1>4. Finished'
  BY <1>1 DEF InstallInv, Finished
<1> QED
  BY <1>2, <1>3, <1>4 DEF InstallInv

\* A failed install leaves an empty folder.
LEMMA FailureKeeps ==
  ASSUME InstallInv, NEW i \in Installers, Convert!Fail(i), UNCHANGED <<repo, base>>
  PROVE  InstallInv'
<1>1. /\ DOMAIN pc' = Installers
      /\ \A j \in Installers : pc'[j] = IF j = i THEN "failed" ELSE pc[j]
  BY DEF Convert!Fail, Convert!Go, InstallInv, Page
<1>2. /\ DOMAIN folder' = {"weights", "config", "temp", "gguf", "converted"}
      /\ folder'.gguf = "none" /\ folder'.temp = "none" /\ folder'.converted = {}
  BY DEF Convert!Fail, Convert!Empty
<1> QED
  BY <1>1, <1>2 DEF InstallInv, Page, Made, Finished

\* A step that writes into the folder, and that nobody else's rename is waiting for.
LEMMA WriteKeeps ==
  ASSUME InstallInv, NEW i \in Installers, NEW step, Convert!Go(i, step), UNCHANGED <<repo, base>>,
         step \in {"fetch_gguf", "write_gguf"} => repo.ready,
         step \in {"write_temp", "replace", "rename"} => Convert!Translates(repo, base),
         Made', Finished'
  PROVE  InstallInv'
<1>1. /\ DOMAIN pc' = Installers
      /\ \A j \in Installers : pc'[j] = IF j = i THEN step ELSE pc[j]
  BY DEF Convert!Go, InstallInv, Page
<1> QED
  BY <1>1 DEF InstallInv, Page

LEMMA InstallStep ==
  InstallInv /\ Convert!OneInstall /\ Convert!OneInstall' /\ [Convert!InstallNext]_(Convert!installVars)
    => InstallInv'
<1> SUFFICES ASSUME InstallInv, Convert!OneInstall, Convert!OneInstall',
                    [Convert!InstallNext]_(Convert!installVars)
             PROVE  InstallInv'
  OBVIOUS
<1> USE DEF Convert!Go
<1>1. ASSUME NEW i \in Installers, Convert!Begin(i) PROVE InstallInv'
  <2>1. PICK step \in {"fetch_gguf", "fetch_weights", "failed"} :
          Convert!Go(i, step) /\ (step = "fetch_gguf" => repo.ready)
    BY <1>1 DEF Convert!Begin
  <2> QED
    BY <1>1, <2>1, MovesOn DEF Convert!Begin
<1>2. ASSUME NEW i \in Installers, Convert!Interrupted(i) PROVE InstallInv'
  BY <1>2, FailureKeeps DEF Convert!Interrupted
<1>3. ASSUME NEW i \in Installers, Convert!FetchedGguf(i) PROVE InstallInv'
  <2>1. repo.ready /\ folder' = [folder EXCEPT !.gguf = "torn", !.converted = {}]
    BY <1>3 DEF Convert!FetchedGguf, InstallInv, Page
  <2>2. Made'
    BY <1>3, <2>1 DEF InstallInv, Made, Convert!FetchedGguf
  <2>3. Finished'
    BY <1>3, <2>1 DEF InstallInv, Page, Made, Finished, Convert!FetchedGguf
  <2> QED
    BY <1>3, <2>1, <2>2, <2>3, WriteKeeps DEF Convert!FetchedGguf
<1>4. ASSUME NEW i \in Installers, Convert!WroteGguf(i) PROVE InstallInv'
  <2>1. folder' = [folder EXCEPT !.gguf = "whole"]
    BY <1>4 DEF Convert!WroteGguf
  <2>2. Made'
    BY <1>4, <2>1 DEF InstallInv, Made, Convert!WroteGguf
  <2>3. Finished'
    BY <1>4, <2>1 DEF InstallInv, Page, Made, Finished, Convert!WroteGguf
  <2> QED
    BY <1>4, <2>1, <2>2, <2>3, WriteKeeps DEF Convert!WroteGguf
<1>5. ASSUME NEW i \in Installers, Convert!FetchedWeights(i) PROVE InstallInv'
  <2>1. CASE repo.config
    <3>1. folder' = [folder EXCEPT !.weights = "whole"]
      BY <1>5, <2>1 DEF Convert!FetchedWeights
    <3>2. Made'
      BY <1>5, <3>1 DEF InstallInv, Made, Convert!FetchedWeights
    <3>3. Finished'
      BY <1>5, <2>1, <3>1 DEF InstallInv, Page, Made, Finished, Convert!FetchedWeights
    <3> QED
      BY <1>5, <2>1, <3>2, <3>3, WriteKeeps DEF Convert!FetchedWeights
  <2>2. CASE ~repo.config
    BY <1>5, <2>2, FailureKeeps DEF Convert!FetchedWeights
  <2> QED
    BY <2>1, <2>2
<1>6. ASSUME NEW i \in Installers, Convert!FetchedConfig(i) PROVE InstallInv'
  <2>1. CASE base # "none"
    <3>1. folder' = [folder EXCEPT !.config = "whole"]
      BY <1>6, <2>1 DEF Convert!FetchedConfig
    <3>2. Made'
      BY <1>6, <3>1 DEF InstallInv, Made, Convert!FetchedConfig
    <3>3. Finished'
      BY <1>6, <2>1, <3>1 DEF InstallInv, Page, Made, Finished, Convert!FetchedConfig
    <3> QED
      BY <1>6, <2>1, <3>2, <3>3, WriteKeeps DEF Convert!FetchedConfig
  <2>2. CASE base = "none"
    BY <1>6, <2>2, FailureKeeps DEF Convert!FetchedConfig
  <2> QED
    BY <2>1, <2>2
<1>7. ASSUME NEW i \in Installers, Convert!Convert(i) PROVE InstallInv'
  <2>1. CASE /\ folder' = [folder EXCEPT !.temp = "torn"] /\ Convert!Go(i, "write_temp")
             /\ Convert!Translates(repo, base)
    <3>1. pc[i] = "convert"
      BY <1>7 DEF Convert!Convert
    <3>2. Made'
      BY <1>7, <2>1 DEF InstallInv, Made, Convert!Convert
    <3>3. \A j \in Installers : j # i => pc[j] \in {"idle", "done", "failed"}
      BY <3>1 DEF Convert!OneInstall, Convert!AtRest
    <3>4. Finished'
      BY <2>1, <3>3 DEF InstallInv, Page, Finished
    <3> QED
      BY <1>7, <2>1, <3>2, <3>4, WriteKeeps DEF Convert!Convert
  <2>2. CASE Convert!Fail(i)
    BY <1>7, <2>2, FailureKeeps DEF Convert!Convert
  <2> QED
    BY <1>7, <2>1, <2>2 DEF Convert!Convert
<1>8. ASSUME NEW i \in Installers, Convert!WroteTemp(i) PROVE InstallInv'
  <2>1. /\ pc[i] = "write_temp" /\ Convert!Translates(repo, base)
        /\ UNCHANGED <<repo, base>> /\ Convert!Go(i, "replace")
    BY <1>8 DEF Convert!WroteTemp, InstallInv, Page
  <2>2. CASE /\ folder.temp = "none"
             /\ folder' = [folder EXCEPT !.gguf = IF @ = "torn" THEN "whole" ELSE @]
    <3>1. /\ DOMAIN folder' = DOMAIN folder /\ folder'.temp = "none"
          /\ folder'.converted = folder.converted /\ folder'.gguf # "torn"
      BY <2>2 DEF InstallInv, Made
    <3> QED
      BY <2>1, <3>1, WriteKeeps DEF InstallInv, Made, Finished
  <2>3. CASE folder' = [folder EXCEPT !.temp = "whole"]
    <3>1. /\ DOMAIN folder' = DOMAIN folder /\ folder'.temp = "whole"
          /\ folder'.converted = folder.converted /\ folder'.gguf = folder.gguf
      BY <2>3 DEF InstallInv, Made
    <3> QED
      BY <2>1, <3>1, WriteKeeps DEF InstallInv, Made, Finished
  <2> QED
    BY <1>8, <2>2, <2>3 DEF Convert!WroteTemp
<1>9. ASSUME NEW i \in Installers, Convert!Replace(i) PROVE InstallInv'
  <2>1. /\ pc[i] = "replace" /\ Convert!Translates(repo, base) /\ folder.temp # "torn"
        /\ UNCHANGED <<repo, base>> /\ Convert!Go(i, "rename")
        /\ folder' = [folder EXCEPT !.gguf = "none", !.converted = {}]
    BY <1>9 DEF Convert!Replace, InstallInv, Page, Finished
  <2>2. /\ DOMAIN folder' = DOMAIN folder /\ folder'.temp = folder.temp
        /\ folder'.converted = {} /\ folder'.gguf = "none"
    BY <2>1 DEF InstallInv, Made
  <2> QED
    BY <2>1, <2>2, WriteKeeps DEF InstallInv, Made, Finished
<1>10. ASSUME NEW i \in Installers, Convert!Rename(i) PROVE InstallInv'
  <2>1. CASE Convert!Fail(i)
    BY <1>10, <2>1, FailureKeeps DEF Convert!Rename
  <2>2. CASE folder.temp # "none"
    <3>1. /\ pc[i] = "rename" /\ Convert!Translates(repo, base) /\ folder.temp # "torn"
          /\ UNCHANGED <<repo, base>> /\ Convert!Go(i, "verify")
          /\ folder' = [folder EXCEPT !.gguf = folder.temp, !.temp = "none", !.weights = "none",
                                      !.converted = Convert!Translation(repo)]
      BY <1>10, <2>2 DEF Convert!Rename, InstallInv, Page, Finished
    <3>2. /\ DOMAIN folder' = DOMAIN folder /\ folder'.temp = "none"
          /\ folder'.converted = Convert!Translation(repo) /\ folder'.gguf = folder.temp
      BY <3>1 DEF InstallInv, Made
    <3> QED
      BY <3>1, <3>2, WriteKeeps DEF InstallInv, Made, Finished
  <2> QED
    BY <1>10, <2>1, <2>2 DEF Convert!Rename
<1>11. ASSUME NEW i \in Installers, Convert!Verify(i) PROVE InstallInv'
  BY <1>11, FailureKeeps, MovesOn DEF Convert!Verify
<1>12. ASSUME NEW i \in Installers, Convert!Register(i) PROVE InstallInv'
  BY <1>12, MovesOn DEF Convert!Register
<1>13. ASSUME NEW i \in Installers, Convert!Again(i) PROVE InstallInv'
  BY <1>13, MovesOn DEF Convert!Again
<1>14. CASE Convert!Kill
  BY <1>14 DEF Convert!Kill, InstallInv, Page, Made, Finished
<1>15. CASE Convert!Revalidate \/ UNCHANGED Convert!installVars
  BY <1>15 DEF Convert!Revalidate, Convert!installVars, InstallInv, Page, Made, Finished
<1>16. ASSUME NEW i \in Installers, Convert!WriteFails(i) PROVE InstallInv'
  <2>1. /\ DOMAIN folder' = DOMAIN folder /\ folder'.temp = folder.temp
        /\ folder'.converted = folder.converted /\ folder'.gguf = folder.gguf
    BY <1>16 DEF Convert!WriteFails, InstallInv, Made
  <2>2. Convert!Go(i, "failed") /\ UNCHANGED <<repo, base>>
    BY <1>16 DEF Convert!WriteFails
  <2>3. Made'
    BY <2>1, <2>2 DEF InstallInv, Made, Convert!Translation, Convert!Translates
  <2>4. Finished'
    BY <2>1, <2>2 DEF InstallInv, Page, Finished
  <2> QED
    BY <2>2, <2>3, <2>4, WriteKeeps
<1> QED
  BY <1>1, <1>2, <1>3, <1>4, <1>5, <1>6, <1>7, <1>8, <1>9, <1>10, <1>11, <1>12, <1>13, <1>14, <1>15,
     <1>16
  DEF Convert!InstallNext

\* write_atomically: whatever is killed and whenever, no half-written file has the name
\* that counts, a converted file holds each factor of the page's weights under a name of
\* its own, and each tensor starts where the header says.
THEOREM ConversionIsWhole ==
  Convert!PagesAssumption =>
    (Convert!InstallSpec /\ []Convert!OneInstall => []ConvertedIsWhole)
<1> SUFFICES ASSUME Convert!PagesAssumption
             PROVE  Convert!InstallSpec /\ []Convert!OneInstall => []ConvertedIsWhole
  OBVIOUS
<1>1. Convert!InstallInit => InstallInv
  BY InstallStart
<1>2. InstallInv /\ Convert!OneInstall /\ Convert!OneInstall' /\ [Convert!InstallNext]_(Convert!installVars)
        => InstallInv'
  BY InstallStep
<1>3. InstallInv => ConvertedIsWhole
  <2> SUFFICES ASSUME InstallInv PROVE ConvertedIsWhole
    OBVIOUS
  <2>1. PICK r \in Repositories : r = repo
    BY DEF InstallInv, Page
  <2>2. folder.converted # {} =>
          Convert!Cardinality(folder.converted) = Convert!Cardinality(Convert!Factors(repo.tensors))
    BY <2>1, NothingIsLost, SameFiniteSets DEF InstallInv, Made
  <2>3. \A order \in [1..Convert!Cardinality(repo.tensors) -> repo.tensors] :
          LET lengths == [i \in DOMAIN order |-> Convert!Width(order[i])]
          IN \A i \in DOMAIN order :
               /\ Convert!Offsets(lengths)[i] % 32 = 0
               /\ i > 1 => Convert!Offsets(lengths)[i] >= Convert!Offsets(lengths)[i - 1] + lengths[i - 1]
    BY <2>1, LayoutIsSequential, SameFiniteSets
  <2> QED
    BY <2>2, <2>3 DEF ConvertedIsWhole, Convert!ConvertedIsWhole, InstallInv, Made
<1> QED
  BY <1>1, <1>2, <1>3, PTL DEF Convert!InstallSpec

-----------------------------------------------------------------------------
(* The hysteresis of the capability layer.                                    *)

\* The turns counted against the active capability are those that gave it no support.
CountInv == unsupported \in 0..MaxUnsupported /\ lapsed = unsupported

LEMMA OneMoreIs ==
  ASSUME Tracker!ThresholdAssumption, NEW n \in 0..MaxUnsupported
  PROVE  /\ Tracker!OneMore(n) \in 0..MaxUnsupported
         /\ Tracker!OneMore(n) = IF n < MaxUnsupported THEN n + 1 ELSE MaxUnsupported
<1>1. CASE n < MaxUnsupported
  <2>1. \A x \in {n + 1, MaxUnsupported} : (\A y \in {n + 1, MaxUnsupported} : x <= y) <=> x = n + 1
    BY <1>1 DEF Tracker!ThresholdAssumption
  <2>2. Tracker!OneMore(n) = n + 1
    BY <1>1, <2>1 DEF Tracker!OneMore, Tracker!Min, Tracker!ThresholdAssumption
  <2> QED
    BY <1>1, <2>2 DEF Tracker!ThresholdAssumption
<1>2. CASE n = MaxUnsupported
  <2>1. \A x \in {n + 1, MaxUnsupported} :
          (\A y \in {n + 1, MaxUnsupported} : x <= y) <=> x = MaxUnsupported
    BY <1>2 DEF Tracker!ThresholdAssumption
  <2>2. Tracker!OneMore(n) = MaxUnsupported
    BY <1>2, <2>1 DEF Tracker!OneMore, Tracker!Min, Tracker!ThresholdAssumption
  <2> QED
    BY <1>2, <2>2 DEF Tracker!ThresholdAssumption
<1> QED
  BY <1>1, <1>2 DEF Tracker!ThresholdAssumption

LEMMA CountStep ==
  ASSUME Tracker!ThresholdAssumption
  PROVE  CountInv /\ [Tracker!CapNext]_(Tracker!capVars) => CountInv'
<1> SUFFICES ASSUME CountInv, [Tracker!CapNext]_(Tracker!capVars) PROVE CountInv'
  OBVIOUS
<1>1. CASE Tracker!DecideTurn
  <2> DEFINE count == IF Tracker!Unsupported(question.verdict) THEN Tracker!OneMore(unsupported) ELSE 0
  <2>1. count \in 0..MaxUnsupported /\ 0 \in 0..MaxUnsupported
    BY OneMoreIs DEF CountInv, Tracker!ThresholdAssumption
  <2>2. CASE Tracker!Pins(question.manual)
    BY <1>1, <2>1, <2>2 DEF CountInv, Tracker!DecideTurn, Tracker!Decide, Tracker!Commit
  <2>3. CASE ~Tracker!Pins(question.manual)
    BY <1>1, <2>1, <2>3 DEF CountInv, Tracker!DecideTurn, Tracker!Decide, Tracker!Commit
  <2> QED
    BY <2>2, <2>3
<1>2. CASE \E package \in BOOLEAN : Tracker!ResetTracker(package)
  BY <1>2 DEF CountInv, Tracker!ResetTracker, Tracker!ThresholdAssumption
<1>3. CASE UNCHANGED <<unsupported, lapsed>>
  BY <1>3 DEF CountInv
<1> QED
  BY <1>1, <1>2, <1>3 DEF Tracker!CapNext, Tracker!capVars, Tracker!Classify, Tracker!Generate,
                          Tracker!NextTurn, Tracker!ChangeAdapters

LEMMA ChangeStep ==
  ASSUME Tracker!ThresholdAssumption, CountInv, Tracker!DecideTurn, active' # active,
         ~Tracker!Pins(question.manual)
  PROVE  IF active' = Tracker!General
         THEN Tracker!OneMore(lapsed) = MaxUnsupported /\ Tracker!Unsupported(question.verdict)
         ELSE question.verdict.confidence >= Enter /\ question.verdict.intent = active'
<1> DEFINE v == question.verdict
           count == IF Tracker!Unsupported(v) THEN Tracker!OneMore(unsupported) ELSE 0
<1>1. active' = Tracker!Verdict(v, count)
  BY DEF Tracker!DecideTurn, Tracker!Decide, Tracker!Commit
<1>2. v.intent # active
  BY <1>1 DEF Tracker!Verdict
<1>3. CASE v.confidence >= Enter /\ v.intent # Tracker!General
  <2>1. active' = v.intent
    BY <1>1, <1>2, <1>3 DEF Tracker!Verdict
  <2> QED
    BY <1>3, <2>1
<1>4. CASE ~(v.confidence >= Enter /\ v.intent # Tracker!General)
  <2>1. active' = Tracker!General /\ count >= MaxUnsupported
    BY <1>1, <1>2, <1>4 DEF Tracker!Verdict
  <2>2. Tracker!Unsupported(v) /\ Tracker!OneMore(unsupported) >= MaxUnsupported
    BY <2>1 DEF Tracker!ThresholdAssumption
  <2>3. Tracker!OneMore(lapsed) = MaxUnsupported
    BY <2>2, OneMoreIs DEF CountInv, Tracker!ThresholdAssumption
  <2> QED
    BY <2>1, <2>2, <2>3
<1> QED
  BY <1>3, <1>4

\* policy.rs: whatever is typed and whatever Laya answers, a turn moves to another
\* specialisation only with the confidence to enter it, and gives one up only after
\* MaxUnsupported turns in a row that showed it no support.
THEOREM ChangesAreEarned == Tracker!ThresholdAssumption => (Tracker!CapSpec => ChangeIsEarned)
<1> SUFFICES ASSUME Tracker!ThresholdAssumption PROVE Tracker!CapSpec => ChangeIsEarned
  OBVIOUS
<1>1. Tracker!CapInit => CountInv
  BY DEF Tracker!CapInit, CountInv, Tracker!ThresholdAssumption
<1>2. CountInv /\ [Tracker!CapNext]_(Tracker!capVars) => CountInv'
  BY CountStep
<1>3. CountInv /\ [Tracker!CapNext]_(Tracker!capVars) =>
        [ Tracker!DecideTurn /\ active' # active /\ ~Tracker!Pins(question.manual) =>
          IF active' = Tracker!General
          THEN Tracker!OneMore(lapsed) = MaxUnsupported /\ Tracker!Unsupported(question.verdict)
          ELSE question.verdict.confidence >= Enter /\ question.verdict.intent = active'
        ]_(Tracker!capVars)
  BY ChangeStep
<1> QED
  BY <1>1, <1>2, <1>3, PTL DEF Tracker!CapSpec, ChangeIsEarned, Tracker!ChangeIsEarned

=============================================================================
