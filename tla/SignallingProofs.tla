---- MODULE SignallingProofs ----
(***************************************************************************)
(* Proofs about the negotiation of two peers, for any number of            *)
(* candidates, rounds and tracks, with either side trickling or not.       *)
(***************************************************************************)
EXTENDS Signalling, FiniteSetTheorems, TLAPS

----------------------------------------------------------------------------
\* What a peer publishes, and what its queue of callbacks will still tell it.

Newest(s, kind) ==
    {i \in DOMAIN s : /\ s[i].kind = kind
                      /\ \A j \in DOMAIN s : s[j].kind = kind => j <= i}

\* The last callback of a kind brings the truth; without one it is shown.
Tells(s, kind, names, shown, truth) ==
    /\ \A i \in Newest(s, kind) : RawValue(names, s[i].value) = truth
    /\ (\A i \in DOMAIN s : s[i].kind # kind) => shown = truth

\* What a step adds to a queue says how the truth changes, once.
Brings(news, kind, names, old, new) ==
    \/ /\ new = old
       /\ \A i \in DOMAIN news : news[i].kind # kind
    \/ \E i \in DOMAIN news :
        /\ news[i].kind = kind
        /\ RawValue(names, news[i].value) = new
        /\ \A j \in DOMAIN news : news[j].kind = kind => j = i

\* Candidates are shown up to some number, and the rest come in order.
Lists(s, shown, n) ==
    \E c \in 0 .. n :
        /\ shown = UpTo(c)
        /\ \A i \in DOMAIN s : s[i].kind = "candidate" =>
            /\ s[i].value \in c + 1 .. n
            /\ \A j \in DOMAIN s : /\ j < i
                                   /\ s[j].kind = "candidate"
                                   => s[j].value < s[i].value
        /\ \A v \in c + 1 .. n :
            \E i \in DOMAIN s : s[i].kind = "candidate" /\ s[i].value = v

\* A queue after more callbacks, and after one has run.
LEMMA Joined ==
    ASSUME NEW S, NEW s \in Seq(S), NEW n \in Seq(S)
    PROVE  /\ s \o n \in Seq(S)
           /\ Len(s \o n) = Len(s) + Len(n)
           /\ \A i \in 1 .. Len(s) : (s \o n)[i] = s[i]
           /\ \A i \in 1 .. Len(n) : (s \o n)[Len(s) + i] = n[i]
           /\ \A i \in 1 .. Len(s \o n) :
                \/ i \in 1 .. Len(s)
                \/ i - Len(s) \in 1 .. Len(n)
BY SMT

LEMMA Shortened ==
    ASSUME NEW S, NEW s \in Seq(S), s # <<>>
    PROVE  /\ Tail(s) \in Seq(S)
           /\ Len(s) \in Nat \ {0}
           /\ Len(Tail(s)) = Len(s) - 1
           /\ Head(s) = s[1]
           /\ s[1] \in S
           /\ \A i \in 1 .. Len(s) - 1 : Tail(s)[i] = s[i + 1]
BY SMT

\* Sequences are equal that agree at each place.
LEMMA SeqEqual ==
    ASSUME NEW S, NEW s \in Seq(S), NEW t \in Seq(S), Len(s) = Len(t),
           \A i \in 1 .. Len(s) : s[i] = t[i]
    PROVE  s = t
BY SMT

LEMMA JoinedNone ==
    ASSUME NEW S, NEW s \in Seq(S)
    PROVE  s \o <<>> = s
<1> DEFINE none == <<>>
<1>1. none \in Seq(S) /\ Len(none) = 0
  OBVIOUS
<1> HIDE DEF none
<1>2. /\ s \o none \in Seq(S) /\ Len(s \o none) = Len(s)
      /\ \A i \in 1 .. Len(s) : (s \o none)[i] = s[i]
  BY <1>1, Joined
<1>3. s \o none = s
  BY <1>2, SeqEqual
<1> QED  BY <1>3 DEF none

LEMMA JoinedOne ==
    ASSUME NEW S, NEW s \in Seq(S), NEW e \in S
    PROVE  /\ s \o <<e>> \in Seq(S)
           /\ Len(s \o <<e>>) = Len(s) + 1
           /\ \A i \in 1 .. Len(s) : (s \o <<e>>)[i] = s[i]
           /\ (s \o <<e>>)[Len(s) + 1] = e
<1> DEFINE one == <<e>>
<1>1. one \in Seq(S) /\ Len(one) = 1 /\ one[1] = e
  OBVIOUS
<1> HIDE DEF one
<1>2. /\ s \o one \in Seq(S)
      /\ Len(s \o one) = Len(s) + 1
      /\ \A i \in 1 .. Len(s) : (s \o one)[i] = s[i]
      /\ (s \o one)[Len(s) + 1] = e
  <2>1. 1 \in 1 .. Len(one)
    BY <1>1
  <2> QED  BY <1>1, <2>1, Joined
<1> QED  BY <1>2 DEF one

LEMMA RaisedTells ==
    ASSUME NEW S, NEW s \in Seq(S), NEW n \in Seq(S),
           NEW kind, NEW names, NEW shown, NEW old, NEW new,
           Tells(s, kind, names, shown, old),
           Brings(n, kind, names, old, new)
    PROVE  Tells(s \o n, kind, names, shown, new)
<1> DEFINE t == s \o n
<1>1. /\ DOMAIN s = 1 .. Len(s) /\ DOMAIN n = 1 .. Len(n)
      /\ DOMAIN t = 1 .. Len(t)
      /\ Len(s) \in Nat /\ Len(n) \in Nat /\ Len(t) = Len(s) + Len(n)
  BY Joined
<1>2. /\ \A i \in 1 .. Len(s) : t[i] = s[i]
      /\ \A i \in 1 .. Len(n) : t[Len(s) + i] = n[i]
      /\ \A i \in 1 .. Len(t) : i \in 1 .. Len(s) \/ i - Len(s) \in 1 .. Len(n)
  BY Joined
<1> HIDE DEF t
<1> SUFFICES Tells(t, kind, names, shown, new)
  BY DEF t
<1>3. CASE new = old /\ \A i \in DOMAIN n : n[i].kind # kind
  <2>1. \A i \in DOMAIN t : t[i].kind = kind => i \in DOMAIN s
    <3> SUFFICES ASSUME NEW i \in DOMAIN t, t[i].kind = kind,
                        i - Len(s) \in 1 .. Len(n)
                 PROVE  FALSE
      BY <1>1, <1>2
    <3> DEFINE k == i - Len(s)
    <3>1. t[Len(s) + k] = n[k] /\ Len(s) + k = i
      BY <1>1, <1>2
    <3> QED  BY <3>1, <1>1, <1>3
  <2>2. \A i \in DOMAIN s : i \in DOMAIN t /\ t[i] = s[i]
    BY <1>1, <1>2
  <2>3. Newest(t, kind) \subseteq Newest(s, kind)
    BY <2>1, <2>2, <1>1 DEF Newest
  <2>4. (\A i \in DOMAIN t : t[i].kind # kind)
            => \A i \in DOMAIN s : s[i].kind # kind
    BY <2>2
  <2>5. \A i \in Newest(t, kind) : t[i] = s[i]
    BY <2>2, <2>3 DEF Newest
  <2> QED  BY <2>3, <2>4, <2>5, <1>3 DEF Tells
<1>4. CASE \E i \in DOMAIN n :
               /\ n[i].kind = kind
               /\ RawValue(names, n[i].value) = new
               /\ \A j \in DOMAIN n : n[j].kind = kind => j = i
  <2>1. PICK i \in DOMAIN n :
               /\ n[i].kind = kind
               /\ RawValue(names, n[i].value) = new
               /\ \A j \in DOMAIN n : n[j].kind = kind => j = i
    BY <1>4
  <2> DEFINE m == Len(s) + i
  <2>2. m \in DOMAIN t /\ t[m] = n[i]
    BY <1>1, <1>2
  <2>3. \A k \in Newest(t, kind) : k = m
    <3> SUFFICES ASSUME NEW k \in Newest(t, kind)
                 PROVE  k = m
      OBVIOUS
    <3>1. k \in DOMAIN t /\ t[k].kind = kind /\ m <= k
      BY <2>1, <2>2 DEF Newest
    <3>2. k - Len(s) \in 1 .. Len(n)
      BY <3>1, <1>1, <1>2
    <3>3. t[Len(s) + (k - Len(s))] = n[k - Len(s)]
      BY <3>2, <1>2
    <3>4. n[k - Len(s)].kind = kind
      BY <3>1, <3>3, <1>1
    <3> QED  BY <3>1, <3>2, <3>4, <2>1, <1>1
  <2>4. \A k \in Newest(t, kind) : RawValue(names, t[k].value) = new
    BY <2>1, <2>2, <2>3
  <2>5. ~ \A k \in DOMAIN t : t[k].kind # kind
    BY <2>1, <2>2
  <2> QED  BY <2>4, <2>5 DEF Tells
<1> QED  BY <1>3, <1>4 DEF Brings

LEMMA RanTells ==
    ASSUME NEW S, NEW s \in Seq(S), s # <<>>,
           NEW kind, NEW names, NEW shown, NEW truth,
           Tells(s, kind, names, shown, truth)
    PROVE  Tells(Tail(s), kind, names,
                 IF Head(s).kind = kind THEN RawValue(names, Head(s).value)
                                        ELSE shown,
                 truth)
<1> DEFINE t == Tail(s)
           now == IF Head(s).kind = kind THEN RawValue(names, Head(s).value)
                                         ELSE shown
<1>1. /\ DOMAIN s = 1 .. Len(s) /\ DOMAIN t = 1 .. Len(t)
      /\ Len(s) \in Nat \ {0} /\ Len(t) = Len(s) - 1
      /\ Head(s) = s[1]
      /\ \A i \in 1 .. Len(s) - 1 : t[i] = s[i + 1]
  BY Shortened
<1> HIDE DEF t
<1>2. ASSUME NEW i \in Newest(t, kind)
      PROVE  RawValue(names, t[i].value) = truth
  <2>1. i \in 1 .. Len(t) /\ t[i].kind = kind /\ t[i] = s[i + 1]
    BY <1>1, <1>2 DEF Newest
  <2>2. i + 1 \in DOMAIN s /\ s[i + 1].kind = kind
    BY <1>1, <2>1
  <2>3. ASSUME NEW j \in DOMAIN s, s[j].kind = kind
        PROVE  j <= i + 1
    <3>1. CASE j = 1
      BY <3>1, <2>1
    <3>2. CASE j # 1
      <4>1. j - 1 \in DOMAIN t /\ t[j - 1] = s[(j - 1) + 1] /\ (j - 1) + 1 = j
        BY <3>2, <1>1
      <4>2. t[j - 1].kind = kind
        BY <4>1, <2>3
      <4>3. j - 1 <= i
        BY <4>1, <4>2, <1>2 DEF Newest
      <4> QED  BY <4>3, <1>1, <2>1
    <3> QED  BY <3>1, <3>2
  <2>4. i + 1 \in Newest(s, kind)
    BY <2>2, <2>3 DEF Newest
  <2> QED  BY <2>1, <2>4 DEF Tells
<1>3. ASSUME \A i \in DOMAIN t : t[i].kind # kind
      PROVE  now = truth
  <2>1. ASSUME NEW j \in DOMAIN s, s[j].kind = kind
        PROVE  j = 1
    <3> SUFFICES ASSUME j # 1
                 PROVE  FALSE
      OBVIOUS
    <3>1. j - 1 \in DOMAIN t /\ t[j - 1] = s[(j - 1) + 1] /\ (j - 1) + 1 = j
      BY <1>1
    <3> QED  BY <3>1, <1>3, <2>1
  <2>2. CASE Head(s).kind = kind
    <3>1. 1 \in Newest(s, kind)
      BY <1>1, <2>1, <2>2 DEF Newest
    <3> QED  BY <3>1, <1>1, <2>2 DEF Tells
  <2>3. CASE Head(s).kind # kind
    <3>1. \A i \in DOMAIN s : s[i].kind # kind
      BY <2>1, <2>3, <1>1
    <3> QED  BY <3>1, <2>3 DEF Tells
  <2> QED  BY <2>2, <2>3
<1>4. Tells(t, kind, names, now, truth)
  BY <1>2, <1>3 DEF Tells
<1> QED  BY <1>4 DEF t

LEMMA RaisedLists ==
    ASSUME NEW S, NEW s \in Seq(S), NEW n \in Seq(S),
           NEW shown, NEW total \in Nat,
           Lists(s, shown, total),
           \A i \in DOMAIN n : n[i].kind # "candidate"
    PROVE  Lists(s \o n, shown, total)
<1> DEFINE t == s \o n
<1>1. /\ DOMAIN s = 1 .. Len(s) /\ DOMAIN n = 1 .. Len(n)
      /\ DOMAIN t = 1 .. Len(t)
      /\ Len(s) \in Nat /\ Len(n) \in Nat /\ Len(t) = Len(s) + Len(n)
  BY Joined
<1>2. /\ \A i \in 1 .. Len(s) : t[i] = s[i]
      /\ \A i \in 1 .. Len(n) : t[Len(s) + i] = n[i]
      /\ \A i \in 1 .. Len(t) : i \in 1 .. Len(s) \/ i - Len(s) \in 1 .. Len(n)
  BY Joined
<1> HIDE DEF t
<1>3. \A i \in DOMAIN t : t[i].kind = "candidate" => i \in DOMAIN s
  <2> SUFFICES ASSUME NEW i \in DOMAIN t, t[i].kind = "candidate",
                      i - Len(s) \in 1 .. Len(n)
               PROVE  FALSE
    BY <1>1, <1>2
  <2>1. t[Len(s) + (i - Len(s))] = n[i - Len(s)] /\ Len(s) + (i - Len(s)) = i
    BY <1>1, <1>2
  <2> QED  BY <2>1, <1>1
<1>4. \A i \in DOMAIN s : i \in DOMAIN t /\ t[i] = s[i]
  BY <1>1, <1>2
<1>5. PICK c \in 0 .. total :
        /\ shown = UpTo(c)
        /\ \A i \in DOMAIN s : s[i].kind = "candidate" =>
            /\ s[i].value \in c + 1 .. total
            /\ \A j \in DOMAIN s : /\ j < i
                                   /\ s[j].kind = "candidate"
                                   => s[j].value < s[i].value
        /\ \A v \in c + 1 .. total :
            \E i \in DOMAIN s : s[i].kind = "candidate" /\ s[i].value = v
  BY DEF Lists
<1>6. \A i \in DOMAIN t : t[i].kind = "candidate" =>
        /\ t[i].value \in c + 1 .. total
        /\ \A j \in DOMAIN t : /\ j < i
                               /\ t[j].kind = "candidate"
                               => t[j].value < t[i].value
  BY <1>3, <1>4, <1>5
<1>7. \A v \in c + 1 .. total :
        \E i \in DOMAIN t : t[i].kind = "candidate" /\ t[i].value = v
  BY <1>4, <1>5
<1>8. Lists(t, shown, total)
  BY <1>5, <1>6, <1>7 DEF Lists
<1> QED  BY <1>8 DEF t

LEMMA GatheredLists ==
    ASSUME NEW S, NEW s \in Seq(S), NEW n \in Seq(S),
           NEW shown, NEW total \in Nat,
           Lists(s, shown, total), n = <<Ev("candidate", total + 1)>>
    PROVE  Lists(s \o n, shown, total + 1)
<1> DEFINE t == s \o n
           m == Len(s) + 1
<1>1. /\ DOMAIN s = 1 .. Len(s) /\ DOMAIN t = 1 .. m
      /\ Len(s) \in Nat
      /\ \A i \in 1 .. Len(s) : t[i] = s[i]
      /\ t[m] = Ev("candidate", total + 1)
  <2> DEFINE e == Ev("candidate", total + 1)
  <2>1. /\ Len(n) = 1 /\ n[1] = e
        /\ Len(s) \in Nat /\ 1 \in 1 .. Len(n)
    <3>1. n = <<e>>
      OBVIOUS
    <3> HIDE DEF e
    <3> QED  BY <3>1
  <2>2. /\ t \in Seq(S) /\ Len(t) = Len(s) + Len(n)
        /\ \A i \in 1 .. Len(s) : t[i] = s[i]
        /\ \A i \in 1 .. Len(n) : t[Len(s) + i] = n[i]
    BY Joined
  <2>3. t[Len(s) + 1] = n[1]
    BY <2>1, <2>2
  <2> HIDE DEF t
  <2>4. DOMAIN t = 1 .. Len(t) /\ DOMAIN s = 1 .. Len(s)
    BY <2>2
  <2> QED  BY <2>1, <2>2, <2>3, <2>4
<1>2. t[m].kind = "candidate" /\ t[m].value = total + 1
  BY <1>1 DEF Ev
<1> HIDE DEF t
<1>3. PICK c \in 0 .. total :
        /\ shown = UpTo(c)
        /\ \A i \in DOMAIN s : s[i].kind = "candidate" =>
            /\ s[i].value \in c + 1 .. total
            /\ \A j \in DOMAIN s : /\ j < i
                                   /\ s[j].kind = "candidate"
                                   => s[j].value < s[i].value
        /\ \A v \in c + 1 .. total :
            \E i \in DOMAIN s : s[i].kind = "candidate" /\ s[i].value = v
  BY DEF Lists
<1>4. ASSUME NEW i \in DOMAIN t, t[i].kind = "candidate"
      PROVE  /\ t[i].value \in c + 1 .. total + 1
             /\ \A j \in DOMAIN t : /\ j < i
                                    /\ t[j].kind = "candidate"
                                    => t[j].value < t[i].value
  <2>1. CASE i = m
    <3>1. t[i].value = total + 1
      BY <2>1, <1>2
    <3>2. ASSUME NEW j \in DOMAIN t, j < i, t[j].kind = "candidate"
          PROVE  t[j].value < t[i].value
      <4>1. j \in DOMAIN s /\ t[j] = s[j]
        BY <1>1, <2>1, <3>2
      <4>2. s[j].value \in c + 1 .. total
        BY <4>1, <3>2, <1>3
      <4> QED  BY <3>1, <4>1, <4>2
    <3> QED  BY <3>1, <3>2
  <2>2. CASE i # m
    <3>1. i \in DOMAIN s /\ t[i] = s[i]
      BY <1>1, <2>2
    <3>2. t[i].value \in c + 1 .. total
      BY <3>1, <1>4, <1>3
    <3>3. \A j \in DOMAIN t : j < i => j \in DOMAIN s /\ t[j] = s[j]
      BY <1>1, <3>1
    <3> QED  BY <3>1, <3>2, <3>3, <1>4, <1>3
  <2> QED  BY <2>1, <2>2
<1>5. ASSUME NEW v \in c + 1 .. total + 1
      PROVE  \E i \in DOMAIN t : t[i].kind = "candidate" /\ t[i].value = v
  <2>1. CASE v = total + 1
    BY <2>1, <1>1, <1>2
  <2>2. CASE v # total + 1
    <3>1. v \in c + 1 .. total
      BY <2>2
    <3>2. PICK i \in DOMAIN s : s[i].kind = "candidate" /\ s[i].value = v
      BY <3>1, <1>3
    <3>3. i \in DOMAIN t /\ t[i] = s[i]
      BY <1>1
    <3> QED  BY <3>2, <3>3
  <2> QED  BY <2>1, <2>2
<1>6. Lists(t, shown, total + 1)
  <2>1. c \in 0 .. total + 1
    OBVIOUS
  <2> QED  BY <2>1, <1>3, <1>4, <1>5 DEF Lists
<1> QED  BY <1>6 DEF t

LEMMA RanLists ==
    ASSUME NEW S, NEW s \in Seq(S), s # <<>>,
           NEW shown, NEW total \in Nat,
           Lists(s, shown, total)
    PROVE  Lists(Tail(s),
                 IF Head(s).kind = "candidate" THEN Append(shown, Head(s).value)
                                               ELSE shown,
                 total)
<1> DEFINE t == Tail(s)
<1>1. /\ DOMAIN s = 1 .. Len(s) /\ DOMAIN t = 1 .. Len(t)
      /\ Len(s) \in Nat \ {0} /\ Len(t) = Len(s) - 1
      /\ Head(s) = s[1]
      /\ \A i \in 1 .. Len(s) - 1 : t[i] = s[i + 1]
  BY Shortened
<1> HIDE DEF t
<1>2. PICK c \in 0 .. total :
        /\ shown = UpTo(c)
        /\ \A i \in DOMAIN s : s[i].kind = "candidate" =>
            /\ s[i].value \in c + 1 .. total
            /\ \A j \in DOMAIN s : /\ j < i
                                   /\ s[j].kind = "candidate"
                                   => s[j].value < s[i].value
        /\ \A v \in c + 1 .. total :
            \E i \in DOMAIN s : s[i].kind = "candidate" /\ s[i].value = v
  BY DEF Lists
<1>3. \A i \in DOMAIN t : i + 1 \in DOMAIN s /\ t[i] = s[i + 1]
  BY <1>1
<1>4. ASSUME NEW i \in DOMAIN t, t[i].kind = "candidate",
             NEW j \in DOMAIN t, j < i, t[j].kind = "candidate"
      PROVE  t[j].value < t[i].value
  <2>1. j + 1 < i + 1
    BY <1>1, <1>4
  <2> QED  BY <2>1, <1>2, <1>3, <1>4
<1>5. CASE Head(s).kind = "candidate"
  <2>1. s[1].kind = "candidate" /\ 1 \in DOMAIN s
    BY <1>1, <1>5
  <2>2. s[1].value \in c + 1 .. total
    BY <2>1, <1>2
  <2>3. PICK i \in DOMAIN s : s[i].kind = "candidate" /\ s[i].value = c + 1
    BY <2>2, <1>2
  <2>4. s[1].value = c + 1
    <3>1. CASE i = 1
      BY <3>1, <2>3
    <3>2. CASE 1 < i
      <4>1. s[1].value < s[i].value
        BY <3>2, <2>1, <2>3, <1>2
      <4> QED  BY <4>1, <2>2, <2>3
    <3> QED  BY <3>1, <3>2, <1>1
  <2>5. Append(shown, s[1].value) = UpTo(c + 1)
    <3>1. Append(UpTo(c), c + 1) = UpTo(c + 1)
      <4>1. /\ UpTo(c) \in Seq(Nat) /\ Len(UpTo(c)) = c
            /\ \A k \in 1 .. c : UpTo(c)[k] = k
        BY DEF UpTo
      <4>2. UpTo(c + 1) \in Seq(Nat) /\ Len(UpTo(c + 1)) = c + 1
        BY DEF UpTo
      <4>3. \A k \in 1 .. c + 1 : UpTo(c + 1)[k] = k
        BY DEF UpTo
      <4> DEFINE a == Append(UpTo(c), c + 1)
      <4>4. a \in Seq(Nat) /\ Len(a) = c + 1
        BY <4>1
      <4>5. \A k \in 1 .. c + 1 : a[k] = k
        BY <4>1
      <4> HIDE DEF a
      <4>6. a = UpTo(c + 1)
        BY <4>2, <4>3, <4>4, <4>5, SeqEqual
      <4> QED  BY <4>6 DEF a
    <3> QED  BY <3>1, <2>4, <1>2
  <2>6. ASSUME NEW k \in DOMAIN t, t[k].kind = "candidate"
        PROVE  t[k].value \in (c + 1) + 1 .. total
    <3>1. k + 1 \in DOMAIN s /\ t[k] = s[k + 1] /\ 1 < k + 1
      BY <1>1, <1>3
    <3>2. s[1].value < s[k + 1].value /\ s[k + 1].value \in c + 1 .. total
      BY <3>1, <2>1, <2>6, <1>2
    <3> QED  BY <3>1, <3>2, <2>4
  <2>7. ASSUME NEW v \in (c + 1) + 1 .. total
        PROVE  \E k \in DOMAIN t : t[k].kind = "candidate" /\ t[k].value = v
    <3>1. v \in c + 1 .. total /\ v # c + 1
      OBVIOUS
    <3>2. PICK k \in DOMAIN s : s[k].kind = "candidate" /\ s[k].value = v
      BY <3>1, <1>2
    <3>3. k # 1
      BY <3>1, <3>2, <2>4
    <3>4. k - 1 \in DOMAIN t /\ t[k - 1] = s[(k - 1) + 1] /\ (k - 1) + 1 = k
      BY <3>3, <1>1
    <3> QED  BY <3>2, <3>4
  <2>8. c + 1 \in 0 .. total
    BY <2>2
  <2>9. Lists(t, UpTo(c + 1), total)
    BY <2>6, <2>7, <2>8, <1>4 DEF Lists
  <2> QED  BY <2>5, <2>9, <1>1, <1>5 DEF t
<1>6. CASE Head(s).kind # "candidate"
  <2>1. ASSUME NEW v \in c + 1 .. total
        PROVE  \E k \in DOMAIN t : t[k].kind = "candidate" /\ t[k].value = v
    <3>2. PICK k \in DOMAIN s : s[k].kind = "candidate" /\ s[k].value = v
      BY <1>2
    <3>3. k # 1
      BY <3>2, <1>1, <1>6
    <3>4. k - 1 \in DOMAIN t /\ t[k - 1] = s[(k - 1) + 1] /\ (k - 1) + 1 = k
      BY <3>3, <1>1
    <3> QED  BY <3>2, <3>4
  <2>2. \A k \in DOMAIN t :
            t[k].kind = "candidate" => t[k].value \in c + 1 .. total
    BY <1>2, <1>3
  <2>3. Lists(t, shown, total)
    BY <2>1, <2>2, <1>2, <1>4 DEF Lists
  <2> QED  BY <2>3, <1>6 DEF t
<1> QED  BY <1>5, <1>6

----------------------------------------------------------------------------
\* Types. A callback carries a number that Swift's enum names.

Sound(p, e) ==
    /\ e.kind = "state" => e.value \in {1, 2, 4}
    /\ e.kind = "gathering" => e.value \in {1, 2}
    /\ e.kind = "signaling" => e.value \in {0, 1, 2}
    /\ e.kind = "candidate" => e.value \in Candidate
    /\ e.kind = "description" => e.value.type = TypeOf(p)
    /\ e.kind = "track" => p = "answerer"

Numbered == \A p \in Peer : \A i \in DOMAIN events[p] : Sound(p, events[p][i])

TypeInv == TypeOK /\ Numbered

LEMMA EventTypes ==
    /\ \A n \in Nat : /\ Ev("state", n) \in Event
                      /\ Ev("gathering", n) \in Event
                      /\ Ev("signaling", n) \in Event
                      /\ Ev("candidate", n) \in Event
    /\ \A d \in Description : /\ Ev("description", d) \in Event
                              /\ Ev("description", d) \in Message
    /\ \A s \in Section : Ev("track", s) \in Event
    /\ \A c \in Candidate : Ev("candidate", c) \in Message
BY DEF Ev, Event, Message

LEMMA EventKinds ==
    ASSUME NEW e \in Event
    PROVE  /\ e.kind \in {"state", "gathering", "signaling", "candidate",
                          "description", "track"}
           /\ e.kind = "description" => e.value \in Description
           /\ e.kind = "track" => e.value \in Section
BY DEF Event

LEMMA MessageKinds ==
    ASSUME NEW m \in Message
    PROVE  /\ m.kind \in {"description", "candidate"}
           /\ m.kind = "description" => m.value \in Description
           /\ m.kind = "candidate" => m.value \in Candidate
BY DEF Message

LEMMA CandidateNumbers ==
    /\ \A c \in Candidate : c \in Nat
    /\ \A p \in Peer : \A n \in Nat : n < MaxCandidates[p] => n + 1 \in Candidate
BY CandidatesAssumption DEF Candidate

LEMMA Peers == \A p \in Peer : Other(p) \in Peer /\ Other(p) # p
BY DEF Peer, Other

LEMMA TextType ==
    ASSUME TypeOK, NEW p \in Peer
    PROVE  Text(p) \in Description /\ Text(p).type = TypeOf(p)
<1>1. 1 .. gathered[p] \subseteq Candidate
  <2>1. CASE gathered[p] = 0
    BY <2>1
  <2>2. CASE gathered[p] # 0
    <3>1. PICK q \in Peer : gathered[p] \in 1 .. MaxCandidates[q]
      BY <2>2 DEF TypeOK, Candidate
    <3>2. MaxCandidates[q] \in Nat
      BY CandidatesAssumption
    <3>3. 1 .. gathered[p] \subseteq 1 .. MaxCandidates[q]
      BY <3>1, <3>2
    <3> QED  BY <3>3 DEF Candidate
  <2> QED  BY <2>1, <2>2
<1>2. sections \subseteq Section
  BY DEF TypeOK
<1> QED  BY <1>1, <1>2 DEF Text, TypeOf, Description

\* GetMsid finds what a section promises, in all styles but one.
Found(section) ==
    IF section[2] = "planBStreamOnly" THEN NotFound ELSE Promised(section)

LEMMA MsidIsFound ==
    ASSUME NEW s \in Section
    PROVE  MsidOf(s) = Found(s)
<1> DEFINE a == s[1][1]
           b == s[1][2]
           style == s[2]
           none == Line("ssrc", <<"cname">>)
<1>1. style \in {"unified", "planB", "both", "unifiedStreamOnly",
                 "planBStreamOnly"}
  BY StylesAssumption DEF Section, Track
<1>2. CASE style = "unified"
  <2> DEFINE lines == <<Line("msid", <<a, b>>), Cname>>
  <2>1. Write(style, a, b) = lines
    BY <1>2 DEF Write
  <2>2. MsidLines(lines) = {1}
    BY DEF MsidLines, Line, Cname
  <2>3. Earliest({1}) = 1
    BY DEF Earliest
  <2>4. FromMsidLine(lines[1].words) = Ids(a, b)
    BY DEF FromMsidLine, Line
  <2>5. GetMsid(lines) = Ids(a, b)
    BY <2>2, <2>3, <2>4 DEF GetMsid, Ids
  <2> QED  BY <2>1, <2>5, <1>2 DEF MsidOf, Found, Promised, StreamOnly
<1>3. CASE style = "both"
  <2> DEFINE lines == <<Cname, Line("ssrc", <<"msid", a, b>>),
                        Line("msid", <<a, b>>)>>
  <2>1. Write(style, a, b) = lines
    BY <1>3 DEF Write
  <2>2. MsidLines(lines) = {3}
    BY DEF MsidLines, Line, Cname
  <2>3. Earliest({3}) = 3
    BY DEF Earliest
  <2>4. FromMsidLine(lines[3].words) = Ids(a, b)
    BY DEF FromMsidLine, Line
  <2>5. GetMsid(lines) = Ids(a, b)
    BY <2>2, <2>3, <2>4 DEF GetMsid, Ids
  <2> QED  BY <2>1, <2>5, <1>3 DEF MsidOf, Found, Promised, StreamOnly
<1>4. CASE style = "unifiedStreamOnly"
  <2> DEFINE lines == <<Line("msid", <<a>>), Cname>>
  <2>1. Write(style, a, b) = lines
    BY <1>4 DEF Write
  <2>2. MsidLines(lines) = {1}
    BY DEF MsidLines, Line, Cname
  <2>3. Earliest({1}) = 1
    BY DEF Earliest
  <2>4. FromMsidLine(lines[1].words) = Ids(a, a)
    BY DEF FromMsidLine, Line
  <2>5. GetMsid(lines) = Ids(a, a)
    BY <2>2, <2>3, <2>4 DEF GetMsid, Ids
  <2> QED  BY <2>1, <2>5, <1>4 DEF MsidOf, Found, Promised, StreamOnly
<1>5. CASE style = "planB"
  <2> DEFINE words == <<"msid", a, b>>
             lines == <<Cname, Line("ssrc", words)>>
  <2>1. Write(style, a, b) = lines
    BY <1>5 DEF Write
  <2>2. MsidLines(lines) = {}
    BY DEF MsidLines, Line, Cname
  <2>3. PlacesOfMsid(words) \subseteq 1 .. 3 /\ 1 \in PlacesOfMsid(words)
    BY DEF PlacesOfMsid
  <2>4. 2 \in SsrcMsidLines(lines)
    <3>1. 2 \in DOMAIN lines /\ lines[2].form = "ssrc" /\ lines[2].words = words
      BY DEF Line
    <3>2. 1 < Len(words)
      OBVIOUS
    <3> HIDE DEF words, lines
    <3>3. 1 \in PlacesOfMsid(lines[2].words) /\ 1 < Len(lines[2].words)
      BY <3>1, <3>2, <2>3
    <3> QED  BY <3>1, <3>3 DEF SsrcMsidLines
  <2>5. SsrcMsidLines(lines) = {2}
    <3>1. DOMAIN lines = {1, 2} /\ lines[1].words = <<"cname">>
      BY DEF Line, Cname
    <3>2. PlacesOfMsid(<<"cname">>) = {}
      BY DEF PlacesOfMsid
    <3>3. 1 \notin SsrcMsidLines(lines)
      BY <3>1, <3>2 DEF SsrcMsidLines
    <3> QED  BY <3>1, <3>3, <2>4 DEF SsrcMsidLines
  <2>6. Earliest({2}) = 2 /\ lines[2].words = words
    BY DEF Earliest, Line
  <2>7. Earliest(PlacesOfMsid(words)) = 1
    BY <2>3 DEF Earliest
  <2>8. FromSsrcLine(words) = Ids(a, b)
    BY <2>7 DEF FromSsrcLine
  <2>9. GetMsid(lines) = Ids(a, b)
    BY <2>2, <2>5, <2>6, <2>8 DEF GetMsid, NotFound
  <2> QED  BY <2>1, <2>9, <1>5 DEF MsidOf, Found, Promised, StreamOnly
<1>6. CASE style = "planBStreamOnly"
  <2> DEFINE words == <<"msid", a>>
             lines == <<Cname, Line("ssrc", words)>>
  <2>1. Write(style, a, b) = lines
    BY <1>6 DEF Write
  <2>2. MsidLines(lines) = {}
    BY DEF MsidLines, Line, Cname
  <2>3. PlacesOfMsid(words) \subseteq 1 .. 2 /\ 1 \in PlacesOfMsid(words)
    BY DEF PlacesOfMsid
  <2>4. 2 \in SsrcMsidLines(lines)
    <3>1. 2 \in DOMAIN lines /\ lines[2].form = "ssrc" /\ lines[2].words = words
      BY DEF Line
    <3>2. 1 < Len(words)
      OBVIOUS
    <3> HIDE DEF words, lines
    <3>3. 1 \in PlacesOfMsid(lines[2].words) /\ 1 < Len(lines[2].words)
      BY <3>1, <3>2, <2>3
    <3> QED  BY <3>1, <3>3 DEF SsrcMsidLines
  <2>5. SsrcMsidLines(lines) = {2}
    <3>1. DOMAIN lines = {1, 2} /\ lines[1].words = <<"cname">>
      BY DEF Line, Cname
    <3>2. PlacesOfMsid(<<"cname">>) = {}
      BY DEF PlacesOfMsid
    <3>3. 1 \notin SsrcMsidLines(lines)
      BY <3>1, <3>2 DEF SsrcMsidLines
    <3> QED  BY <3>1, <3>3, <2>4 DEF SsrcMsidLines
  <2>6. Earliest({2}) = 2 /\ lines[2].words = words
    BY DEF Earliest, Line
  <2>7. Earliest(PlacesOfMsid(words)) = 1
    BY <2>3 DEF Earliest
  <2>8. FromSsrcLine(words) = NotFound
    BY <2>7 DEF FromSsrcLine
  <2>9. GetMsid(lines) = NotFound
    BY <2>2, <2>5, <2>6, <2>8 DEF GetMsid, NotFound
  <2> QED  BY <2>1, <2>9, <1>6 DEF MsidOf, Found, Promised, StreamOnly
<1> QED  BY <1>1, <1>2, <1>3, <1>4, <1>5, <1>6

----------------------------------------------------------------------------
\* What a step may do to a peer's queue, its library and what it publishes.

\* It adds callbacks that tell of all it changed.
Raising(p) ==
    /\ pub' = pub
    /\ \A q \in Peer : q # p => /\ state'[q] = state[q]
                                /\ gathering'[q] = gathering[q]
                                /\ signaling'[q] = signaling[q]
                                /\ gathered'[q] = gathered[q]
    /\ gathering[p] = "complete" => gathering'[p] = "complete"
    /\ \E news \in Seq(Event) :
        /\ events' = [events EXCEPT ![p] = @ \o news]
        /\ \A i \in DOMAIN news : Sound(p, news[i])
        /\ Brings(news, "state", StateNames, state[p], state'[p])
        /\ Brings(news, "gathering", GatheringNames, gathering[p], gathering'[p])
        /\ Brings(news, "signaling", SignalingNames, signaling[p], signaling'[p])
        /\ \/ /\ gathered'[p] = gathered[p]
              /\ \A i \in DOMAIN news : news[i].kind # "candidate"
           \/ /\ gathered'[p] = gathered[p] + 1
              /\ gathering[p] = "inProgress"
              /\ news = <<Ev("candidate", gathered[p] + 1)>>
        /\ (\E i \in DOMAIN news : /\ news[i].kind = "gathering"
                                   /\ news[i].value = 2)
               => gathering[p] = "inProgress"
        /\ gathering[p] = "new" /\ gathering'[p] # "new" =>
               \E i \in DOMAIN news : news[i].kind = "description"

\* It leaves them alone.
Still == UNCHANGED <<events, pub, state, gathering, signaling, gathered>>

LEMMA GathersRaises ==
    ASSUME TypeInv, NEW p \in Peer, LibGathers(p)
    PROVE  Raising(p)
<1> DEFINE e == Ev("candidate", gathered[p] + 1)
           news == <<e>>
<1>1. gathered[p] + 1 \in Candidate /\ gathered[p] \in Nat
  <2>1. gathered[p] \in Candidate \cup {0} /\ gathered[p] < MaxCandidates[p]
    BY DEF LibGathers, TypeInv, TypeOK
  <2>2. gathered[p] \in Nat
    BY <2>1, CandidateNumbers
  <2> QED  BY <2>1, <2>2, CandidateNumbers
<1>2. e \in Event /\ e.kind = "candidate" /\ e.value = gathered[p] + 1
  <2>1. e \in Event
    BY <1>1, EventTypes
  <2> QED  BY <2>1 DEF Ev
<1>3. Sound(p, e)
  BY <1>1, <1>2 DEF Sound
<1>4. gathered'[p] = gathered[p] + 1
  BY DEF LibGathers, TypeInv, TypeOK
<1>5. events' = [events EXCEPT ![p] = @ \o news]
  BY DEF LibGathers, Raise
<1>6. /\ gathering[p] = "inProgress"
      /\ UNCHANGED <<pub, state, gathering, signaling>>
      /\ \A q \in Peer : q # p => gathered'[q] = gathered[q]
  BY DEF LibGathers, TypeInv, TypeOK
<1>7. news = <<Ev("candidate", gathered[p] + 1)>>
  OBVIOUS
<1> HIDE DEF e
<1>8. news \in Seq(Event) /\ DOMAIN news = {1} /\ news[1] = e
  BY <1>2
<1> HIDE DEF news
<1> QED  BY <1>2, <1>3, <1>4, <1>5, <1>6, <1>7, <1>8 DEF Raising, Brings

\* The queue gets one callback that names a state.
LEMMA OneRaises ==
    ASSUME TypeInv, NEW p \in Peer, NEW kind, NEW n, NEW e,
           e = Ev(kind, n), kind \in {"state", "gathering"},
           n \in {1, 2, 4}, kind = "gathering" => n = 2,
           events' = [events EXCEPT ![p] = @ \o <<e>>],
           UNCHANGED <<pub, signaling, gathered>>,
           \A q \in Peer : q # p => /\ state'[q] = state[q]
                                    /\ gathering'[q] = gathering[q],
           kind = "state" => /\ state'[p] = RawValue(StateNames, n)
                             /\ gathering'[p] = gathering[p],
           kind = "gathering" => /\ gathering[p] = "inProgress"
                                 /\ gathering'[p] = RawValue(GatheringNames, n)
                                 /\ state'[p] = state[p]
    PROVE  Raising(p)
<1> DEFINE news == <<e>>
<1>1. e \in Event /\ e.kind = kind /\ e.value = n
  <2>1. e \in Event
    BY EventTypes
  <2> QED  BY <2>1 DEF Ev
<1>2. Sound(p, e)
  BY <1>1 DEF Sound
<1>3. news \in Seq(Event) /\ DOMAIN news = {1} /\ news[1] = e
  BY <1>1
<1>4. gathering[p] # "new" \/ gathering'[p] = gathering[p]
  OBVIOUS
<1>5. gathering[p] = "complete" => gathering'[p] = "complete"
  OBVIOUS
<1> HIDE DEF news
<1>6. /\ Brings(news, "state", StateNames, state[p], state'[p])
      /\ Brings(news, "gathering", GatheringNames, gathering[p], gathering'[p])
      /\ Brings(news, "signaling", SignalingNames, signaling[p], signaling'[p])
  BY <1>1, <1>3 DEF Brings
<1>7. events' = [events EXCEPT ![p] = @ \o news]
  BY DEF news
<1>8. /\ \A i \in DOMAIN news : Sound(p, news[i])
      /\ \A i \in DOMAIN news : news[i].kind # "candidate"
      /\ (\E i \in DOMAIN news : /\ news[i].kind = "gathering"
                                 /\ news[i].value = 2)
               => gathering[p] = "inProgress"
  BY <1>1, <1>2, <1>3
<1>9. \A q \in Peer : q # p => /\ state'[q] = state[q]
                              /\ gathering'[q] = gathering[q]
                              /\ signaling'[q] = signaling[q]
                              /\ gathered'[q] = gathered[q]
  OBVIOUS
<1> QED  BY <1>3, <1>4, <1>5, <1>6, <1>7, <1>8, <1>9 DEF Raising

LEMMA RawNames ==
    /\ RawValue(StateNames, 1) = "connecting"
    /\ RawValue(StateNames, 2) = "connected"
    /\ RawValue(StateNames, 4) = "failed"
    /\ RawValue(GatheringNames, 1) = "inProgress"
    /\ RawValue(GatheringNames, 2) = "complete"
    /\ RawValue(SignalingNames, 0) = "stable"
    /\ RawValue(SignalingNames, 1) = "haveLocalOffer"
    /\ RawValue(SignalingNames, 2) = "haveRemoteOffer"
BY DEF RawValue, StateNames, GatheringNames, SignalingNames

LEMMA LibraryRaises ==
    ASSUME TypeInv, NEW p \in Peer,
           LibGatheringEnds(p) \/ LibConnects(p) \/ LibFails(p)
    PROVE  Raising(p)
<1>1. CASE LibGatheringEnds(p)
  <2>1. /\ events' = [events EXCEPT ![p] = @ \o <<Ev("gathering", 2)>>]
        /\ gathering[p] = "inProgress" /\ gathering'[p] = "complete"
        /\ UNCHANGED <<pub, signaling, gathered, state>>
        /\ \A q \in Peer : q # p => gathering'[q] = gathering[q]
    BY <1>1 DEF LibGatheringEnds, Raise, RtcGathering, TypeInv, TypeOK
  <2> QED  BY <2>1, OneRaises, RawNames
<1>2. CASE LibConnects(p)
  <2>1. /\ events' = [events EXCEPT ![p] = @ \o <<Ev("state", 2)>>]
        /\ state'[p] = "connected"
        /\ UNCHANGED <<pub, signaling, gathered, gathering>>
        /\ \A q \in Peer : q # p => state'[q] = state[q]
    BY <1>2 DEF LibConnects, Raise, RtcState, TypeInv, TypeOK
  <2> QED  BY <2>1, OneRaises, RawNames
<1>3. CASE LibFails(p)
  <2>1. /\ events' = [events EXCEPT ![p] = @ \o <<Ev("state", 4)>>]
        /\ state'[p] = "failed"
        /\ UNCHANGED <<pub, signaling, gathered, gathering>>
        /\ \A q \in Peer : q # p => state'[q] = state[q]
    BY <1>3 DEF LibFails, Raise, RtcState, TypeInv, TypeOK
  <2> QED  BY <2>1, OneRaises, RawNames
<1> QED  BY <1>1, <1>2, <1>3

\* The last two are there if their numbers are 1.
LockNewsAre(news, a, b, c, d, m, n) ==
    news = <<a, b>> \o (IF m = 1 THEN <<c>> ELSE <<>>)
                    \o (IF n = 1 THEN <<d>> ELSE <<>>)

LockNewsShape(news, a, b, c, d, m, n) ==
    /\ news \in Seq(Event)
    /\ Len(news) >= 2 /\ news[1] = a /\ news[2] = b
    /\ \A i \in DOMAIN news : \/ news[i] \in {a, b}
                              \/ m = 1 /\ news[i] = c
                              \/ n = 1 /\ news[i] = d
    /\ \A i, j \in DOMAIN news : news[i].kind = news[j].kind => i = j
    /\ m = 1 => \E i \in DOMAIN news : news[i] = c
    /\ n = 1 => \E i \in DOMAIN news : news[i] = d

LEMMA LockNews ==
    ASSUME NEW a \in Event, NEW b \in Event, NEW c \in Event, NEW d \in Event,
           NEW m \in {0, 1}, NEW n \in {0, 1}, NEW news,
           LockNewsAre(news, a, b, c, d, m, n),
           a.kind = "signaling", b.kind = "description",
           c.kind = "gathering", d.kind = "state"
    PROVE  LockNewsShape(news, a, b, c, d, m, n)
<1> USE DEF LockNewsShape
<1> DEFINE two == <<a, b>>
<1>1. two \in Seq(Event) /\ Len(two) = 2 /\ two[1] = a /\ two[2] = b
  OBVIOUS
<1>2. news = two \o (IF m = 1 THEN <<c>> ELSE <<>>)
                 \o (IF n = 1 THEN <<d>> ELSE <<>>)
  BY DEF LockNewsAre
<1> HIDE DEF two
<1> DEFINE mid == two \o (IF m = 1 THEN <<c>> ELSE <<>>)
<1>3. news = mid \o (IF n = 1 THEN <<d>> ELSE <<>>)
  BY <1>2
<1>4. m = 1 => mid = two \o <<c>>
  OBVIOUS
<1>5. m = 0 => mid = two \o <<>>
  OBVIOUS
<1> HIDE DEF mid
<1>6. n = 1 => news = mid \o <<d>>
  BY <1>3
<1>7. n = 0 => news = mid \o <<>>
  BY <1>3
<1>8. m = 1 => /\ mid \in Seq(Event) /\ Len(mid) = 3
               /\ mid[1] = a /\ mid[2] = b /\ mid[3] = c
  <2>1. m = 1 => /\ mid \in Seq(Event) /\ Len(mid) = Len(two) + 1
                 /\ \A i \in 1 .. Len(two) : mid[i] = two[i]
                 /\ mid[Len(two) + 1] = c
    <3>1. two \in Seq(Event)
      BY <1>1
    <3> QED  BY <3>1, <1>4, JoinedOne
  <2>2. 1 \in 1 .. Len(two) /\ 2 \in 1 .. Len(two) /\ Len(two) + 1 = 3
    BY <1>1
  <2> QED  BY <2>1, <2>2, <1>1
<1>9. m = 0 => mid = two
  BY <1>1, <1>5, JoinedNone
<1>10. mid \in Seq(Event)
  BY <1>1, <1>8, <1>9
<1>11. n = 0 => news = mid
  BY <1>7, <1>10, JoinedNone
<1>12. n = 1 => /\ news \in Seq(Event) /\ Len(news) = Len(mid) + 1
                 /\ \A i \in 1 .. Len(mid) : news[i] = mid[i]
                 /\ news[Len(mid) + 1] = d
  BY <1>6, <1>10, JoinedOne
<1>13. news \in Seq(Event) /\ DOMAIN news = 1 .. Len(news)
  BY <1>10, <1>11, <1>12
<1>14. CASE m = 1 /\ n = 1
  <2>1. /\ Len(news) = 4
        /\ news[1] = a /\ news[2] = b /\ news[3] = c /\ news[4] = d
    <3>1. /\ 1 \in 1 .. Len(mid) /\ 2 \in 1 .. Len(mid)
          /\ 3 \in 1 .. Len(mid) /\ Len(mid) + 1 = 4
      <4>1. Len(mid) = 3
        BY <1>8, <1>14
      <4> QED  BY <4>1
    <3>2. /\ Len(news) = Len(mid) + 1 /\ news[Len(mid) + 1] = d
          /\ news[1] = mid[1] /\ news[2] = mid[2] /\ news[3] = mid[3]
      BY <3>1, <1>12, <1>14
    <3> QED  BY <3>1, <3>2, <1>8, <1>14
  <2> QED  BY <2>1, <1>13, <1>14
<1>15. CASE m = 1 /\ n = 0
  <2>1. Len(news) = 3 /\ news[1] = a /\ news[2] = b /\ news[3] = c
    BY <1>8, <1>11, <1>15
  <2> QED  BY <2>1, <1>13, <1>15
<1>16. CASE m = 0 /\ n = 1
  <2>1. Len(news) = 3 /\ news[1] = a /\ news[2] = b /\ news[3] = d
    <3>1. 1 \in 1 .. Len(mid) /\ 2 \in 1 .. Len(mid) /\ Len(mid) + 1 = 3
      <4>1. Len(mid) = 2
        BY <1>1, <1>9, <1>16
      <4> QED  BY <4>1
    <3>2. /\ Len(news) = Len(mid) + 1 /\ news[Len(mid) + 1] = d
          /\ news[1] = mid[1] /\ news[2] = mid[2]
      BY <3>1, <1>12, <1>16
    <3> QED  BY <3>1, <3>2, <1>1, <1>9, <1>16
  <2> QED  BY <2>1, <1>13, <1>16
<1>17. CASE m = 0 /\ n = 0
  <2>1. Len(news) = 2 /\ news[1] = a /\ news[2] = b
    BY <1>1, <1>9, <1>11, <1>17
  <2> QED  BY <2>1, <1>13, <1>17
<1> QED  BY <1>14, <1>15, <1>16, <1>17

\* What a peer's lock of its description adds to its queue.
LEMMA LockRaises ==
    ASSUME TypeInv, NEW p \in Peer, Lock(p)
    PROVE  Still \/ Raising(p)
<1> DEFINE next == IF p = "offerer" THEN "haveLocalOffer" ELSE "stable"
           first == gathering[p] = "new"
           starts == p = "answerer" /\ state[p] = "new"
           a == Ev("signaling", RtcSignaling[next])
           b == Ev("description", Text(p))
           c == Ev("gathering", 1)
           d == Ev("state", 1)
           news == <<a, b>> \o (IF first THEN <<c>> ELSE <<>>)
                            \o (IF starts THEN <<d>> ELSE <<>>)
<1>1. CASE signaling[p] # (IF p = "offerer" THEN "stable"
                                            ELSE "haveRemoteOffer")
  <2>1. Refuse(p) /\ pub' = pub
    BY <1>1 DEF Lock
  <2> QED  BY <2>1 DEF Still, Refuse, libVars
<1>2. CASE signaling[p] = (IF p = "offerer" THEN "stable"
                                            ELSE "haveRemoteOffer")
  <2>1. /\ signaling' = [signaling EXCEPT ![p] = next]
        /\ gathering' = [gathering EXCEPT
                            ![p] = IF first THEN "inProgress" ELSE @]
        /\ state' = [state EXCEPT ![p] = IF starts THEN "connecting" ELSE @]
        /\ UNCHANGED <<gathered, pub>>
    BY <1>2 DEF Lock
  <2>2. events' = [events EXCEPT ![p] = @ \o news]
    BY <1>2 DEF Lock, Raise, RtcGathering, RtcState
  <2>3. /\ signaling'[p] = next
        /\ gathering'[p] = IF first THEN "inProgress" ELSE gathering[p]
        /\ state'[p] = IF starts THEN "connecting" ELSE state[p]
        /\ \A q \in Peer : q # p => /\ state'[q] = state[q]
                                    /\ gathering'[q] = gathering[q]
                                    /\ signaling'[q] = signaling[q]
                                    /\ gathered'[q] = gathered[q]
    BY <2>1 DEF TypeInv, TypeOK
  <2>4. /\ a.kind = "signaling" /\ a.value \in {0, 1}
        /\ RawValue(SignalingNames, a.value) = next
    BY RawNames DEF Ev, RtcSignaling
  <2>5. a \in Event
    <3>1. RtcSignaling[next] \in Nat
      BY DEF RtcSignaling
    <3> QED  BY <3>1, EventTypes
  <2>6. b.kind = "description" /\ b.value.type = TypeOf(p)
    BY TextType DEF Ev, TypeInv
  <2>7. b \in Event
    BY TextType, EventTypes DEF TypeInv
  <2>8. c \in Event /\ d \in Event
    BY EventTypes
  <2>9. /\ c.kind = "gathering" /\ c.value = 1
        /\ d.kind = "state" /\ d.value = 1
    BY DEF Ev
  <2>10. Sound(p, a) /\ Sound(p, b) /\ Sound(p, c) /\ Sound(p, d)
    BY <2>4, <2>6, <2>9 DEF Sound
  <2> HIDE DEF a, b, c, d
  <2>11. /\ news \in Seq(Event)
         /\ Len(news) >= 2 /\ news[1] = a /\ news[2] = b
         /\ \A i \in DOMAIN news : \/ news[i] \in {a, b}
                                   \/ first /\ news[i] = c
                                   \/ starts /\ news[i] = d
         /\ \A i, j \in DOMAIN news : news[i].kind = news[j].kind => i = j
         /\ first => \E i \in DOMAIN news : news[i] = c
         /\ starts => \E i \in DOMAIN news : news[i] = d
    <3> DEFINE m == IF first THEN 1 ELSE 0
               n == IF starts THEN 1 ELSE 0
    <3>1. m \in {0, 1} /\ n \in {0, 1} /\ (m = 1 <=> first) /\ (n = 1 <=> starts)
      OBVIOUS
    <3>2. LockNewsAre(news, a, b, c, d, m, n)
      BY <3>1 DEF LockNewsAre
    <3>3. /\ a.kind = "signaling" /\ b.kind = "description"
          /\ c.kind = "gathering" /\ d.kind = "state"
      BY <2>4, <2>6, <2>9
    <3> HIDE DEF first, starts, news, next, m, n
    <3>4. LockNewsShape(news, a, b, c, d, m, n)
      BY <3>1, <3>2, <3>3, <2>5, <2>7, <2>8, LockNews
    <3> QED  BY <3>1, <3>4 DEF LockNewsShape
  <2> HIDE DEF news
  <2>12. 1 \in DOMAIN news /\ 2 \in DOMAIN news
    BY <2>11
  <2>13. Brings(news, "state", StateNames, state[p], state'[p])
    BY <2>3, <2>4, <2>6, <2>9, <2>11, RawNames DEF Brings
  <2>14. Brings(news, "gathering", GatheringNames, gathering[p], gathering'[p])
    BY <2>3, <2>4, <2>6, <2>9, <2>11, RawNames DEF Brings
  <2>15. Brings(news, "signaling", SignalingNames, signaling[p], signaling'[p])
    BY <2>3, <2>4, <2>11, <2>12 DEF Brings
  <2>16. /\ \A i \in DOMAIN news : Sound(p, news[i])
         /\ \A i \in DOMAIN news : news[i].kind # "candidate"
         /\ ~ \E i \in DOMAIN news : /\ news[i].kind = "gathering"
                                     /\ news[i].value = 2
         /\ \E i \in DOMAIN news : news[i].kind = "description"
    BY <2>4, <2>6, <2>9, <2>10, <2>11, <2>12
  <2>17. /\ pub' = pub /\ gathered'[p] = gathered[p]
         /\ gathering[p] = "complete" => gathering'[p] = "complete"
    BY <2>1, <2>3
  <2> HIDE DEF first, starts, next
  <2> QED  BY <2>2, <2>3, <2>11, <2>13, <2>14, <2>15, <2>16, <2>17 DEF Raising
<1> QED  BY <1>1, <1>2

LEMMA AnnouncementTypes ==
    ASSUME NEW fresh \in SUBSET Section, NEW news \in Announcements(fresh)
    PROVE  /\ news \in Seq(Event)
           /\ \A i \in DOMAIN news : \E s \in fresh : news[i] = Ev("track", s)
           /\ \A s \in fresh : \E i \in DOMAIN news : news[i] = Ev("track", s)
<1>1. IsFiniteSet(fresh)
  <2>1. Streams \in SUBSET Streams /\ IsFiniteSet(Streams)
    BY IdsAssumption
  <2>2. IsFiniteSet(Track)
    BY IdsAssumption, FS_Product DEF Track
  <2>3. IsFiniteSet(Styles)
    <3> DEFINE few == {"unified"} \cup {"planB"} \cup {"both"}
                      \cup {"unifiedStreamOnly"} \cup {"planBStreamOnly"}
    <3>1. IsFiniteSet(few)
      BY FS_Singleton, FS_Union
    <3>2. Styles \subseteq few
      BY StylesAssumption
    <3> QED  BY <3>1, <3>2, FS_Subset
  <2>4. IsFiniteSet(Section)
    BY <2>2, <2>3, FS_Product DEF Section
  <2> QED  BY <2>4, FS_Subset
<1>2. Cardinality(fresh) \in Nat
  BY <1>1, FS_CardinalityType
<1> DEFINE said == {Ev("track", s) : s \in fresh}
<1>3. said \subseteq Event
  BY EventTypes
<1>4. /\ news \in [1 .. Cardinality(fresh) -> said]
      /\ \A s \in fresh : \E i \in DOMAIN news : news[i].value = s
  BY DEF Announcements
<1>5. \A i \in DOMAIN news : \E s \in fresh : news[i] = Ev("track", s)
  BY <1>4
<1>6. ASSUME NEW s \in fresh
      PROVE  \E i \in DOMAIN news : news[i] = Ev("track", s)
  <2>1. PICK i \in DOMAIN news : news[i].value = s
    BY <1>4
  <2>2. PICK t \in fresh : news[i] = Ev("track", t)
    BY <1>5
  <2>3. t = s
    BY <2>1, <2>2 DEF Ev
  <2> QED  BY <2>2, <2>3
<1> HIDE DEF said
<1>7. news \in Seq(Event)
  BY <1>2, <1>3, <1>4
<1> QED  BY <1>5, <1>6, <1>7

\* The message at the head of a queue.
LEMMA HeadTypes ==
    ASSUME TypeOK, NEW p \in Peer, wire[p] # <<>>
    PROVE  /\ Head(wire[p]) \in Message
           /\ Tail(wire[p]) \in Seq(Message)
<1>1. wire[p] \in Seq(Message)
  BY DEF TypeOK
<1> QED  BY <1>1, Shortened

\* The answerer's library tells of the offer and of each new section.
LEMMA OfferRaises ==
    ASSUME TypeInv, SetRemoteOffer
    PROVE  \/ Still
           \/ /\ Raising("answerer")
              /\ signaling["answerer"] = "stable"
<1> DEFINE p == "answerer"
           text == Head(wire[p]).value
           fresh == text.sections \ announced
           a == Ev("signaling", 2)
<1>0. p \in Peer
  BY DEF Peer
<1>1. CASE signaling[p] # "stable"
  <2>1. Refuse(p) /\ pub' = pub
    BY <1>1 DEF SetRemoteOffer
  <2> QED  BY <2>1 DEF Still, Refuse, libVars
<1>2. CASE signaling[p] = "stable"
  <2>1. /\ signaling' = [signaling EXCEPT ![p] = "haveRemoteOffer"]
        /\ UNCHANGED <<gathered, pub, state, gathering>>
        /\ wire[p] # <<>> /\ Head(wire[p]).kind = "description"
    BY <1>2 DEF SetRemoteOffer, Arrives
  <2>2. PICK ann \in Announcements(fresh) :
            events' = [events EXCEPT ![p] = @ \o (<<a>> \o ann)]
    BY <1>2 DEF SetRemoteOffer, Raise, RtcSignaling
  <2>3. text \in Description
    BY <2>1, <1>0, HeadTypes, MessageKinds DEF TypeInv
  <2>4. fresh \in SUBSET Section
    BY <2>3 DEF Description
  <2> HIDE DEF fresh
  <2>5. /\ ann \in Seq(Event)
        /\ \A i \in DOMAIN ann : \E s \in fresh : ann[i] = Ev("track", s)
    BY <2>4, AnnouncementTypes
  <2>6. a \in Event /\ a.kind = "signaling" /\ a.value = 2
    <3>1. a \in Event
      BY EventTypes
    <3> QED  BY <3>1 DEF Ev
  <2>7. \A i \in DOMAIN ann : ann[i].kind = "track"
    BY <2>5 DEF Ev
  <2>8. Sound(p, a) /\ \A i \in DOMAIN ann : Sound(p, ann[i])
    BY <2>6, <2>7 DEF Sound
  <2> HIDE DEF a
  <2> DEFINE one == <<a>>
             news == one \o ann
  <2>9. one \in Seq(Event) /\ Len(one) = 1 /\ one[1] = a
    BY <2>6
  <2>10. events' = [events EXCEPT ![p] = @ \o news]
    BY <2>2
  <2> HIDE DEF one
  <2>11. /\ news \in Seq(Event)
         /\ Len(news) = 1 + Len(ann) /\ Len(ann) \in Nat
         /\ DOMAIN news = 1 .. Len(news) /\ DOMAIN ann = 1 .. Len(ann)
         /\ \A i \in 1 .. 1 : news[i] = one[i]
         /\ \A i \in 1 .. Len(ann) : news[1 + i] = ann[i]
    BY <2>5, <2>9, Joined
  <2> HIDE DEF news
  <2>12. 1 \in DOMAIN news /\ news[1] = a
    BY <2>9, <2>11
  <2>13. ASSUME NEW i \in DOMAIN news, i # 1
         PROVE  news[i].kind = "track" /\ Sound(p, news[i])
    <3>1. i - 1 \in DOMAIN ann /\ 1 + (i - 1) = i
      BY <2>11, <2>13
    <3>2. news[i] = ann[i - 1]
      BY <3>1, <2>11
    <3> QED  BY <3>1, <3>2, <2>7, <2>8
  <2>14. /\ signaling'[p] = "haveRemoteOffer"
         /\ \A q \in Peer : q # p => signaling'[q] = signaling[q]
    BY <2>1, <1>0 DEF TypeInv, TypeOK
  <2>15. Brings(news, "state", StateNames, state[p], state'[p])
    BY <2>1, <2>6, <2>12, <2>13 DEF Brings
  <2>16. Brings(news, "gathering", GatheringNames, gathering[p], gathering'[p])
    BY <2>1, <2>6, <2>12, <2>13 DEF Brings
  <2>17. Brings(news, "signaling", SignalingNames, signaling[p], signaling'[p])
    BY <2>14, <2>6, <2>12, <2>13, RawNames DEF Brings
  <2>18. \A i \in DOMAIN news : /\ Sound(p, news[i])
                               /\ news[i].kind \in {"signaling", "track"}
    BY <2>6, <2>8, <2>12, <2>13
  <2>19. Raising(p)
    BY <2>1, <2>10, <2>11, <2>14, <2>15, <2>16, <2>17, <2>18 DEF Raising
  <2> QED  BY <2>19, <1>2
<1> QED  BY <1>1, <1>2

LEMMA AnswerRaises ==
    ASSUME TypeInv, SetRemoteAnswer
    PROVE  Still \/ Raising("offerer")
<1> DEFINE p == "offerer"
           starts == state[p] = "new"
           a == Ev("signaling", 0)
           d == Ev("state", 1)
           one == <<a>>
           news == one \o (IF starts THEN <<d>> ELSE <<>>)
<1>0. p \in Peer
  BY DEF Peer
<1>1. CASE signaling[p] # "haveLocalOffer"
  <2>1. Refuse(p) /\ pub' = pub
    BY <1>1 DEF SetRemoteAnswer
  <2> QED  BY <2>1 DEF Still, Refuse, libVars
<1>2. CASE signaling[p] = "haveLocalOffer"
  <2>1. /\ signaling' = [signaling EXCEPT ![p] = "stable"]
        /\ state' = [state EXCEPT ![p] = IF @ = "new" THEN "connecting" ELSE @]
        /\ UNCHANGED <<gathered, pub, gathering>>
    BY <1>2 DEF SetRemoteAnswer
  <2>2. events' = [events EXCEPT ![p] = @ \o news]
    BY <1>2 DEF SetRemoteAnswer, Raise, RtcSignaling, RtcState
  <2>3. /\ signaling'[p] = "stable"
        /\ state'[p] = IF starts THEN "connecting" ELSE state[p]
        /\ \A q \in Peer : q # p => /\ signaling'[q] = signaling[q]
                                    /\ state'[q] = state[q]
    BY <2>1, <1>0 DEF TypeInv, TypeOK
  <2>4. a \in Event /\ d \in Event
    BY EventTypes
  <2>5. /\ a.kind = "signaling" /\ a.value = 0
        /\ d.kind = "state" /\ d.value = 1
    BY DEF Ev
  <2>6. Sound(p, a) /\ Sound(p, d)
    BY <2>5 DEF Sound
  <2>7. one \in Seq(Event) /\ Len(one) = 1 /\ one[1] = a
    BY <2>4
  <2> HIDE DEF one, a, d
  <2>8. /\ news \in Seq(Event) /\ 1 \in DOMAIN news /\ news[1] = a
        /\ starts => 2 \in DOMAIN news /\ news[2] = d
        /\ \A i \in DOMAIN news : i # 1 => i = 2 /\ starts
    <3>1. CASE starts
      <4>1. news = one \o <<d>>
        BY <3>1
      <4> HIDE DEF news
      <4>2. /\ news \in Seq(Event) /\ Len(news) = Len(one) + 1
            /\ \A i \in 1 .. Len(one) : news[i] = one[i]
            /\ news[Len(one) + 1] = d
        <5>1. one \in Seq(Event) /\ d \in Event
          BY <2>4, <2>7
        <5>2. /\ one \o <<d>> \in Seq(Event)
              /\ Len(one \o <<d>>) = Len(one) + 1
              /\ \A i \in 1 .. Len(one) : (one \o <<d>>)[i] = one[i]
              /\ (one \o <<d>>)[Len(one) + 1] = d
          BY <5>1, JoinedOne
        <5> QED  BY <4>1, <5>2
      <4>3. 1 \in 1 .. Len(one) /\ Len(one) + 1 = 2
        BY <2>7
      <4>4. DOMAIN news = 1 .. 2
        BY <4>2, <4>3
      <4> QED  BY <3>1, <4>2, <4>3, <4>4, <2>7
    <3>2. CASE ~starts
      <4>1. news = one \o <<>>
        BY <3>2
      <4>2. news = one
        BY <4>1, <2>7, JoinedNone
      <4> HIDE DEF news
      <4> QED  BY <3>2, <4>2, <2>7
    <3> QED  BY <3>1, <3>2
  <2> HIDE DEF news
  <2>9. Brings(news, "state", StateNames, state[p], state'[p])
    BY <2>3, <2>5, <2>8, RawNames DEF Brings
  <2>10. Brings(news, "gathering", GatheringNames, gathering[p], gathering'[p])
    BY <2>1, <2>5, <2>8 DEF Brings
  <2>11. Brings(news, "signaling", SignalingNames, signaling[p], signaling'[p])
    BY <2>3, <2>5, <2>8, RawNames DEF Brings
  <2>12. \A i \in DOMAIN news : /\ Sound(p, news[i])
                               /\ news[i].kind \in {"signaling", "state"}
    BY <2>5, <2>6, <2>8
  <2>13. Raising(p)
    <3> HIDE DEF starts
    <3> QED  BY <2>1, <2>2, <2>3, <2>8, <2>9, <2>10, <2>11, <2>12 DEF Raising
  <2> QED  BY <2>13
<1> QED  BY <1>1, <1>2

\* What a callback does to the published fields.
LEMMA PublishFields ==
    ASSUME NEW p \in Peer, NEW view \in Published, NEW e \in Event, Sound(p, e)
    PROVE  LET now == Publish(view, e) IN
           /\ now \in Published
           /\ now.state = IF e.kind = "state"
                          THEN RawValue(StateNames, e.value) ELSE view.state
           /\ now.gathering = IF e.kind = "gathering"
                              THEN RawValue(GatheringNames, e.value)
                              ELSE view.gathering
           /\ now.signaling = IF e.kind = "signaling"
                              THEN RawValue(SignalingNames, e.value)
                              ELSE view.signaling
           /\ now.description = IF e.kind = "description"
                                THEN e.value ELSE view.description
           /\ now.candidates = IF e.kind = "candidate"
                               THEN Append(view.candidates, e.value)
                               ELSE view.candidates
<1>1. CASE e.kind = "candidate"
  <2>1. e.value \in Candidate
    BY <1>1 DEF Sound
  <2>2. Append(view.candidates, e.value) \in Seq(Candidate)
    BY <2>1 DEF Published
  <2>3. Publish(view, e) = [view EXCEPT !.candidates = Append(@, e.value)]
    BY <1>1 DEF Publish
  <2> DEFINE longer == Append(view.candidates, e.value)
  <2>4. Publish(view, e) = [view EXCEPT !.candidates = longer]
    BY <2>3
  <2> HIDE DEF longer
  <2>5. longer \in Seq(Candidate)
    BY <2>2 DEF longer
  <2>6. [view EXCEPT !.candidates = longer] \in Published
    BY <2>5 DEF Published
  <2> QED  BY <1>1, <2>4, <2>6 DEF longer, Published
<1>2. CASE e.kind = "state"
  <2>1. Publish(view, e) =
            [view EXCEPT !.state = RawValue(StateNames, e.value)]
    BY <1>2 DEF Publish, PublishState
  <2>2. RawValue(StateNames, e.value) \in {"new", "connecting", "connected",
                                          "failed"}
    BY <1>2, RawNames DEF Sound
  <2> QED  BY <1>2, <2>1, <2>2 DEF Published
<1>3. CASE e.kind = "gathering"
  <2>1. Publish(view, e) =
            [view EXCEPT !.gathering = RawValue(GatheringNames, e.value)]
    BY <1>3 DEF Publish, PublishState
  <2>2. RawValue(GatheringNames, e.value) \in {"new", "inProgress", "complete"}
    BY <1>3, RawNames DEF Sound
  <2> QED  BY <1>3, <2>1, <2>2 DEF Published
<1>4. CASE e.kind = "signaling"
  <2>1. Publish(view, e) =
            [view EXCEPT !.signaling = RawValue(SignalingNames, e.value)]
    BY <1>4 DEF Publish, PublishState
  <2>2. RawValue(SignalingNames, e.value) \in {"stable", "haveLocalOffer",
                                              "haveRemoteOffer"}
    BY <1>4, RawNames DEF Sound
  <2> QED  BY <1>4, <2>1, <2>2 DEF Published
<1>5. CASE e.kind = "description"
  <2>1. Publish(view, e) = [view EXCEPT !.description = e.value]
    BY <1>5 DEF Publish, PublishState
  <2>2. e.value \in Description
    BY <1>5, EventKinds
  <2> QED  BY <1>5, <2>1, <2>2 DEF Published
<1>6. CASE e.kind = "track"
  <2>1. Publish(view, e) = view
    BY <1>6 DEF Publish, PublishState
  <2> QED  BY <1>6, <2>1
<1> QED  BY <1>1, <1>2, <1>3, <1>4, <1>5, <1>6, EventKinds

\* Every step is of one of three kinds.
LEMMA StepKinds ==
    ASSUME TypeInv, [Next]_vars
    PROVE  Still \/ \E p \in Peer : Raising(p) \/ CbRun(p)
<1>1. CASE UNCHANGED vars
  BY <1>1 DEF vars, libVars, Still
<1>2. CASE \E p \in Peer : \/ LibGathers(p) \/ LibGatheringEnds(p)
                           \/ LibConnects(p) \/ LibFails(p)
  BY <1>2, GathersRaises, LibraryRaises
<1>3. CASE \E p \in Peer : CbRun(p)
  BY <1>3
<1>4. CASE \E p \in Peer : Lock(p)
  BY <1>4, LockRaises
<1>5. CASE SetRemoteOffer \/ SetRemoteAnswer
  BY <1>5, OfferRaises, AnswerRaises DEF Peer
<1>6. CASE \E p \in Peer : \/ Measure(p) \/ Create(p) \/ SendCandidate(p)
                           \/ Connected(p) \/ TimesOut(p)
  BY <1>6 DEF Measure, Create, SendCandidate, Connected, TimesOut, libVars, Still
<1>7. CASE \E p \in Peer : AddRemoteCandidate(p)
  BY <1>7 DEF AddRemoteCandidate, Still
<1>8. CASE AddTrack
  BY <1>8 DEF AddTrack, Still
<1> QED  BY <1>1, <1>2, <1>3, <1>4, <1>5, <1>6, <1>7, <1>8 DEF Next, AppStep

----------------------------------------------------------------------------
\* What is published, and what is still to be published, is the truth.
Truthful ==
    \A p \in Peer :
        /\ Tells(events[p], "state", StateNames, pub[p].state, state[p])
        /\ Tells(events[p], "gathering", GatheringNames, pub[p].gathering,
                 gathering[p])
        /\ Tells(events[p], "signaling", SignalingNames, pub[p].signaling,
                 signaling[p])
        /\ Lists(events[p], pub[p].candidates, gathered[p])

\* `complete' comes after every candidate and after a description.
Completes(e) == e.kind = "gathering" /\ e.value = 2

\* s is a queue, shown and own the gathering states published and real,
\* text the type of the published description and type what it must be.
InOrder(s, shown, own, text, type) ==
    /\ \A i \in DOMAIN s : Completes(s[i]) =>
        /\ own = "complete"
        /\ \A j \in DOMAIN s : s[j].kind = "candidate" => j < i
        /\ \/ text = type
           \/ \E j \in DOMAIN s : j < i /\ s[j].kind = "description"
    /\ shown = "complete" =>
        /\ own = "complete"
        /\ \A j \in DOMAIN s : s[j].kind # "candidate"
        /\ text = type
    /\ own # "new" =>
        \/ text = type
        \/ \E j \in DOMAIN s : s[j].kind = "description"

Ordered ==
    \A p \in Peer : InOrder(events[p], pub[p].gathering, gathering[p],
                            pub[p].description.type, TypeOf(p))

LEMMA QueueTypes ==
    ASSUME TypeInv, NEW p \in Peer
    PROVE  /\ events[p] \in Seq(Event)
           /\ \A i \in DOMAIN events[p] : /\ events[p][i] \in Event
                                          /\ Sound(p, events[p][i])
           /\ pub[p] \in Published
           /\ gathered[p] \in Nat
<1>1. events[p] \in Seq(Event) /\ pub[p] \in Published
  BY DEF TypeInv, TypeOK
<1>2. \A i \in DOMAIN events[p] : events[p][i] \in Event
  BY <1>1
<1>3. gathered[p] \in Candidate \cup {0}
  BY DEF TypeInv, TypeOK
<1> QED  BY <1>1, <1>2, <1>3, CandidateNumbers DEF TypeInv, Numbered

\* The queues keep their types.
LEMMA QueuesTyped ==
    ASSUME TypeInv, Still \/ \E p \in Peer : Raising(p) \/ CbRun(p)
    PROVE  /\ events' \in [Peer -> Seq(Event)]
           /\ pub' \in [Peer -> Published]
           /\ Numbered'
<1>1. /\ events \in [Peer -> Seq(Event)] /\ pub \in [Peer -> Published]
      /\ Numbered
  BY DEF TypeInv, TypeOK
<1>2. CASE Still
  BY <1>1, <1>2 DEF Still, Numbered
<1>3. ASSUME NEW p \in Peer, Raising(p)
      PROVE  /\ events' \in [Peer -> Seq(Event)]
             /\ pub' \in [Peer -> Published]
             /\ Numbered'
  <2>1. PICK news \in Seq(Event) :
            /\ events' = [events EXCEPT ![p] = @ \o news]
            /\ \A i \in DOMAIN news : Sound(p, news[i])
    BY <1>3 DEF Raising
  <2> DEFINE s == events[p]
             t == s \o news
  <2>2. s \in Seq(Event)
    BY <1>1
  <2>3. events'[p] = t /\ \A q \in Peer : q # p => events'[q] = events[q]
    BY <1>1, <2>1
  <2> HIDE DEF s
  <2>4. /\ t \in Seq(Event)
        /\ \A i \in 1 .. Len(s) : t[i] = s[i]
        /\ \A i \in 1 .. Len(news) : t[Len(s) + i] = news[i]
        /\ \A i \in 1 .. Len(t) : i \in 1 .. Len(s) \/ i - Len(s) \in 1 .. Len(news)
    BY <2>2, Joined
  <2>5. events' = [events EXCEPT ![p] = t]
    BY <2>1 DEF s
  <2> HIDE DEF t
  <2>6. events' \in [Peer -> Seq(Event)]
    BY <1>1, <2>4, <2>5
  <2>7. \A i \in DOMAIN s : Sound(p, s[i])
    BY <1>1 DEF Numbered, s
  <2>8. /\ DOMAIN s = 1 .. Len(s) /\ DOMAIN t = 1 .. Len(t) /\ Len(s) \in Nat
        /\ DOMAIN news = 1 .. Len(news)
    BY <2>2, <2>4
  <2>9. ASSUME NEW i \in DOMAIN t
        PROVE  Sound(p, t[i])
    <3>1. CASE i \in 1 .. Len(s)
      BY <3>1, <2>4, <2>7, <2>8
    <3>2. CASE i - Len(s) \in 1 .. Len(news)
      <4>1. t[Len(s) + (i - Len(s))] = news[i - Len(s)]
        BY <3>2, <2>4
      <4>2. Len(s) + (i - Len(s)) = i
        BY <2>8
      <4>3. Sound(p, news[i - Len(s)])
        BY <3>2, <2>1, <2>8
      <4> QED  BY <4>1, <4>2, <4>3
    <3> QED  BY <3>1, <3>2, <2>4, <2>8
  <2>10. Numbered'
    <3> SUFFICES ASSUME NEW q \in Peer, NEW i \in DOMAIN events'[q]
                 PROVE  Sound(q, events'[q][i])
      BY DEF Numbered
    <3>1. CASE q = p
      BY <3>1, <2>3, <2>9
    <3>2. CASE q # p
      BY <3>2, <2>3, <1>1 DEF Numbered
    <3> QED  BY <3>1, <3>2
  <2> QED  BY <1>1, <1>3, <2>6, <2>10 DEF Raising
<1>4. ASSUME NEW p \in Peer, CbRun(p)
      PROVE  /\ events' \in [Peer -> Seq(Event)]
             /\ pub' \in [Peer -> Published]
             /\ Numbered'
  <2> DEFINE s == events[p]
             t == Tail(s)
  <2>1. /\ s # <<>> /\ events' = [events EXCEPT ![p] = t]
        /\ pub' = [pub EXCEPT ![p] = Publish(@, Head(s))]
    BY <1>4 DEF CbRun
  <2>2. s \in Seq(Event)
    BY <1>1
  <2>3. events'[p] = t /\ \A q \in Peer : q # p => events'[q] = events[q]
    BY <1>1, <2>1
  <2>4. \A i \in DOMAIN s : Sound(p, s[i])
    BY <1>1 DEF Numbered
  <2> HIDE DEF s
  <2>5. /\ t \in Seq(Event) /\ Len(s) \in Nat \ {0} /\ Len(t) = Len(s) - 1
        /\ Head(s) = s[1] /\ s[1] \in Event
        /\ \A i \in 1 .. Len(s) - 1 : t[i] = s[i + 1]
    BY <2>1, <2>2, Shortened
  <2> HIDE DEF t
  <2>6. DOMAIN s = 1 .. Len(s) /\ DOMAIN t = 1 .. Len(t)
    BY <2>2, <2>5
  <2>7. \A i \in DOMAIN t : i + 1 \in DOMAIN s /\ t[i] = s[i + 1]
    BY <2>5, <2>6
  <2>8. events' \in [Peer -> Seq(Event)]
    BY <1>1, <2>1, <2>5
  <2>9. Sound(p, Head(s)) /\ Head(s) \in Event
    BY <2>4, <2>5, <2>6
  <2>10. Publish(pub[p], Head(s)) \in Published
    BY <1>1, <2>9, PublishFields
  <2>11. pub' \in [Peer -> Published]
    BY <1>1, <2>1, <2>10
  <2>12. Numbered'
    <3> SUFFICES ASSUME NEW q \in Peer, NEW i \in DOMAIN events'[q]
                 PROVE  Sound(q, events'[q][i])
      BY DEF Numbered
    <3>1. CASE q = p
      BY <3>1, <2>3, <2>4, <2>7
    <3>2. CASE q # p
      BY <3>2, <2>3, <1>1 DEF Numbered
    <3> QED  BY <3>1, <3>2
  <2> QED  BY <2>8, <2>11, <2>12
<1> QED  BY <1>2, <1>3, <1>4

LEMMA TruthfulRaised ==
    ASSUME TypeInv, Truthful, NEW p \in Peer, Raising(p)
    PROVE  Truthful'
<1>1. PICK news \in Seq(Event) :
        /\ events' = [events EXCEPT ![p] = @ \o news]
        /\ Brings(news, "state", StateNames, state[p], state'[p])
        /\ Brings(news, "gathering", GatheringNames, gathering[p], gathering'[p])
        /\ Brings(news, "signaling", SignalingNames, signaling[p], signaling'[p])
        /\ \/ /\ gathered'[p] = gathered[p]
              /\ \A i \in DOMAIN news : news[i].kind # "candidate"
           \/ /\ gathered'[p] = gathered[p] + 1
              /\ news = <<Ev("candidate", gathered[p] + 1)>>
  BY DEF Raising
<1> DEFINE s == events[p]
<1>2. /\ events'[p] = s \o news
      /\ \A q \in Peer : q # p => events'[q] = events[q]
  BY <1>1 DEF TypeInv, TypeOK
<1>3. s \in Seq(Event) /\ gathered[p] \in Nat
  BY QueueTypes
<1>4. /\ pub' = pub
      /\ \A q \in Peer : q # p => /\ state'[q] = state[q]
                                  /\ gathering'[q] = gathering[q]
                                  /\ signaling'[q] = signaling[q]
                                  /\ gathered'[q] = gathered[q]
  BY DEF Raising
<1>5. /\ Tells(s, "state", StateNames, pub[p].state, state[p])
      /\ Tells(s, "gathering", GatheringNames, pub[p].gathering, gathering[p])
      /\ Tells(s, "signaling", SignalingNames, pub[p].signaling, signaling[p])
      /\ Lists(s, pub[p].candidates, gathered[p])
  BY DEF Truthful
<1> HIDE DEF s
<1>6. /\ Tells(s \o news, "state", StateNames, pub[p].state, state'[p])
      /\ Tells(s \o news, "gathering", GatheringNames, pub[p].gathering,
               gathering'[p])
      /\ Tells(s \o news, "signaling", SignalingNames, pub[p].signaling,
               signaling'[p])
  BY <1>1, <1>3, <1>5, RaisedTells
<1>7. Lists(s \o news, pub[p].candidates, gathered'[p])
  <2>1. CASE /\ gathered'[p] = gathered[p]
             /\ \A i \in DOMAIN news : news[i].kind # "candidate"
    BY <2>1, <1>3, <1>5, RaisedLists
  <2>2. CASE /\ gathered'[p] = gathered[p] + 1
             /\ news = <<Ev("candidate", gathered[p] + 1)>>
    <3>1. Lists(s \o news, pub[p].candidates, gathered[p] + 1)
      <4> DEFINE total == gathered[p]
      <4>1. total \in Nat /\ Lists(s, pub[p].candidates, total)
            /\ news = <<Ev("candidate", total + 1)>>
        BY <2>2, <1>3, <1>5
      <4> HIDE DEF total
      <4>2. Lists(s \o news, pub[p].candidates, total + 1)
        BY <4>1, <1>3, GatheredLists
      <4> QED  BY <4>2 DEF total
    <3> QED  BY <2>2, <3>1
  <2> QED  BY <2>1, <2>2, <1>1
<1> QED  BY <1>2, <1>4, <1>6, <1>7 DEF Truthful

LEMMA TruthfulRan ==
    ASSUME TypeInv, Truthful, NEW p \in Peer, CbRun(p)
    PROVE  Truthful'
<1> DEFINE s == events[p]
           e == Head(s)
<1>1. /\ s # <<>> /\ events' = [events EXCEPT ![p] = Tail(s)]
      /\ pub' = [pub EXCEPT ![p] = Publish(@, e)]
      /\ UNCHANGED <<state, gathering, signaling, gathered>>
  BY DEF CbRun
<1>2. /\ events'[p] = Tail(s) /\ pub'[p] = Publish(pub[p], e)
      /\ \A q \in Peer : q # p => events'[q] = events[q] /\ pub'[q] = pub[q]
  BY <1>1 DEF TypeInv, TypeOK
<1>3. /\ s \in Seq(Event) /\ gathered[p] \in Nat /\ pub[p] \in Published
      /\ \A i \in DOMAIN s : Sound(p, s[i])
  BY QueueTypes
<1>4. /\ Tells(s, "state", StateNames, pub[p].state, state[p])
      /\ Tells(s, "gathering", GatheringNames, pub[p].gathering, gathering[p])
      /\ Tells(s, "signaling", SignalingNames, pub[p].signaling, signaling[p])
      /\ Lists(s, pub[p].candidates, gathered[p])
  BY DEF Truthful
<1> HIDE DEF s
<1>5. e \in Event /\ Sound(p, e)
  <2>1. Len(s) \in Nat \ {0} /\ e = s[1] /\ s[1] \in Event
    BY <1>1, <1>3, Shortened
  <2> QED  BY <2>1, <1>3
<1>6. /\ pub'[p].state = IF e.kind = "state"
                         THEN RawValue(StateNames, e.value) ELSE pub[p].state
      /\ pub'[p].gathering = IF e.kind = "gathering"
                             THEN RawValue(GatheringNames, e.value)
                             ELSE pub[p].gathering
      /\ pub'[p].signaling = IF e.kind = "signaling"
                             THEN RawValue(SignalingNames, e.value)
                             ELSE pub[p].signaling
      /\ pub'[p].candidates = IF e.kind = "candidate"
                              THEN Append(pub[p].candidates, e.value)
                              ELSE pub[p].candidates
  BY <1>2, <1>3, <1>5, PublishFields
<1>7. Tells(Tail(s), "state", StateNames, pub'[p].state, state[p])
  BY <1>1, <1>3, <1>4, <1>6, RanTells
<1>8. Tells(Tail(s), "gathering", GatheringNames, pub'[p].gathering,
            gathering[p])
  BY <1>1, <1>3, <1>4, <1>6, RanTells
<1>9. Tells(Tail(s), "signaling", SignalingNames, pub'[p].signaling,
            signaling[p])
  BY <1>1, <1>3, <1>4, <1>6, RanTells
<1>10. Lists(Tail(s), pub'[p].candidates, gathered[p])
  BY <1>1, <1>3, <1>4, <1>6, RanLists
<1> QED  BY <1>1, <1>2, <1>7, <1>8, <1>9, <1>10 DEF Truthful

LEMMA TruthfulStep ==
    ASSUME TypeInv, Truthful, [Next]_vars
    PROVE  Truthful'
<1>1. CASE Still
  BY <1>1 DEF Still, Truthful
<1>2. CASE \E p \in Peer : Raising(p)
  BY <1>2, TruthfulRaised
<1>3. CASE \E p \in Peer : CbRun(p)
  BY <1>3, TruthfulRan
<1> QED  BY <1>1, <1>2, <1>3, StepKinds

LEMMA OrderedRaised ==
    ASSUME TypeInv, Ordered, NEW p \in Peer, Raising(p)
    PROVE  Ordered'
<1>1. PICK news \in Seq(Event) :
        /\ events' = [events EXCEPT ![p] = @ \o news]
        /\ Brings(news, "gathering", GatheringNames, gathering[p], gathering'[p])
        /\ \/ \A i \in DOMAIN news : news[i].kind # "candidate"
           \/ /\ gathering[p] = "inProgress"
              /\ news = <<Ev("candidate", gathered[p] + 1)>>
        /\ (\E i \in DOMAIN news : Completes(news[i]))
               => gathering[p] = "inProgress"
        /\ gathering[p] = "new" /\ gathering'[p] # "new" =>
               \E i \in DOMAIN news : news[i].kind = "description"
  BY DEF Raising, Completes
<1> DEFINE s == events[p]
           t == s \o news
           seen == pub[p].description.type = TypeOf(p)
<1>2. /\ events'[p] = t
      /\ \A q \in Peer : q # p => events'[q] = events[q]
  BY <1>1 DEF TypeInv, TypeOK
<1>3. /\ pub' = pub
      /\ \A q \in Peer : q # p => gathering'[q] = gathering[q]
      /\ gathering[p] = "complete" => gathering'[p] = "complete"
  BY DEF Raising
<1>4. s \in Seq(Event)
  BY QueueTypes
<1>5. /\ \A i \in DOMAIN s : Completes(s[i]) =>
            /\ gathering[p] = "complete"
            /\ \A j \in DOMAIN s : s[j].kind = "candidate" => j < i
            /\ \/ seen
               \/ \E j \in DOMAIN s : j < i /\ s[j].kind = "description"
      /\ pub[p].gathering = "complete" =>
            /\ gathering[p] = "complete"
            /\ \A j \in DOMAIN s : s[j].kind # "candidate"
            /\ seen
      /\ gathering[p] # "new" =>
            \/ seen
            \/ \E j \in DOMAIN s : s[j].kind = "description"
  BY DEF Ordered, InOrder
<1> HIDE DEF s, seen
<1>6. /\ \A i \in 1 .. Len(s) : t[i] = s[i]
      /\ \A i \in 1 .. Len(news) : t[Len(s) + i] = news[i]
      /\ \A i \in 1 .. Len(t) : i \in 1 .. Len(s) \/ i - Len(s) \in 1 .. Len(news)
      /\ Len(t) = Len(s) + Len(news) /\ Len(s) \in Nat /\ Len(news) \in Nat
      /\ DOMAIN s = 1 .. Len(s) /\ DOMAIN t = 1 .. Len(t)
      /\ DOMAIN news = 1 .. Len(news)
  BY <1>4, Joined
<1> HIDE DEF t
<1>7. \A i \in DOMAIN s : i \in DOMAIN t /\ t[i] = s[i]
  BY <1>6
<1>8. ASSUME NEW i \in DOMAIN t, i \notin DOMAIN s
      PROVE  /\ i - Len(s) \in DOMAIN news /\ t[i] = news[i - Len(s)]
             /\ i > Len(s)
  <2>1. i - Len(s) \in 1 .. Len(news) /\ Len(s) + (i - Len(s)) = i
    BY <1>6, <1>8
  <2>2. t[Len(s) + (i - Len(s))] = news[i - Len(s)]
    BY <2>1, <1>6
  <2> QED  BY <2>1, <2>2, <1>6
<1>9. ASSUME NEW i \in DOMAIN news
      PROVE  Len(s) + i \in DOMAIN t /\ t[Len(s) + i] = news[i]
  BY <1>6, <1>9
<1>11. gathering'[p] # "new" =>
            \/ seen
            \/ \E j \in DOMAIN t : t[j].kind = "description"
  <2>1. CASE gathering[p] = "new"
    BY <2>1, <1>1, <1>9
  <2>2. CASE gathering[p] # "new"
    BY <2>2, <1>5, <1>7
  <2> QED  BY <2>1, <2>2
<1>12. gathering[p] = "complete" => \A i \in DOMAIN news :
            news[i].kind # "candidate" /\ ~Completes(news[i])
  BY <1>1
<1>13. pub[p].gathering = "complete" =>
            /\ gathering'[p] = "complete"
            /\ \A j \in DOMAIN t : t[j].kind # "candidate"
            /\ seen
  <2> SUFFICES ASSUME pub[p].gathering = "complete"
               PROVE  \A j \in DOMAIN t : t[j].kind # "candidate"
    BY <1>3, <1>5
  <2> QED  BY <1>5, <1>7, <1>8, <1>12
<1>14. ASSUME NEW i \in DOMAIN t, Completes(t[i])
       PROVE  /\ gathering'[p] = "complete"
              /\ \A j \in DOMAIN t : t[j].kind = "candidate" => j < i
              /\ \/ seen
                 \/ \E j \in DOMAIN t : j < i /\ t[j].kind = "description"
  <2>1. CASE i \in DOMAIN s
    <3>1. Completes(s[i])
      BY <2>1, <1>7, <1>14
    <3>2. \A j \in DOMAIN t : t[j].kind = "candidate" => j \in DOMAIN s
      BY <3>1, <2>1, <1>5, <1>8, <1>12
    <3>3. \A j \in DOMAIN t : t[j].kind = "candidate" => j < i
      BY <3>1, <3>2, <2>1, <1>5, <1>7
    <3>4. \/ seen
          \/ \E j \in DOMAIN t : j < i /\ t[j].kind = "description"
      BY <3>1, <2>1, <1>5, <1>7
    <3> QED  BY <3>1, <3>3, <3>4, <2>1, <1>3, <1>5
  <2>2. CASE i \notin DOMAIN s
    <3>1. /\ i - Len(s) \in DOMAIN news /\ t[i] = news[i - Len(s)]
          /\ i > Len(s)
      BY <2>2, <1>8
    <3>2. Completes(news[i - Len(s)]) /\ gathering[p] = "inProgress"
      BY <3>1, <1>1, <1>14
    <3>3. gathering'[p] = "complete"
      <4>1. PICK k \in DOMAIN news :
                /\ RawValue(GatheringNames, news[k].value) = gathering'[p]
                /\ \A j \in DOMAIN news : news[j].kind = "gathering" => j = k
        BY <3>1, <3>2, <1>1 DEF Brings, Completes
      <4>2. news[k].value = 2
        BY <4>1, <3>1, <3>2 DEF Completes
      <4> QED  BY <4>1, <4>2, RawNames
    <3>4. \A j \in DOMAIN news : news[j].kind # "candidate"
      <4> SUFFICES ASSUME news = <<Ev("candidate", gathered[p] + 1)>>
                   PROVE  FALSE
        BY <1>1
      <4>1. \A j \in DOMAIN news : news[j] = Ev("candidate", gathered[p] + 1)
        OBVIOUS
      <4>2. Ev("candidate", gathered[p] + 1).kind = "candidate"
        BY DEF Ev
      <4>3. news[i - Len(s)].kind = "candidate"
        BY <3>1, <4>1, <4>2
      <4> QED  BY <4>3, <3>2 DEF Completes
    <3>5. \A j \in DOMAIN t : t[j].kind = "candidate" => j \in DOMAIN s
      BY <3>4, <1>8
    <3>6. \A j \in DOMAIN s : j < i
      BY <3>1, <1>6
    <3>7. \/ seen
          \/ \E j \in DOMAIN t : j < i /\ t[j].kind = "description"
      BY <3>2, <3>6, <1>5, <1>7
    <3> QED  BY <3>3, <3>5, <3>6, <3>7
  <2> QED  BY <2>1, <2>2
<1>15. InOrder(t, pub[p].gathering, gathering'[p], pub[p].description.type,
               TypeOf(p))
  BY <1>11, <1>13, <1>14 DEF InOrder, seen
<1> QED  BY <1>2, <1>3, <1>15 DEF Ordered

LEMMA OrderedRan ==
    ASSUME TypeInv, Ordered, NEW p \in Peer, CbRun(p)
    PROVE  Ordered'
<1> DEFINE s == events[p]
           t == Tail(s)
           e == Head(s)
           own == gathering[p]
           shown == pub[p].gathering
           now == pub'[p].gathering
           type == TypeOf(p)
           text == pub[p].description.type
           next == pub'[p].description.type
<1>1. /\ s # <<>> /\ events' = [events EXCEPT ![p] = t]
      /\ pub' = [pub EXCEPT ![p] = Publish(@, e)]
      /\ UNCHANGED gathering
  BY DEF CbRun
<1>2. /\ events'[p] = t /\ pub'[p] = Publish(pub[p], e)
      /\ \A q \in Peer : q # p => events'[q] = events[q] /\ pub'[q] = pub[q]
  BY <1>1 DEF TypeInv, TypeOK
<1>3. /\ s \in Seq(Event) /\ pub[p] \in Published
      /\ \A i \in DOMAIN s : Sound(p, s[i])
  BY QueueTypes
<1>4. InOrder(s, shown, own, text, type)
  BY DEF Ordered
<1> HIDE DEF s
<1>5. /\ DOMAIN s = 1 .. Len(s) /\ DOMAIN t = 1 .. Len(t)
      /\ Len(s) \in Nat \ {0} /\ Len(t) = Len(s) - 1
      /\ e = s[1] /\ s[1] \in Event
      /\ \A i \in 1 .. Len(s) - 1 : t[i] = s[i + 1]
  BY <1>1, <1>3, Shortened
<1>6. e \in Event /\ Sound(p, e) /\ 1 \in DOMAIN s
  BY <1>3, <1>5
<1>7. /\ now = IF e.kind = "gathering"
               THEN RawValue(GatheringNames, e.value) ELSE shown
      /\ pub'[p].description = IF e.kind = "description"
                               THEN e.value ELSE pub[p].description
  BY <1>2, <1>3, <1>6, PublishFields
<1>8. next = IF e.kind = "description" THEN type ELSE text
  BY <1>6, <1>7 DEF Sound
<1> HIDE DEF t, e, own, shown, now, type, text, next
<1>9. \A i \in DOMAIN t : i + 1 \in DOMAIN s /\ t[i] = s[i + 1] /\ i \in Nat
  BY <1>5
<1>10. \A i \in DOMAIN s : i # 1 => /\ i - 1 \in DOMAIN t /\ t[i - 1] = s[i]
                                    /\ i \in Nat
  <2> SUFFICES ASSUME NEW i \in DOMAIN s, i # 1
               PROVE  /\ i - 1 \in DOMAIN t /\ t[i - 1] = s[i]
                      /\ i \in Nat
    OBVIOUS
  <2>1. i - 1 \in 1 .. Len(s) - 1 /\ (i - 1) + 1 = i
    BY <1>5
  <2>2. t[i - 1] = s[(i - 1) + 1]
    BY <2>1, <1>5
  <2> QED  BY <2>1, <2>2, <1>5
<1>11. ASSUME NEW i \in DOMAIN t, Completes(t[i])
       PROVE  /\ own = "complete"
              /\ \A j \in DOMAIN t : t[j].kind = "candidate" => j < i
              /\ \/ next = type
                 \/ \E j \in DOMAIN t : j < i /\ t[j].kind = "description"
  <2>1. /\ own = "complete"
        /\ \A j \in DOMAIN s : s[j].kind = "candidate" => j < i + 1
        /\ \/ text = type
           \/ \E j \in DOMAIN s : j < i + 1 /\ s[j].kind = "description"
    BY <1>4, <1>9, <1>11 DEF InOrder
  <2>2. ASSUME NEW j \in DOMAIN t, t[j].kind = "candidate"
        PROVE  j < i
    <3>1. j + 1 < i + 1
      BY <2>1, <2>2, <1>9
    <3> QED  BY <3>1, <1>9
  <2>3. CASE text = type
    BY <2>1, <2>2, <2>3, <1>8
  <2>4. ASSUME NEW j \in DOMAIN s, j < i + 1, s[j].kind = "description"
        PROVE  \/ next = type
               \/ \E k \in DOMAIN t : k < i /\ t[k].kind = "description"
    <3>1. CASE j = 1
      BY <3>1, <2>4, <1>5, <1>8
    <3>2. CASE j # 1
      <4>1. j - 1 \in DOMAIN t /\ t[j - 1] = s[j] /\ j - 1 < i
        BY <3>2, <2>4, <1>9, <1>10
      <4> QED  BY <4>1, <2>4
    <3> QED  BY <3>1, <3>2
  <2> QED  BY <2>1, <2>2, <2>3, <2>4
<1>12. now = "complete" => /\ own = "complete"
                           /\ \A j \in DOMAIN t : t[j].kind # "candidate"
                           /\ next = type
  <2> SUFFICES ASSUME now = "complete"
               PROVE  /\ own = "complete"
                      /\ \A j \in DOMAIN s : s[j].kind # "candidate"
                      /\ text = type
    BY <1>8, <1>9
  <2>1. CASE e.kind = "gathering"
    <3>1. RawValue(GatheringNames, e.value) = "complete" /\ e.value \in {1, 2}
      BY <2>1, <1>6, <1>7 DEF Sound
    <3>2. Completes(s[1])
      BY <3>1, <2>1, <1>5, RawNames DEF Completes
    <3>3. /\ own = "complete"
          /\ \A j \in DOMAIN s : s[j].kind = "candidate" => j < 1
          /\ \/ text = type
             \/ \E j \in DOMAIN s : j < 1 /\ s[j].kind = "description"
      BY <3>2, <1>4, <1>6 DEF InOrder
    <3>4. \A j \in DOMAIN s : ~(j < 1)
      BY <1>5
    <3> QED  BY <3>3, <3>4
  <2>2. CASE e.kind # "gathering"
    BY <2>2, <1>4, <1>7 DEF InOrder
  <2> QED  BY <2>1, <2>2
<1>13. own # "new" => \/ next = type
                      \/ \E j \in DOMAIN t : t[j].kind = "description"
  <2>1. own # "new" => \/ text = type
                       \/ \E j \in DOMAIN s : s[j].kind = "description"
    BY <1>4 DEF InOrder
  <2>2. ASSUME NEW j \in DOMAIN s, s[j].kind = "description"
        PROVE  \/ next = type
               \/ \E k \in DOMAIN t : t[k].kind = "description"
    BY <2>2, <1>5, <1>8, <1>10
  <2> QED  BY <2>1, <2>2, <1>8
<1>14. InOrder(t, now, own, next, type)
  BY <1>11, <1>12, <1>13 DEF InOrder
<1> QED  BY <1>1, <1>2, <1>14 DEF Ordered, own, now, type, next

LEMMA OrderedStep ==
    ASSUME TypeInv, Ordered, [Next]_vars
    PROVE  Ordered'
<1>1. CASE Still
  BY <1>1 DEF Still, Ordered
<1>2. CASE \E p \in Peer : Raising(p)
  BY <1>2, OrderedRaised
<1>3. CASE \E p \in Peer : CbRun(p)
  BY <1>3, OrderedRan
<1> QED  BY <1>1, <1>2, <1>3, StepKinds

\* The two properties of what is published.
LEMMA PublishedFollows ==
    ASSUME TypeInv, Truthful
    PROVE  PublishedIsTrue
<1> SUFFICES ASSUME NEW p \in Peer, events[p] = <<>>
             PROVE  /\ pub[p].state = state[p]
                    /\ pub[p].gathering = gathering[p]
                    /\ pub[p].signaling = signaling[p]
                    /\ pub[p].candidates = UpTo(gathered[p])
  BY DEF PublishedIsTrue
<1> DEFINE s == events[p]
<1>1. \A i \in DOMAIN s : FALSE
  OBVIOUS
<1>2. /\ Tells(s, "state", StateNames, pub[p].state, state[p])
      /\ Tells(s, "gathering", GatheringNames, pub[p].gathering, gathering[p])
      /\ Tells(s, "signaling", SignalingNames, pub[p].signaling, signaling[p])
      /\ Lists(s, pub[p].candidates, gathered[p])
  BY DEF Truthful
<1>3. gathered[p] \in Nat
  BY QueueTypes
<1> HIDE DEF s
<1>4. /\ pub[p].state = state[p] /\ pub[p].gathering = gathering[p]
      /\ pub[p].signaling = signaling[p]
  BY <1>1, <1>2 DEF Tells
<1>5. PICK c \in 0 .. gathered[p] :
        /\ pub[p].candidates = UpTo(c)
        /\ \A v \in c + 1 .. gathered[p] : \E i \in DOMAIN s : s[i].value = v
  BY <1>2 DEF Lists
<1>6. c = gathered[p]
  BY <1>1, <1>3, <1>5
<1> QED  BY <1>4, <1>5, <1>6

LEMMA CompleteFollows ==
    ASSUME TypeInv, Truthful, Ordered
    PROVE  CompleteHasAll
<1> SUFFICES ASSUME NEW p \in Peer, pub[p].gathering = "complete"
             PROVE  /\ pub[p].candidates = UpTo(gathered[p])
                    /\ pub[p].description.type = TypeOf(p)
  BY DEF CompleteHasAll
<1>1. /\ \A j \in DOMAIN events[p] : events[p][j].kind # "candidate"
      /\ pub[p].description.type = TypeOf(p)
  BY DEF Ordered, InOrder
<1>2. PICK c \in 0 .. gathered[p] :
        /\ pub[p].candidates = UpTo(c)
        /\ \A v \in c + 1 .. gathered[p] :
            \E i \in DOMAIN events[p] : events[p][i].kind = "candidate"
  BY DEF Truthful, Lists
<1>3. gathered[p] \in Nat
  BY QueueTypes
<1>4. c = gathered[p]
  BY <1>1, <1>2, <1>3
<1> QED  BY <1>1, <1>2, <1>4

----------------------------------------------------------------------------
\* The types of the library's other variables and of the application's.
LibTypes ==
    /\ state \in [Peer -> {"new", "connecting", "connected", "failed"}]
    /\ gathering \in [Peer -> {"new", "inProgress", "complete"}]
    /\ signaling \in [Peer -> {"stable", "haveLocalOffer", "haveRemoteOffer"}]
    /\ gathered \in [Peer -> Candidate \cup {0}]
    /\ known \in [Peer -> SUBSET Candidate]
    /\ described \in [Peer -> BOOLEAN]
    /\ sections \in SUBSET Section
    /\ announced \in SUBSET Section
    /\ tracks \in SUBSET [found : BOOLEAN, stream : Streams \cup {"none"},
                          track : Names \cup Streams \cup {"none"}]
AppTypes ==
    /\ trickle \in Tricklings
    /\ at \in [Peer -> Place]
    /\ capacity \in [Peer -> Nat]
    /\ trickled \in [Peer -> Candidate \cup {0}]
    /\ round \in 0 .. Rounds
    /\ wire \in [Peer -> Seq(Message)]

LEMMA TypeParts ==
    TypeOK <=> /\ LibTypes /\ AppTypes
               /\ events \in [Peer -> Seq(Event)] /\ pub \in [Peer -> Published]
BY DEF TypeOK, LibTypes, AppTypes

LEMMA MsidTypes ==
    ASSUME NEW s \in Section
    PROVE  MsidOf(s) \in [found : BOOLEAN, stream : Streams \cup {"none"},
                          track : Names \cup Streams \cup {"none"}]
<1>1. s[1][1] \in Streams /\ s[1][2] \in Names
  BY DEF Section, Track
<1>2. Found(s) \in {Ids(s[1][1], s[1][1]), Ids(s[1][1], s[1][2]), NotFound}
  BY DEF Found, Promised
<1>3. /\ NotFound \in [found : BOOLEAN, stream : Streams \cup {"none"},
                       track : Names \cup Streams \cup {"none"}]
      /\ \A a \in Streams, b \in Names \cup Streams :
            Ids(a, b) \in [found : BOOLEAN, stream : Streams \cup {"none"},
                          track : Names \cup Streams \cup {"none"}]
  BY DEF Ids, NotFound
<1>4. Found(s) \in [found : BOOLEAN, stream : Streams \cup {"none"},
                      track : Names \cup Streams \cup {"none"}]
  BY <1>1, <1>2, <1>3
<1> QED  BY <1>4, MsidIsFound

\* The library's steps, and the closures.
LEMMA LibTyped ==
    ASSUME TypeInv, NEW p \in Peer,
           \/ LibGathers(p) \/ LibGatheringEnds(p) \/ LibConnects(p)
           \/ LibFails(p) \/ CbRun(p)
    PROVE  LibTypes' /\ AppTypes'
<1>1. LibTypes /\ AppTypes
  BY TypeParts DEF TypeInv
<1>2. UNCHANGED appVars
  BY DEF LibGathers, LibGatheringEnds, LibConnects, LibFails, CbRun
<1>3. AppTypes'
  BY <1>1, <1>2 DEF AppTypes, appVars
<1>4. CASE LibGathers(p)
  <2>1. gathered[p] \in Candidate \cup {0} /\ gathered[p] < MaxCandidates[p]
    BY <1>1, <1>4 DEF LibGathers, LibTypes
  <2>2. gathered[p] + 1 \in Candidate
    BY <2>1, CandidateNumbers
  <2> QED  BY <1>1, <1>3, <1>4, <2>2 DEF LibGathers, LibTypes
<1>5. CASE LibGatheringEnds(p)
  BY <1>1, <1>3, <1>5 DEF LibGatheringEnds, LibTypes
<1>6. CASE LibConnects(p)
  BY <1>1, <1>3, <1>6 DEF LibConnects, LibTypes
<1>7. CASE LibFails(p)
  BY <1>1, <1>3, <1>7 DEF LibFails, LibTypes
<1>8. CASE CbRun(p)
  <2>1. events[p] # <<>> /\ events[p] \in Seq(Event)
    BY <1>8, QueueTypes DEF CbRun
  <2>2. Head(events[p]) \in Event
    BY <2>1, Shortened
  <2>3. Head(events[p]).kind = "track" => Head(events[p]).value \in Section
    BY <2>2, EventKinds
  <2>4. tracks' \in SUBSET [found : BOOLEAN, stream : Streams \cup {"none"},
                            track : Names \cup Streams \cup {"none"}]
    BY <1>1, <1>8, <2>3, MsidTypes DEF CbRun, LibTypes
  <2> QED  BY <1>1, <1>3, <1>8, <2>4 DEF CbRun, LibTypes
<1> QED  BY <1>4, <1>5, <1>6, <1>7, <1>8

\* Places are places.
LEMMA Places ==
    /\ {"ready", "accepted", "sized", "done", "gaveUp", "refused", "tooSmall",
        "locked", "sent", "connecting"} = Place
BY DEF Place, Waiting

LEMMA SentTypes ==
    ASSUME AppTypes, NEW p \in Peer, NEW m \in Message
    PROVE  [wire EXCEPT ![Other(p)] = Append(@, m)] \in [Peer -> Seq(Message)]
<1>1. wire[Other(p)] \in Seq(Message) /\ Other(p) \in Peer
  BY Peers DEF AppTypes
<1>2. Append(wire[Other(p)], m) \in Seq(Message)
  BY <1>1
<1> QED  BY <1>1, <1>2 DEF AppTypes

LEMMA TakenTypes ==
    ASSUME AppTypes, NEW p \in Peer, wire[p] # <<>>
    PROVE  /\ [wire EXCEPT ![p] = Tail(@)] \in [Peer -> Seq(Message)]
           /\ Head(wire[p]) \in Message
<1>1. wire[p] \in Seq(Message)
  BY DEF AppTypes
<1>2. Tail(wire[p]) \in Seq(Message) /\ Head(wire[p]) \in Message
  BY <1>1, Shortened
<1> QED  BY <1>2 DEF AppTypes

LEMMA AppTyped ==
    ASSUME TypeInv, Truthful, NEW p \in Peer,
           \/ Measure(p) \/ Create(p) \/ SendCandidate(p)
           \/ Connected(p) \/ TimesOut(p)
    PROVE  LibTypes' /\ AppTypes'
<1>1. LibTypes /\ AppTypes
  BY TypeParts DEF TypeInv
<1>2. UNCHANGED <<libVars, tracks>>
  BY DEF Measure, Create, SendCandidate, Connected, TimesOut
<1>3. LibTypes'
  BY <1>1, <1>2 DEF LibTypes, libVars
<1>4. CASE Measure(p)
  <2>1. gathered[p] + Slack \in Nat
    BY QueueTypes, CandidatesAssumption
  <2> QED  BY <1>1, <1>3, <1>4, <2>1, Places DEF Measure, AppTypes, Goto
<1>5. CASE Create(p)
  <2>1. Ev("description", Text(p)) \in Message
    BY TextType, EventTypes DEF TypeInv
  <2>2. wire' \in [Peer -> Seq(Message)]
    BY <1>1, <1>5, <2>1, SentTypes DEF Create, Send, AppTypes
  <2> QED  BY <1>1, <1>3, <1>5, <2>2, Places DEF Create, AppTypes, Goto
<1>6. CASE SendCandidate(p)
  <2> DEFINE n == trickled[p] + 1
             shown == pub[p].candidates
  <2>1. shown \in Seq(Candidate) /\ trickled[p] < Len(shown)
    BY <1>6, QueueTypes DEF SendCandidate, Published
  <2>2. trickled[p] \in Nat
    BY <1>1, CandidateNumbers DEF AppTypes
  <2>3. shown[n] \in Candidate
    BY <2>1, <2>2
  <2>4. Ev("candidate", shown[n]) \in Message
    BY <2>3, EventTypes
  <2>5. wire' \in [Peer -> Seq(Message)]
    BY <1>1, <1>6, <2>4, SentTypes DEF SendCandidate, Send
  <2>6. n \in Candidate
    <3>1. PICK c \in 0 .. gathered[p] : shown = UpTo(c)
      BY DEF Truthful, Lists
    <3>2. c \in Nat /\ Len(UpTo(c)) = c
      BY <3>1, QueueTypes DEF UpTo
    <3>3. n \in 1 .. c
      BY <3>1, <3>2, <2>1, <2>2
    <3>4. UpTo(c)[n] = n
      BY <3>3 DEF UpTo
    <3> QED  BY <3>1, <3>4, <2>3
  <2>7. trickled' \in [Peer -> Candidate \cup {0}]
    BY <1>1, <1>6, <2>6 DEF SendCandidate, AppTypes
  <2> QED  BY <1>1, <1>3, <1>6, <2>5, <2>7 DEF SendCandidate, AppTypes
<1>7. CASE Connected(p)
  BY <1>1, <1>3, <1>7, Places DEF Connected, AppTypes, Goto
<1>8. CASE TimesOut(p)
  BY <1>1, <1>3, <1>8, Places DEF TimesOut, AppTypes, Goto
<1> QED  BY <1>4, <1>5, <1>6, <1>7, <1>8

LEMMA LockTyped ==
    ASSUME TypeInv, NEW p \in Peer, Lock(p)
    PROVE  LibTypes' /\ AppTypes'
<1>1. LibTypes /\ AppTypes
  BY TypeParts DEF TypeInv
<1>2. UNCHANGED <<tracks, trickle, capacity, trickled, wire>>
  BY DEF Lock
<1>3. CASE signaling[p] # (IF p = "offerer" THEN "stable"
                                            ELSE "haveRemoteOffer")
  <2>1. Refuse(p) /\ UNCHANGED round
    BY <1>3 DEF Lock
  <2> QED  BY <2>1, <1>1, <1>2, Places
           DEF Refuse, Goto, libVars, LibTypes, AppTypes
<1>4. CASE signaling[p] = (IF p = "offerer" THEN "stable"
                                            ELSE "haveRemoteOffer")
  <2>1. /\ Goto(p, "locked")
        /\ round' = IF p = "offerer" THEN round + 1 ELSE round
        /\ signaling' = [signaling EXCEPT ![p] =
               IF p = "offerer" THEN "haveLocalOffer" ELSE "stable"]
        /\ gathering' = [gathering EXCEPT
                            ![p] = IF gathering[p] = "new" THEN "inProgress"
                                                           ELSE @]
        /\ state' = [state EXCEPT
                        ![p] = IF p = "answerer" /\ state[p] = "new"
                               THEN "connecting" ELSE @]
        /\ UNCHANGED <<gathered, known, described, sections, announced>>
    BY <1>4 DEF Lock
  <2>2. p = "offerer" => round < Rounds
    BY DEF Lock
  <2>3. round' \in 0 .. Rounds
    BY <2>1, <2>2, <1>1, RoundsAssumption DEF AppTypes
  <2>4. LibTypes'
    BY <2>1, <1>1, <1>2 DEF LibTypes
  <2> QED  BY <2>1, <2>3, <2>4, <1>1, <1>2, Places DEF Goto, AppTypes
<1> QED  BY <1>3, <1>4

LEMMA RemoteTyped ==
    ASSUME TypeInv, SetRemoteOffer \/ SetRemoteAnswer
    PROVE  LibTypes' /\ AppTypes'
<1>1. LibTypes /\ AppTypes
  BY TypeParts DEF TypeInv
<1>2. UNCHANGED <<tracks, trickle, capacity, trickled, round>>
  BY DEF SetRemoteOffer, SetRemoteAnswer
<1>3. CASE SetRemoteOffer
  <2> DEFINE p == "answerer"
             text == Head(wire[p]).value
  <2>1. /\ p \in Peer /\ wire[p] # <<>> /\ Head(wire[p]).kind = "description"
        /\ Taken(p)
    BY <1>3 DEF SetRemoteOffer, Arrives, Peer
  <2>2. text \in Description
    BY <2>1, <1>1, TakenTypes, MessageKinds
  <2>3. wire' \in [Peer -> Seq(Message)]
    BY <2>1, <1>1, TakenTypes DEF Taken
  <2>4. text.candidates \subseteq Candidate /\ text.sections \subseteq Section
    BY <2>2 DEF Description
  <2>5. \/ Refuse(p)
        \/ /\ Goto(p, "accepted")
           /\ signaling' = [signaling EXCEPT ![p] = "haveRemoteOffer"]
           /\ known' = [known EXCEPT ![p] = @ \cup text.candidates]
           /\ described' = [described EXCEPT ![p] = TRUE]
           /\ announced' = announced \cup text.sections
           /\ UNCHANGED <<state, gathering, gathered, sections>>
    BY <1>3 DEF SetRemoteOffer
  <2> HIDE DEF text, p
  <2>6. CASE Refuse(p)
    <3>1. LibTypes'
      BY <2>6, <1>1, <1>2 DEF Refuse, libVars, LibTypes
    <3>2. at' \in [Peer -> Place]
      BY <2>1, <2>6, <1>1, Places DEF Refuse, Goto, AppTypes
    <3> QED  BY <3>1, <3>2, <2>3, <1>1, <1>2 DEF AppTypes
  <2>7. CASE ~Refuse(p)
    <3>1. LibTypes'
      BY <2>1, <2>4, <2>5, <2>7, <1>1, <1>2 DEF LibTypes
    <3>2. at' \in [Peer -> Place]
      BY <2>1, <2>5, <2>7, <1>1, Places DEF Goto, AppTypes
    <3> QED  BY <3>1, <3>2, <2>3, <1>1, <1>2 DEF AppTypes
  <2> QED  BY <2>6, <2>7
<1>4. CASE SetRemoteAnswer
  <2> DEFINE p == "offerer"
             text == Head(wire[p]).value
  <2>1. /\ p \in Peer /\ wire[p] # <<>> /\ Head(wire[p]).kind = "description"
        /\ Taken(p)
    BY <1>4 DEF SetRemoteAnswer, Arrives, Peer
  <2>2. text \in Description
    BY <2>1, <1>1, TakenTypes, MessageKinds
  <2>3. wire' \in [Peer -> Seq(Message)]
    BY <2>1, <1>1, TakenTypes DEF Taken
  <2>4. text.candidates \subseteq Candidate
    BY <2>2 DEF Description
  <2>5. \/ Refuse(p)
        \/ /\ Goto(p, "connecting")
           /\ signaling' = [signaling EXCEPT ![p] = "stable"]
           /\ known' = [known EXCEPT ![p] = @ \cup text.candidates]
           /\ described' = [described EXCEPT ![p] = TRUE]
           /\ state' = [state EXCEPT
                           ![p] = IF @ = "new" THEN "connecting" ELSE @]
           /\ UNCHANGED <<gathering, gathered, sections, announced>>
    BY <1>4 DEF SetRemoteAnswer
  <2> HIDE DEF text, p
  <2>6. CASE Refuse(p)
    <3>1. LibTypes'
      BY <2>6, <1>1, <1>2 DEF Refuse, libVars, LibTypes
    <3>2. at' \in [Peer -> Place]
      BY <2>1, <2>6, <1>1, Places DEF Refuse, Goto, AppTypes
    <3> QED  BY <3>1, <3>2, <2>3, <1>1, <1>2 DEF AppTypes
  <2>7. CASE ~Refuse(p)
    <3>3. state' \in [Peer -> {"new", "connecting", "connected", "failed"}]
      BY <2>1, <2>5, <2>7, <1>1 DEF LibTypes
    <3>4. known' \in [Peer -> SUBSET Candidate]
      BY <2>1, <2>4, <2>5, <2>7, <1>1 DEF LibTypes
    <3>5. /\ signaling' \in [Peer -> {"stable", "haveLocalOffer",
                                      "haveRemoteOffer"}]
          /\ described' \in [Peer -> BOOLEAN]
      BY <2>1, <2>5, <2>7, <1>1 DEF LibTypes
    <3>1. LibTypes'
      BY <3>3, <3>4, <3>5, <2>5, <2>7, <1>1, <1>2 DEF LibTypes
    <3>2. at' \in [Peer -> Place]
      BY <2>1, <2>5, <2>7, <1>1, Places DEF Goto, AppTypes
    <3> QED  BY <3>1, <3>2, <2>3, <1>1, <1>2 DEF AppTypes
  <2> QED  BY <2>6, <2>7
<1> QED  BY <1>3, <1>4

LEMMA CandidateTyped ==
    ASSUME TypeInv, NEW p \in Peer, AddRemoteCandidate(p)
    PROVE  LibTypes' /\ AppTypes'
<1>1. LibTypes /\ AppTypes
  BY TypeParts DEF TypeInv
<1>2. /\ wire[p] # <<>> /\ Head(wire[p]).kind = "candidate" /\ Taken(p)
      /\ UNCHANGED <<state, gathering, signaling, gathered, described, sections,
                     announced, tracks, trickle, capacity, trickled, round>>
  BY DEF AddRemoteCandidate, Arrives
<1>3. Head(wire[p]).value \in Candidate
  BY <1>1, <1>2, TakenTypes, MessageKinds
<1>4. wire' \in [Peer -> Seq(Message)]
  BY <1>1, <1>2, TakenTypes DEF Taken
<1>5. \/ /\ known' = [known EXCEPT ![p] = @ \cup {Head(wire[p]).value}]
         /\ UNCHANGED at
      \/ Goto(p, "refused") /\ UNCHANGED known
  BY DEF AddRemoteCandidate
<1>6. known' \in [Peer -> SUBSET Candidate]
  BY <1>1, <1>3, <1>5 DEF LibTypes
<1>7. at' \in [Peer -> Place]
  BY <1>1, <1>5, Places DEF Goto, AppTypes
<1>8. LibTypes'
  BY <1>1, <1>2, <1>6 DEF LibTypes
<1> QED  BY <1>1, <1>2, <1>4, <1>7, <1>8 DEF AppTypes

LEMMA TrackTyped ==
    ASSUME TypeInv, AddTrack
    PROVE  LibTypes' /\ AppTypes'
<1>1. LibTypes /\ AppTypes
  BY TypeParts DEF TypeInv
<1>2. sections' \in SUBSET Section
  BY <1>1 DEF AddTrack, LibTypes, Section
<1> QED  BY <1>1, <1>2 DEF AddTrack, appVars, LibTypes, AppTypes

LEMMA TypeStep ==
    ASSUME TypeInv, Truthful, [Next]_vars
    PROVE  TypeInv'
<1>1. LibTypes' /\ AppTypes'
  <2>1. CASE UNCHANGED vars
    BY <2>1, TypeParts DEF TypeInv, vars, libVars, appVars, LibTypes, AppTypes
  <2>2. CASE Next
    BY <2>2, LibTyped, AppTyped, LockTyped, RemoteTyped, CandidateTyped,
       TrackTyped DEF Next, AppStep
  <2> QED  BY <2>1, <2>2
<1>2. /\ events' \in [Peer -> Seq(Event)]
      /\ pub' \in [Peer -> Published]
      /\ Numbered'
  BY StepKinds, QueuesTyped
<1>3. TypeOK'
  BY <1>1, <1>2 DEF TypeOK, LibTypes, AppTypes
<1> QED  BY <1>2, <1>3 DEF TypeInv

----------------------------------------------------------------------------
LEMMA NothingQueued ==
    Init => /\ \A p \in Peer : events[p] = <<>>
            /\ \A p \in Peer : gathered[p] = 0
            /\ \A p \in Peer : /\ pub[p].state = state[p]
                               /\ pub[p].gathering = gathering[p]
                               /\ pub[p].signaling = signaling[p]
                               /\ pub[p].candidates = <<>>
                               /\ gathering[p] = "new"
BY DEF Init

LEMMA TypeInit == Init => TypeInv
<1> SUFFICES ASSUME Init PROVE TypeInv
  OBVIOUS
<1>1. LibTypes
  BY DEF Init, LibTypes
<1>2. AppTypes
  BY RoundsAssumption, Places DEF Init, AppTypes
<1>3. NoDescription \in Description
  BY DEF NoDescription, Description
<1>4. pub \in [Peer -> Published]
  <2>1. <<>> \in Seq(Candidate)
    OBVIOUS
  <2> QED  BY <1>3, <2>1 DEF Init, Published
<1>5. events \in [Peer -> Seq(Event)]
  BY DEF Init
<1>6. Numbered
  BY NothingQueued DEF Numbered
<1> QED  BY <1>1, <1>2, <1>4, <1>5, <1>6 DEF TypeInv, TypeOK, LibTypes, AppTypes

LEMMA TruthfulInit == Init => Truthful
<1> SUFFICES ASSUME Init, NEW p \in Peer
             PROVE  /\ Tells(events[p], "state", StateNames, pub[p].state,
                             state[p])
                    /\ Tells(events[p], "gathering", GatheringNames,
                             pub[p].gathering, gathering[p])
                    /\ Tells(events[p], "signaling", SignalingNames,
                             pub[p].signaling, signaling[p])
                    /\ Lists(events[p], pub[p].candidates, gathered[p])
  BY DEF Truthful
<1>1. events[p] = <<>> /\ DOMAIN events[p] = {}
  BY NothingQueued
<1>2. Newest(events[p], "state") = {} /\ Newest(events[p], "gathering") = {}
      /\ Newest(events[p], "signaling") = {}
  BY <1>1 DEF Newest
<1>3. 0 \in 0 .. 0 /\ 0 + 1 .. 0 = {} /\ UpTo(0) = <<>>
  BY DEF UpTo
<1>4. Lists(events[p], pub[p].candidates, gathered[p])
  BY <1>1, <1>3, NothingQueued DEF Lists
<1> QED  BY <1>1, <1>2, <1>4, NothingQueued DEF Tells

LEMMA OrderedInit == Init => Ordered
BY NothingQueued DEF Ordered, InOrder

\* The inductive invariant of what is published.
PublishedInv == TypeInv /\ Truthful /\ Ordered

LEMMA PublishedInvHolds == Spec => []PublishedInv
<1>1. Init => PublishedInv
  BY TypeInit, TruthfulInit, OrderedInit DEF PublishedInv
<1>2. PublishedInv /\ [Next]_vars => PublishedInv'
  BY TypeStep, TruthfulStep, OrderedStep DEF PublishedInv
<1> QED  BY <1>1, <1>2, PTL DEF Spec

\* Every variable of the negotiation keeps its type; with it, no raw value
\* a callback brings is one that init(rawValue:)! would refuse, and every
\* candidate sent is one the peer has gathered (AlloDataChannel.swift:620-650).
THEOREM TypesHold == Spec => []TypeOK
<1>1. PublishedInv => TypeOK
  BY DEF PublishedInv, TypeInv
<1> QED  BY <1>1, PublishedInvHolds, PTL

\* A peer whose callbacks have run publishes what its library knows, for any
\* number of candidates and rounds (AlloDataChannel.swift:620-650).
THEOREM PublishedTruth == Spec => []PublishedIsTrue
<1>1. PublishedInv => PublishedIsTrue
  BY PublishedFollows DEF PublishedInv
<1> QED  BY <1>1, PublishedInvHolds, PTL

\* Whoever sees gatheringState complete finds every candidate, and the
\* description that SFUMain.swift unwraps (AlloDataChannel.swift:620-646).
THEOREM CompleteTruth == Spec => []CompleteHasAll
<1>1. PublishedInv => CompleteHasAll
  BY CompleteFollows DEF PublishedInv
<1> QED  BY <1>1, PublishedInvHolds, PTL

----------------------------------------------------------------------------
\* The order of the calls, and of the messages between the two sides.

\* Where the application is, the library is in the state its next call needs.
Agrees(p) ==
    /\ at[p] # "refused"
    /\ p = "offerer" =>
        /\ at[p] \in {"ready", "connecting"} => signaling[p] = "stable"
        /\ at[p] \in {"locked", "sized", "sent"} =>
               signaling[p] = "haveLocalOffer"
    /\ p = "answerer" =>
        /\ at[p] \in {"ready", "locked", "sized", "connecting"} =>
               signaling[p] = "stable"
        /\ at[p] = "accepted" => signaling[p] = "haveRemoteOffer"

\* Candidates come after a description.
Leads(s) ==
    \A i \in DOMAIN s : s[i].kind = "candidate" =>
        \E j \in DOMAIN s : j < i /\ s[j].kind = "description"

Spoken(p) ==
    \/ at[p] \in {"sent", "connecting", "done"}
    \/ at[p] = "ready" /\ gathering[p] # "new"

\* A peer's candidates never overtake the description they belong to.
Talks(p) ==
    /\ described[p] \/ Leads(wire[p])
    /\ Spoken(p) => described[Other(p)] \/ Mentions(wire[Other(p)])
    /\ gathering[p] = "new" => gathered[p] = 0

Protocol == \A p \in Peer : Agrees(p) /\ Talks(p)

LEMMA Appended ==
    ASSUME NEW s \in Seq(Message), NEW m \in Message
    PROVE  /\ Append(s, m) \in Seq(Message)
           /\ Len(Append(s, m)) = Len(s) + 1
           /\ \A i \in 1 .. Len(s) : Append(s, m)[i] = s[i]
           /\ Append(s, m)[Len(s) + 1] = m
           /\ DOMAIN Append(s, m) = 1 .. Len(s) + 1
           /\ DOMAIN s = 1 .. Len(s)
           /\ Len(s) \in Nat
OBVIOUS

LEMMA MentionsMore ==
    ASSUME NEW s \in Seq(Message), NEW m \in Message,
           Mentions(s) \/ m.kind = "description"
    PROVE  Mentions(Append(s, m))
<1> DEFINE t == Append(s, m)
<1>1. /\ \A i \in 1 .. Len(s) : t[i] = s[i]
      /\ t[Len(s) + 1] = m
      /\ DOMAIN t = 1 .. Len(s) + 1
      /\ DOMAIN s = 1 .. Len(s) /\ Len(s) \in Nat
  BY Appended
<1> SUFFICES Mentions(t)
  OBVIOUS
<1> HIDE DEF t
<1>2. CASE m.kind = "description"
  <2>1. Len(s) + 1 \in DOMAIN t
    BY <1>1
  <2> QED  BY <2>1, <1>1, <1>2 DEF Mentions
<1>3. CASE Mentions(s)
  BY <1>1, <1>3 DEF Mentions
<1> QED  BY <1>2, <1>3

LEMMA LeadsMore ==
    ASSUME NEW s \in Seq(Message), NEW m \in Message, Leads(s),
           Mentions(s) \/ m.kind = "description"
    PROVE  Leads(Append(s, m))
<1> DEFINE t == Append(s, m)
<1>1. /\ \A i \in 1 .. Len(s) : t[i] = s[i]
      /\ t[Len(s) + 1] = m
      /\ DOMAIN t = 1 .. Len(s) + 1
      /\ DOMAIN s = 1 .. Len(s) /\ Len(s) \in Nat
  BY Appended
<1> HIDE DEF t
<1>2. ASSUME NEW i \in DOMAIN t, t[i].kind = "candidate"
      PROVE  \E j \in DOMAIN t : j < i /\ t[j].kind = "description"
  <2>1. CASE i = Len(s) + 1
    <3>1. Mentions(s)
      BY <1>1, <1>2, <2>1
    <3>2. PICK j \in DOMAIN s : s[j].kind = "description"
      BY <3>1 DEF Mentions
    <3> QED  BY <3>2, <2>1, <1>1
  <2>2. CASE i # Len(s) + 1
    <3>1. i \in DOMAIN s /\ s[i].kind = "candidate"
      BY <2>2, <1>1, <1>2
    <3>2. PICK j \in DOMAIN s : j < i /\ s[j].kind = "description"
      BY <3>1 DEF Leads
    <3> QED  BY <3>2, <1>1
  <2> QED  BY <2>1, <2>2
<1>3. Leads(t)
  BY <1>2 DEF Leads
<1> QED  BY <1>3 DEF t

\* A candidate at the head finds the description set.
LEMMA HeadFollows ==
    ASSUME NEW s \in Seq(Message), s # <<>>, Head(s).kind = "candidate"
    PROVE  ~Leads(s)
<1>1. Len(s) \in Nat \ {0} /\ Head(s) = s[1]
  BY Shortened
<1>2. 1 \in DOMAIN s /\ \A j \in DOMAIN s : ~(j < 1)
  BY <1>1
<1> QED  BY <1>1, <1>2 DEF Leads

\* A step that leaves calls and messages alone.
Quiet ==
    /\ UNCHANGED <<at, wire, described, signaling>>
    /\ \A p \in Peer : /\ gathering'[p] = "new" <=> gathering[p] = "new"
                       /\ gathering[p] = "new" => gathered'[p] = gathered[p]

LEMMA ProtocolQuiet ==
    ASSUME Protocol, Quiet
    PROVE  Protocol'
<1> SUFFICES ASSUME NEW p \in Peer
             PROVE  Agrees(p)' /\ Talks(p)'
  BY DEF Protocol
<1>1. Agrees(p) /\ Talks(p)
  BY DEF Protocol
<1>2. Agrees(p)'
  BY <1>1 DEF Agrees, Quiet
<1>3. Spoken(p)' <=> Spoken(p)
  BY DEF Spoken, Quiet
<1>4. Talks(p)'
  BY <1>1, <1>3 DEF Talks, Quiet
<1> QED  BY <1>2, <1>4

LEMMA QuietSteps ==
    ASSUME TypeInv, NEW p \in Peer,
           \/ LibGathers(p) \/ LibGatheringEnds(p) \/ LibConnects(p)
           \/ LibFails(p) \/ CbRun(p) \/ AddTrack \/ UNCHANGED vars
    PROVE  Quiet
<1>0. gathering \in [Peer -> {"new", "inProgress", "complete"}]
      /\ gathered \in [Peer -> Candidate \cup {0}]
  BY DEF TypeInv, TypeOK
<1>1. CASE LibGathers(p)
  BY <1>0, <1>1 DEF LibGathers, appVars, Quiet
<1>2. CASE LibGatheringEnds(p)
  BY <1>0, <1>2 DEF LibGatheringEnds, appVars, Quiet
<1>3. CASE LibConnects(p) \/ LibFails(p) \/ CbRun(p) \/ AddTrack
  BY <1>3 DEF LibConnects, LibFails, CbRun, AddTrack, appVars, Quiet
<1>4. CASE UNCHANGED vars
  BY <1>4 DEF vars, libVars, appVars, Quiet
<1> QED  BY <1>1, <1>2, <1>3, <1>4

\* The same, for what one peer's step changes: at, signaling and gathering
\* of p only, and no message.
LEMMA ProtocolLocal ==
    ASSUME TypeInv, Protocol, NEW p \in Peer,
           UNCHANGED <<wire, described, gathered>>,
           \A q \in Peer : q # p => /\ at'[q] = at[q]
                                    /\ signaling'[q] = signaling[q]
                                    /\ gathering'[q] = gathering[q],
           gathering'[p] = "new" => gathering[p] = "new",
           Agrees(p)',
           Spoken(p)' => Spoken(p)
    PROVE  Protocol'
<1> SUFFICES ASSUME NEW q \in Peer
             PROVE  Agrees(q)' /\ Talks(q)'
  BY DEF Protocol
<1>1. Agrees(q) /\ Talks(q)
  BY DEF Protocol
<1>2. CASE q = p
  BY <1>1, <1>2 DEF Talks
<1>3. CASE q # p
  <2>1. Agrees(q)'
    BY <1>1, <1>3 DEF Agrees
  <2>2. Spoken(q)' <=> Spoken(q)
    BY <1>3 DEF Spoken
  <2> QED  BY <2>1, <2>2, <1>1, <1>3 DEF Talks
<1> QED  BY <1>2, <1>3

LEMMA ProtocolLock ==
    ASSUME TypeInv, Protocol, NEW p \in Peer, Lock(p)
    PROVE  Protocol'
<1>1. /\ at \in [Peer -> Place]
      /\ signaling \in [Peer -> {"stable", "haveLocalOffer", "haveRemoteOffer"}]
      /\ gathering \in [Peer -> {"new", "inProgress", "complete"}]
  BY DEF TypeInv, TypeOK
<1>2. signaling[p] = IF p = "offerer" THEN "stable" ELSE "haveRemoteOffer"
  BY DEF Protocol, Agrees, Lock, Peer
<1>3. /\ at' = [at EXCEPT ![p] = "locked"]
      /\ signaling' = [signaling EXCEPT ![p] =
             IF p = "offerer" THEN "haveLocalOffer" ELSE "stable"]
      /\ gathering' = [gathering EXCEPT
                          ![p] = IF gathering[p] = "new" THEN "inProgress"
                                                         ELSE @]
      /\ UNCHANGED <<wire, described, gathered>>
  BY <1>2 DEF Lock, Goto
<1>4. Agrees(p)'
  BY <1>1, <1>3 DEF Agrees
<1>5. ~Spoken(p)'
  BY <1>1, <1>3 DEF Spoken
<1> QED  BY <1>1, <1>3, <1>4, <1>5, ProtocolLocal

LEMMA ProtocolWaits ==
    ASSUME TypeInv, Protocol, NEW p \in Peer,
           Measure(p) \/ Connected(p) \/ TimesOut(p)
    PROVE  Protocol'
<1>1. /\ at \in [Peer -> Place]
      /\ UNCHANGED <<wire, described, gathered, gathering, signaling>>
  BY DEF TypeInv, TypeOK, Measure, Connected, TimesOut, libVars
<1>2. Agrees(p)
  BY DEF Protocol
<1>3. CASE Measure(p)
  <2>1. at[p] = "locked" /\ at' = [at EXCEPT ![p] = "sized"]
    BY <1>3 DEF Measure, Goto
  <2>2. Agrees(p)' /\ ~Spoken(p)'
    BY <1>1, <1>2, <2>1 DEF Agrees, Spoken
  <2> QED  BY <1>1, <2>1, <2>2, ProtocolLocal
<1>4. CASE Connected(p)
  <2>1. /\ at[p] = "connecting"
        /\ \/ at' = [at EXCEPT ![p] = "ready"]
           \/ p = "offerer" /\ at' = [at EXCEPT ![p] = "done"]
    BY <1>4 DEF Connected, Goto
  <2>2. Agrees(p)' /\ Spoken(p)
    BY <1>1, <1>2, <2>1 DEF Agrees, Spoken
  <2> QED  BY <1>1, <2>1, <2>2, ProtocolLocal
<1>5. CASE TimesOut(p)
  <2>1. at' = [at EXCEPT ![p] = "gaveUp"]
    BY <1>5 DEF TimesOut, Goto
  <2>2. Agrees(p)' /\ ~Spoken(p)'
    BY <1>1, <1>2, <2>1 DEF Agrees, Spoken
  <2> QED  BY <1>1, <2>1, <2>2, ProtocolLocal
<1> QED  BY <1>3, <1>4, <1>5

\* A message more for the other side, and p in a place after it.
LEMMA ProtocolSends ==
    ASSUME TypeInv, Protocol, NEW p \in Peer, NEW m \in Message,
           UNCHANGED <<described, gathered, gathering, signaling>>,
           wire' = [wire EXCEPT ![Other(p)] = Append(@, m)],
           \A q \in Peer : q # p => at'[q] = at[q],
           Agrees(p)',
           \/ m.kind = "description"
           \/ Spoken(p) /\ (Spoken(p)' => Spoken(p))
    PROVE  Protocol'
<1> DEFINE o == Other(p)
<1>0. o \in Peer /\ o # p /\ (\A q \in Peer : q = p \/ q = o)
      /\ Other(o) = p /\ wire \in [Peer -> Seq(Message)]
  BY Peers DEF Peer, Other, TypeInv, TypeOK
<1>1. Agrees(o) /\ Talks(o) /\ Talks(p)
  BY <1>0 DEF Protocol
<1>2. wire'[o] = Append(wire[o], m) /\ wire'[p] = wire[p]
      /\ wire[o] \in Seq(Message)
  BY <1>0
<1>3. described[o] \/ Mentions(wire[o]) \/ m.kind = "description"
  BY <1>1 DEF Talks
<1>4. described'[o] \/ Mentions(wire'[o])
  BY <1>2, <1>3, MentionsMore, Zenon
<1>5. described'[o] \/ Leads(wire'[o])
  <2>1. CASE described[o]
    BY <2>1
  <2>2. CASE ~described[o]
    <3>1. Leads(wire[o])
      BY <2>2, <1>1 DEF Talks
    <3>2. Mentions(wire[o]) \/ m.kind = "description"
      BY <1>3, <2>2
    <3> QED  BY <3>1, <3>2, <1>2, LeadsMore
  <2> QED  BY <2>1, <2>2
<1>6. Talks(p)'
  BY <1>1, <1>2, <1>4 DEF Talks
<1>7. Agrees(o)'
  BY <1>0, <1>1 DEF Agrees
<1>8. Spoken(o)' <=> Spoken(o)
  BY <1>0 DEF Spoken
<1>9. Talks(o)'
  BY <1>0, <1>1, <1>2, <1>5, <1>8 DEF Talks
<1> QED  BY <1>0, <1>6, <1>7, <1>9 DEF Protocol

LEMMA ProtocolCreate ==
    ASSUME TypeInv, Protocol, NEW p \in Peer, Create(p)
    PROVE  Protocol'
<1>1. /\ at \in [Peer -> Place]
      /\ UNCHANGED <<described, gathered, gathering, signaling>>
      /\ at[p] = "sized"
  BY DEF TypeInv, TypeOK, Create, libVars
<1>2. Agrees(p)
  BY DEF Protocol
<1>3. CASE gathered[p] > capacity[p]
  <2>1. at' = [at EXCEPT ![p] = "tooSmall"] /\ UNCHANGED wire
    BY <1>3 DEF Create, Goto
  <2>2. Agrees(p)' /\ ~Spoken(p)'
    BY <1>1, <1>2, <2>1 DEF Agrees, Spoken
  <2> QED  BY <1>1, <2>1, <2>2, ProtocolLocal
<1>4. CASE ~(gathered[p] > capacity[p])
  <2> DEFINE m == Ev("description", Text(p))
  <2>1. /\ at' = [at EXCEPT ![p] = IF p = "offerer" THEN "sent"
                                                    ELSE "connecting"]
        /\ wire' = [wire EXCEPT ![Other(p)] = Append(@, m)]
    BY <1>4 DEF Create, Goto, Send
  <2>2. Agrees(p)'
    BY <1>1, <1>2, <2>1 DEF Agrees
  <2>3. m \in Message
    BY TextType, EventTypes DEF TypeInv
  <2>4. m.kind = "description"
    BY DEF Ev
  <2> HIDE DEF m
  <2> QED  BY <1>1, <2>1, <2>2, <2>3, <2>4, ProtocolSends
<1> QED  BY <1>3, <1>4

\* A peer that has a candidate to send has begun to gather.
LEMMA ProtocolSendsCandidate ==
    ASSUME TypeInv, Truthful, Protocol, NEW p \in Peer, SendCandidate(p)
    PROVE  Protocol'
<1> DEFINE n == trickled[p] + 1
           shown == pub[p].candidates
           m == Ev("candidate", shown[n])
<1>1. /\ shown \in Seq(Candidate) /\ trickled[p] < Len(shown)
      /\ gathered[p] \in Nat
  BY QueueTypes DEF SendCandidate, Published
<1>2. trickled[p] \in Nat
  BY CandidateNumbers DEF TypeInv, TypeOK
<1>3. m \in Message
  <2>1. shown[n] \in Candidate
    BY <1>1, <1>2
  <2> QED  BY <2>1, EventTypes
<1>4. gathering[p] # "new"
  <2>1. PICK c \in 0 .. gathered[p] : shown = UpTo(c)
    BY DEF Truthful, Lists
  <2>2. c \in Nat /\ Len(UpTo(c)) = c
    BY <1>1, <2>1 DEF UpTo
  <2>3. gathered[p] # 0
    BY <1>1, <1>2, <2>1, <2>2
  <2> QED  BY <2>3 DEF Protocol, Talks
<1>5. /\ at[p] \in {"sent", "connecting", "ready", "done"}
      /\ UNCHANGED <<described, gathered, gathering, signaling, at>>
      /\ wire' = [wire EXCEPT ![Other(p)] = Append(@, m)]
  BY DEF SendCandidate, libVars, Send
<1>6. Spoken(p)
  BY <1>4, <1>5 DEF Spoken
<1>7. Agrees(p)'
  BY <1>5 DEF Protocol, Agrees
<1> HIDE DEF m
<1> QED  BY <1>3, <1>5, <1>6, <1>7, ProtocolSends

\* A message fewer for p, whose description is set now if it was not.
LEMMA ProtocolTakes ==
    ASSUME TypeInv, Protocol, NEW p \in Peer,
           UNCHANGED <<gathered, gathering>>,
           \A q \in Peer : q # p => /\ at'[q] = at[q]
                                    /\ signaling'[q] = signaling[q]
                                    /\ described'[q] = described[q]
                                    /\ wire'[q] = wire[q],
           described'[p] = TRUE,
           Agrees(p)',
           Spoken(p)' => Spoken(p)
    PROVE  Protocol'
<1> DEFINE o == Other(p)
<1>0. o \in Peer /\ o # p /\ (\A q \in Peer : q = p \/ q = o) /\ Other(o) = p
  BY Peers DEF Peer, Other
<1>1. Agrees(o) /\ Talks(o) /\ Talks(p)
  BY <1>0 DEF Protocol
<1>2. Agrees(o)'
  BY <1>0, <1>1 DEF Agrees
<1>3. Talks(o)'
  <2>1. Spoken(o)' <=> Spoken(o)
    BY <1>0 DEF Spoken
  <2> QED  BY <2>1, <1>0, <1>1 DEF Talks
<1>4. Talks(p)'
  BY <1>0, <1>1 DEF Talks
<1> QED  BY <1>0, <1>2, <1>3, <1>4 DEF Protocol

LEMMA ProtocolOffer ==
    ASSUME TypeInv, Protocol, SetRemoteOffer
    PROVE  Protocol'
<1> DEFINE p == "answerer"
<1>1. /\ p \in Peer /\ at \in [Peer -> Place] /\ described \in [Peer -> BOOLEAN]
      /\ signaling \in [Peer -> {"stable", "haveLocalOffer", "haveRemoteOffer"}]
      /\ wire \in [Peer -> Seq(Message)]
  BY DEF TypeInv, TypeOK, Peer
<1>2. at[p] = "ready" /\ signaling[p] = "stable"
  BY <1>1 DEF SetRemoteOffer, Protocol, Agrees
<1>3. /\ at' = [at EXCEPT ![p] = "accepted"]
      /\ signaling' = [signaling EXCEPT ![p] = "haveRemoteOffer"]
      /\ described' = [described EXCEPT ![p] = TRUE]
      /\ wire' = [wire EXCEPT ![p] = Tail(@)]
      /\ UNCHANGED <<gathering, gathered>>
  BY <1>2 DEF SetRemoteOffer, Goto, Taken
<1>4. Agrees(p)' /\ ~Spoken(p)'
  BY <1>1, <1>3 DEF Agrees, Spoken
<1> HIDE DEF p
<1> QED  BY <1>1, <1>3, <1>4, ProtocolTakes

LEMMA ProtocolAnswer ==
    ASSUME TypeInv, Protocol, SetRemoteAnswer
    PROVE  Protocol'
<1> DEFINE p == "offerer"
<1>1. /\ p \in Peer /\ at \in [Peer -> Place] /\ described \in [Peer -> BOOLEAN]
      /\ signaling \in [Peer -> {"stable", "haveLocalOffer", "haveRemoteOffer"}]
      /\ wire \in [Peer -> Seq(Message)]
  BY DEF TypeInv, TypeOK, Peer
<1>2. at[p] = "sent" /\ signaling[p] = "haveLocalOffer"
  BY <1>1 DEF SetRemoteAnswer, Protocol, Agrees
<1>3. /\ at' = [at EXCEPT ![p] = "connecting"]
      /\ signaling' = [signaling EXCEPT ![p] = "stable"]
      /\ described' = [described EXCEPT ![p] = TRUE]
      /\ wire' = [wire EXCEPT ![p] = Tail(@)]
      /\ UNCHANGED <<gathering, gathered>>
  BY <1>2 DEF SetRemoteAnswer, Goto, Taken
<1>4. Agrees(p)' /\ Spoken(p)
  BY <1>1, <1>2, <1>3 DEF Agrees, Spoken
<1> HIDE DEF p
<1> QED  BY <1>1, <1>3, <1>4, ProtocolTakes

LEMMA ProtocolCandidate ==
    ASSUME TypeInv, Protocol, NEW p \in Peer, AddRemoteCandidate(p)
    PROVE  Protocol'
<1>1. /\ wire \in [Peer -> Seq(Message)]
      /\ wire[p] # <<>> /\ Head(wire[p]).kind = "candidate"
  BY DEF TypeInv, TypeOK, AddRemoteCandidate, Arrives
<1>2. described[p]
  <2>1. ~Leads(wire[p])
    BY <1>1, HeadFollows
  <2> QED  BY <2>1 DEF Protocol, Talks
<1>3. /\ UNCHANGED <<at, signaling, described, gathered, gathering>>
      /\ wire' = [wire EXCEPT ![p] = Tail(@)]
  BY <1>2 DEF AddRemoteCandidate, Taken
<1>4. Agrees(p)' /\ (Spoken(p)' <=> Spoken(p))
  BY <1>3 DEF Protocol, Agrees, Spoken
<1>5. described'[p] = TRUE
  BY <1>2, <1>3 DEF TypeInv, TypeOK
<1> QED  BY <1>1, <1>3, <1>4, <1>5, ProtocolTakes

LEMMA ProtocolStep ==
    ASSUME TypeInv, Truthful, Protocol, [Next]_vars
    PROVE  Protocol'
<1>0. "offerer" \in Peer
  BY DEF Peer
<1>1. CASE UNCHANGED vars \/ AddTrack
  BY <1>0, <1>1, QuietSteps, ProtocolQuiet
<1>2. ASSUME NEW p \in Peer,
             \/ LibGathers(p) \/ LibGatheringEnds(p) \/ LibConnects(p)
             \/ LibFails(p) \/ CbRun(p)
      PROVE  Protocol'
  BY <1>2, QuietSteps, ProtocolQuiet
<1>3. ASSUME NEW p \in Peer, AppStep(p) \/ TimesOut(p)
      PROVE  Protocol'
  BY <1>3, ProtocolLock, ProtocolWaits, ProtocolCreate, ProtocolSendsCandidate,
     ProtocolCandidate DEF AppStep
<1>4. CASE SetRemoteOffer \/ SetRemoteAnswer
  BY <1>4, ProtocolOffer, ProtocolAnswer
<1> QED  BY <1>1, <1>2, <1>3, <1>4 DEF Next

LEMMA ProtocolInit == Init => Protocol
<1> SUFFICES ASSUME Init, NEW p \in Peer PROVE Agrees(p) /\ Talks(p)
  BY DEF Protocol
<1>1. /\ at[p] = "ready" /\ signaling[p] = "stable" /\ gathering[p] = "new"
      /\ gathered[p] = 0 /\ wire[p] = <<>>
  BY DEF Init
<1>2. Leads(wire[p])
  BY <1>1 DEF Leads
<1> QED  BY <1>1, <1>2 DEF Agrees, Talks, Spoken

----------------------------------------------------------------------------
\* After the wait for gathering, nothing more is found.

\* The room made for the text is that of the complete one.
Sized(p) ==
    p \notin trickle /\ at[p] = "sized" =>
        gathering[p] = "complete" /\ capacity[p] = gathered[p] + Slack

\* Every message of a side that waits is its complete description.
Full(p) ==
    Other(p) \notin trickle => \A i \in DOMAIN wire[p] :
        /\ wire[p][i].kind = "description"
        /\ wire[p][i].value.candidates = 1 .. gathered[Other(p)]
        /\ gathering[Other(p)] = "complete"

Waited == \A p \in Peer : Sized(p) /\ Full(p)

\* Gathering that is complete stays so, and is over.
LEMMA Over ==
    ASSUME TypeInv, [Next]_vars, NEW p \in Peer, gathering[p] = "complete"
    PROVE  gathering'[p] = "complete" /\ gathered'[p] = gathered[p]
<1>1. CASE Still
  BY <1>1 DEF Still
<1>2. ASSUME NEW q \in Peer, Raising(q)
      PROVE  gathering'[p] = "complete" /\ gathered'[p] = gathered[p]
  <2>1. CASE q = p
    BY <1>2, <2>1 DEF Raising
  <2>2. CASE q # p
    BY <1>2, <2>2 DEF Raising
  <2> QED  BY <2>1, <2>2
<1>3. ASSUME NEW q \in Peer, CbRun(q)
      PROVE  gathering'[p] = "complete" /\ gathered'[p] = gathered[p]
  BY <1>3 DEF CbRun
<1> QED  BY <1>1, <1>2, <1>3, StepKinds

\* Who waits changes never, and the wires in few ways.
Fewer(p) == wire[p] # <<>> /\ wire' = [wire EXCEPT ![p] = Tail(@)]

LEMMA WireSteps ==
    ASSUME [Next]_vars
    PROVE  /\ trickle' = trickle
           /\ \/ UNCHANGED wire
              \/ \E p \in Peer : \/ Fewer(p)
                                 \/ Create(p)
                                 \/ SendCandidate(p)
<1>1. CASE UNCHANGED vars \/ AddTrack
  BY <1>1 DEF vars, AddTrack, appVars
<1>2. ASSUME NEW p \in Peer,
             \/ LibGathers(p) \/ LibGatheringEnds(p) \/ LibConnects(p)
             \/ LibFails(p) \/ CbRun(p)
      PROVE  UNCHANGED <<trickle, wire>>
  BY <1>2 DEF LibGathers, LibGatheringEnds, LibConnects, LibFails, CbRun, appVars
<1>3. ASSUME NEW p \in Peer, Lock(p) \/ Measure(p) \/ Connected(p) \/ TimesOut(p)
      PROVE  UNCHANGED <<trickle, wire>>
  BY <1>3 DEF Lock, Measure, Connected, TimesOut
<1>4. ASSUME NEW p \in Peer, Create(p) \/ SendCandidate(p)
      PROVE  trickle' = trickle
  BY <1>4 DEF Create, SendCandidate
<1>5. ASSUME NEW p \in Peer, AddRemoteCandidate(p)
      PROVE  trickle' = trickle /\ Fewer(p)
  BY <1>5 DEF AddRemoteCandidate, Arrives, Taken, Fewer
<1>6. CASE SetRemoteOffer
  BY <1>6 DEF SetRemoteOffer, Arrives, Taken, Fewer, Peer
<1>7. CASE SetRemoteAnswer
  BY <1>7 DEF SetRemoteAnswer, Arrives, Taken, Fewer, Peer
<1> QED  BY <1>1, <1>2, <1>3, <1>4, <1>5, <1>6, <1>7 DEF Next, AppStep

\* And where a peer makes room for its text.
LEMMA SizeSteps ==
    ASSUME TypeInv, [Next]_vars, NEW p \in Peer, at'[p] = "sized"
    PROVE  \/ Measure(p)
           \/ at[p] = "sized" /\ capacity'[p] = capacity[p]
<1>0. at \in [Peer -> Place] /\ capacity \in [Peer -> Nat]
  BY DEF TypeInv, TypeOK
<1>1. CASE UNCHANGED vars \/ AddTrack
  BY <1>1 DEF vars, AddTrack, appVars
<1>2. ASSUME NEW q \in Peer,
             \/ LibGathers(q) \/ LibGatheringEnds(q) \/ LibConnects(q)
             \/ LibFails(q) \/ CbRun(q)
      PROVE  UNCHANGED <<at, capacity>>
  BY <1>2 DEF LibGathers, LibGatheringEnds, LibConnects, LibFails, CbRun, appVars
<1>3. ASSUME NEW q \in Peer, Measure(q)
      PROVE  Measure(p) \/ (at[p] = "sized" /\ capacity'[p] = capacity[p])
  <2>1. CASE q = p
    BY <1>3, <2>1
  <2>2. CASE q # p
    BY <1>0, <1>3, <2>2 DEF Measure, Goto
  <2> QED  BY <2>1, <2>2
<1>4. ASSUME NEW q \in Peer,
             \/ Lock(q) \/ Create(q) \/ SendCandidate(q) \/ Connected(q)
             \/ TimesOut(q) \/ AddRemoteCandidate(q)
      PROVE  at[p] = "sized" /\ capacity'[p] = capacity[p]
  <2>1. capacity' = capacity
    BY <1>4 DEF Lock, Create, SendCandidate, Connected, TimesOut,
                AddRemoteCandidate
  <2>2. \/ UNCHANGED at
        \/ \E place \in Place \ {"sized"} : at' = [at EXCEPT ![q] = place]
    <3>1. CASE Lock(q)
      BY <3>1, Places DEF Lock, Refuse, Goto
    <3>2. CASE Create(q)
      BY <3>2, Places DEF Create, Goto
    <3>3. CASE SendCandidate(q)
      BY <3>3 DEF SendCandidate
    <3>4. CASE Connected(q)
      BY <3>4, Places DEF Connected, Goto
    <3>5. CASE TimesOut(q)
      BY <3>5, Places DEF TimesOut, Goto
    <3>6. CASE AddRemoteCandidate(q)
      BY <3>6, Places DEF AddRemoteCandidate, Goto
    <3> QED  BY <1>4, <3>1, <3>2, <3>3, <3>4, <3>5, <3>6
  <2>3. at[p] = "sized"
    BY <1>0, <2>2
  <2> QED  BY <2>1, <2>3
<1>5. CASE SetRemoteOffer
  <2>1. capacity' = capacity
    BY <1>5 DEF SetRemoteOffer
  <2>2. \E place \in {"refused", "accepted"} :
            at' = [at EXCEPT !["answerer"] = place]
    BY <1>5 DEF SetRemoteOffer, Refuse, Goto
  <2>3. at[p] = "sized"
    BY <1>0, <2>2
  <2> QED  BY <2>1, <2>3
<1>6. CASE SetRemoteAnswer
  <2>1. capacity' = capacity
    BY <1>6 DEF SetRemoteAnswer
  <2>2. \E place \in {"refused", "connecting"} :
            at' = [at EXCEPT !["offerer"] = place]
    BY <1>6 DEF SetRemoteAnswer, Refuse, Goto
  <2>3. at[p] = "sized"
    BY <1>0, <2>2
  <2> QED  BY <2>1, <2>3
<1> QED  BY <1>1, <1>2, <1>3, <1>4, <1>5, <1>6 DEF Next, AppStep

\* Room is made once `complete' is published, and so true.
LEMMA SizedStep ==
    ASSUME TypeInv, Ordered, Waited, [Next]_vars, NEW p \in Peer
    PROVE  Sized(p)'
<1> SUFFICES ASSUME p \notin trickle', at'[p] = "sized"
             PROVE  /\ gathering'[p] = "complete"
                    /\ capacity'[p] = gathered'[p] + Slack
  BY DEF Sized
<1>1. p \notin trickle
  BY WireSteps
<1>2. CASE Measure(p)
  <2>1. pub[p].gathering = "complete"
    BY <1>1, <1>2 DEF Measure
  <2>2. gathering[p] = "complete"
    BY <2>1 DEF Ordered, InOrder
  <2>3. capacity'[p] = gathered[p] + Slack
    BY <1>2 DEF Measure, TypeInv, TypeOK
  <2> QED  BY <2>2, <2>3, Over
<1>3. CASE at[p] = "sized" /\ capacity'[p] = capacity[p]
  BY <1>1, <1>3, Over DEF Waited, Sized
<1> QED  BY <1>2, <1>3, SizeSteps

\* A wire keeps its promise when its sender's gathering is over.
LEMMA FullKept ==
    ASSUME TypeInv, Waited, [Next]_vars, NEW p \in Peer, wire'[p] = wire[p]
    PROVE  Full(p)'
<1> SUFFICES ASSUME Other(p) \notin trickle', NEW i \in DOMAIN wire[p]
             PROVE  /\ wire[p][i].kind = "description"
                    /\ wire[p][i].value.candidates = 1 .. gathered'[Other(p)]
                    /\ gathering'[Other(p)] = "complete"
  BY DEF Full
<1>1. Other(p) \notin trickle /\ Other(p) \in Peer
  BY WireSteps, Peers
<1>2. /\ wire[p][i].kind = "description"
      /\ wire[p][i].value.candidates = 1 .. gathered[Other(p)]
      /\ gathering[Other(p)] = "complete"
  BY <1>1 DEF Waited, Full
<1> QED  BY <1>1, <1>2, Over

LEMMA FullFewer ==
    ASSUME TypeInv, Waited, [Next]_vars, NEW p \in Peer, Fewer(p)
    PROVE  Full(p)'
<1>0. wire \in [Peer -> Seq(Message)] /\ wire[p] # <<>>
  BY DEF TypeInv, TypeOK, Fewer
<1> DEFINE s == wire[p]
           t == Tail(s)
<1>1. wire'[p] = t
  BY <1>0 DEF Fewer
<1>2. /\ t \in Seq(Message) /\ Len(s) \in Nat \ {0} /\ Len(t) = Len(s) - 1
      /\ \A i \in 1 .. Len(s) - 1 : t[i] = s[i + 1]
  BY <1>0, Shortened
<1>3. DOMAIN t = 1 .. Len(t) /\ DOMAIN s = 1 .. Len(s)
  BY <1>0, <1>2
<1> HIDE DEF t
<1>4. \A i \in DOMAIN t : i + 1 \in DOMAIN s /\ t[i] = s[i + 1]
  BY <1>2, <1>3
<1> SUFFICES ASSUME Other(p) \notin trickle', NEW i \in DOMAIN t
             PROVE  /\ t[i].kind = "description"
                    /\ t[i].value.candidates = 1 .. gathered'[Other(p)]
                    /\ gathering'[Other(p)] = "complete"
  BY <1>1 DEF Full
<1>5. Other(p) \notin trickle /\ Other(p) \in Peer
  BY WireSteps, Peers
<1>6. /\ s[i + 1].kind = "description"
      /\ s[i + 1].value.candidates = 1 .. gathered[Other(p)]
      /\ gathering[Other(p)] = "complete"
  BY <1>4, <1>5 DEF Waited, Full
<1> QED  BY <1>4, <1>5, <1>6, Over

\* A description more, from a side that waits, is complete.
LEMMA FullMore ==
    ASSUME TypeInv, Waited, [Next]_vars, NEW p \in Peer,
           Create(p) \/ SendCandidate(p)
    PROVE  Full(Other(p))'
<1> DEFINE o == Other(p)
<1>0. o \in Peer /\ Other(o) = p
  BY DEF Peer, Other
<1>1. CASE p \in trickle
  <2>1. p \in trickle'
    BY <1>1, WireSteps
  <2> QED  BY <2>1, <1>0 DEF Full
<1>2. CASE p \notin trickle
  <2>1. Create(p) /\ at[p] = "sized"
    BY <1>2 DEF Create, SendCandidate
  <2>2. gathering[p] = "complete"
    BY <1>2, <2>1 DEF Waited, Sized
  <2>3. CASE wire' = wire
    BY <2>3, <1>0, FullKept
  <2>4. CASE wire' # wire
    <3> DEFINE m == Ev("description", Text(p))
    <3>1. wire' = [wire EXCEPT ![o] = Append(@, m)]
      BY <2>1, <2>4 DEF Create, Send
    <3>2. m \in Message
      BY TextType, EventTypes DEF TypeInv
    <3>3. m.kind = "description" /\ m.value.candidates = 1 .. gathered[p]
      BY DEF Ev, Text
    <3> HIDE DEF m
    <3>4. wire[o] \in Seq(Message) /\ wire'[o] = Append(wire[o], m)
      BY <1>0, <3>1 DEF TypeInv, TypeOK
    <3>5. \A i \in DOMAIN wire'[o] :
              \/ i \in DOMAIN wire[o] /\ wire'[o][i] = wire[o][i]
              \/ wire'[o][i] = m
      BY <3>2, <3>4, Appended
    <3>6. \A i \in DOMAIN wire[o] :
              /\ wire[o][i].kind = "description"
              /\ wire[o][i].value.candidates = 1 .. gathered[p]
      BY <1>0, <1>2 DEF Waited, Full
    <3>7. \A i \in DOMAIN wire'[o] :
              /\ wire'[o][i].kind = "description"
              /\ wire'[o][i].value.candidates = 1 .. gathered[p]
      BY <3>3, <3>5, <3>6
    <3>8. gathering'[p] = "complete" /\ gathered'[p] = gathered[p]
      BY <2>2, Over
    <3> QED  BY <1>0, <3>7, <3>8 DEF Full
  <2> QED  BY <2>3, <2>4
<1> QED  BY <1>1, <1>2

LEMMA WaitedStep ==
    ASSUME TypeInv, Ordered, Waited, [Next]_vars
    PROVE  Waited'
<1> SUFFICES ASSUME NEW p \in Peer PROVE Sized(p)' /\ Full(p)'
  BY DEF Waited
<1>1. Sized(p)'
  BY SizedStep
<1>2. Full(p)'
  <2>0. wire \in [Peer -> Seq(Message)]
    BY DEF TypeInv, TypeOK
  <2>1. CASE UNCHANGED wire
    BY <2>1, FullKept
  <2>2. ASSUME NEW q \in Peer, Fewer(q) PROVE Full(p)'
    <3>1. CASE q = p
      BY <2>2, <3>1, FullFewer
    <3>2. CASE q # p
      <4>1. wire'[p] = wire[p]
        BY <2>0, <2>2, <3>2 DEF Fewer
      <4> QED  BY <4>1, FullKept
    <3> QED  BY <3>1, <3>2
  <2>3. ASSUME NEW q \in Peer, Create(q) \/ SendCandidate(q) PROVE Full(p)'
    <3>1. CASE p = Other(q)
      BY <2>3, <3>1, FullMore
    <3>2. CASE p # Other(q)
      <4>1. wire'[p] = wire[p]
        BY <2>0, <2>3, <3>2 DEF Create, SendCandidate, Send
      <4> QED  BY <4>1, FullKept
    <3> QED  BY <3>1, <3>2
  <2> QED  BY <2>1, <2>2, <2>3, WireSteps
<1> QED  BY <1>1, <1>2

\* So the room never falls short.
LEMMA RoomStep ==
    ASSUME TypeInv, Waited, NeverTooSmall, [Next]_vars
    PROVE  NeverTooSmall'
<1> SUFFICES ASSUME NEW p \in Peer, p \notin trickle', at'[p] = "tooSmall"
             PROVE  FALSE
  BY DEF NeverTooSmall
<1>0. at \in [Peer -> Place] /\ p \notin trickle /\ at[p] # "tooSmall"
  BY WireSteps DEF TypeInv, TypeOK, NeverTooSmall
<1>1. ASSUME NEW q \in Peer, Create(q) PROVE FALSE
  <2>1. q = p /\ gathered[p] > capacity[p] /\ at[p] = "sized"
    BY <1>0, <1>1 DEF Create, Goto
  <2>2. capacity[p] = gathered[p] + Slack
    BY <1>0, <2>1 DEF Waited, Sized
  <2>3. gathered[p] \in Nat /\ Slack \in Nat
    BY QueueTypes, CandidatesAssumption
  <2> QED  BY <2>1, <2>2, <2>3
<1>2. CASE UNCHANGED vars \/ AddTrack
  BY <1>0, <1>2 DEF vars, AddTrack, appVars
<1>3. ASSUME NEW q \in Peer,
             \/ LibGathers(q) \/ LibGatheringEnds(q) \/ LibConnects(q)
             \/ LibFails(q) \/ CbRun(q)
      PROVE  FALSE
  BY <1>0, <1>3 DEF LibGathers, LibGatheringEnds, LibConnects, LibFails, CbRun,
                    appVars
<1>4. ASSUME NEW q \in Peer, Lock(q) PROVE FALSE
  BY <1>0, <1>4 DEF Lock, Refuse, Goto
<1>5. ASSUME NEW q \in Peer,
             \/ Measure(q) \/ SendCandidate(q) \/ Connected(q) \/ TimesOut(q)
      PROVE  FALSE
  BY <1>0, <1>5 DEF Measure, SendCandidate, Connected, TimesOut, Goto
<1>6. ASSUME NEW q \in Peer, AddRemoteCandidate(q) PROVE FALSE
  BY <1>0, <1>6 DEF AddRemoteCandidate, Goto
<1>7. CASE SetRemoteOffer
  BY <1>0, <1>7 DEF SetRemoteOffer, Refuse, Goto
<1>8. CASE SetRemoteAnswer
  BY <1>0, <1>8 DEF SetRemoteAnswer, Refuse, Goto
<1> QED  BY <1>1, <1>2, <1>3, <1>4, <1>5, <1>6, <1>7, <1>8 DEF Next, AppStep

----------------------------------------------------------------------------
\* What is announced and not yet called back about.
Pending(s) == {s[i].value : i \in {j \in DOMAIN s : s[j].kind = "track"}}

Kept(queue, made, seen) ==
    made \cup {Found(v) : v \in Pending(queue)} = {Found(s) : s \in seen}

Tracked == Kept(events["answerer"], tracks, announced)

LEMMA PendingJoined ==
    ASSUME NEW s \in Seq(Event), NEW n \in Seq(Event)
    PROVE  Pending(s \o n) = Pending(s) \cup Pending(n)
<1> DEFINE t == s \o n
<1>1. /\ t \in Seq(Event) /\ Len(t) = Len(s) + Len(n)
      /\ \A i \in 1 .. Len(s) : t[i] = s[i]
      /\ \A i \in 1 .. Len(n) : t[Len(s) + i] = n[i]
      /\ \A i \in 1 .. Len(t) : i \in 1 .. Len(s) \/ i - Len(s) \in 1 .. Len(n)
  BY Joined
<1>2. /\ DOMAIN s = 1 .. Len(s) /\ DOMAIN n = 1 .. Len(n)
      /\ DOMAIN t = 1 .. Len(t)
      /\ Len(s) \in Nat /\ Len(n) \in Nat
  BY <1>1
<1> SUFFICES Pending(t) = Pending(s) \cup Pending(n)
  OBVIOUS
<1> HIDE DEF t
<1>3. ASSUME NEW i \in DOMAIN t, t[i].kind = "track"
      PROVE  t[i].value \in Pending(s) \cup Pending(n)
  <2>1. CASE i \in 1 .. Len(s)
    BY <1>1, <1>2, <1>3, <2>1 DEF Pending
  <2>2. CASE i - Len(s) \in 1 .. Len(n)
    <3>1. i = Len(s) + (i - Len(s))
      BY <1>2
    <3>2. t[i] = n[i - Len(s)]
      BY <1>1, <2>2, <3>1
    <3> QED  BY <1>2, <1>3, <2>2, <3>2 DEF Pending
  <2> QED  BY <1>1, <1>2, <2>1, <2>2
<1>4. ASSUME NEW i \in DOMAIN s, s[i].kind = "track"
      PROVE  s[i].value \in Pending(t)
  <2>1. i \in DOMAIN t /\ t[i] = s[i]
    BY <1>1, <1>2
  <2> QED  BY <1>4, <2>1 DEF Pending
<1>5. ASSUME NEW i \in DOMAIN n, n[i].kind = "track"
      PROVE  n[i].value \in Pending(t)
  <2>1. Len(s) + i \in DOMAIN t /\ t[Len(s) + i] = n[i]
    BY <1>1, <1>2
  <2> QED  BY <1>5, <2>1 DEF Pending
<1>6. Pending(t) \subseteq Pending(s) \cup Pending(n)
  BY <1>3 DEF Pending
<1>7. Pending(s) \subseteq Pending(t)
  BY <1>4 DEF Pending
<1>8. Pending(n) \subseteq Pending(t)
  BY <1>5 DEF Pending
<1> QED  BY <1>6, <1>7, <1>8

LEMMA PendingRan ==
    ASSUME NEW s \in Seq(Event), s # <<>>
    PROVE  Pending(s) = Pending(Tail(s)) \cup
               (IF Head(s).kind = "track" THEN {Head(s).value} ELSE {})
<1> DEFINE t == Tail(s)
<1>1. /\ t \in Seq(Event) /\ Len(s) \in Nat \ {0} /\ Len(t) = Len(s) - 1
      /\ Head(s) = s[1]
      /\ \A i \in 1 .. Len(s) - 1 : t[i] = s[i + 1]
  BY Shortened
<1>2. DOMAIN t = 1 .. Len(t) /\ DOMAIN s = 1 .. Len(s)
  BY <1>1
<1> SUFFICES Pending(s) = Pending(t) \cup
                 (IF s[1].kind = "track" THEN {s[1].value} ELSE {})
  BY <1>1
<1> HIDE DEF t
<1>3. ASSUME NEW i \in DOMAIN s, s[i].kind = "track", i # 1
      PROVE  s[i].value \in Pending(t)
  <2>1. i - 1 \in DOMAIN t /\ i = (i - 1) + 1
    BY <1>1, <1>2, <1>3
  <2>2. t[i - 1] = s[i]
    BY <1>1, <1>2, <2>1
  <2> QED  BY <1>3, <2>1, <2>2 DEF Pending
<1>4. ASSUME NEW i \in DOMAIN t, t[i].kind = "track"
      PROVE  t[i].value \in Pending(s)
  <2>1. i + 1 \in DOMAIN s /\ t[i] = s[i + 1]
    BY <1>1, <1>2
  <2> QED  BY <1>4, <2>1 DEF Pending
<1>5. 1 \in DOMAIN s
  BY <1>1, <1>2
<1>6. Pending(t) \subseteq Pending(s)
  BY <1>4 DEF Pending
<1>7. s[1].kind = "track" => s[1].value \in Pending(s)
  BY <1>5 DEF Pending
<1>8. \A v \in Pending(s) :
          v \in Pending(t) \/ (s[1].kind = "track" /\ v = s[1].value)
  BY <1>3 DEF Pending
<1> QED  BY <1>6, <1>7, <1>8

LEMMA PendingQuiet ==
    /\ Pending(<<>>) = {}
    /\ \A e \in Event : e.kind # "track" => Pending(<<e>>) = {}
    /\ \A d, e \in Event :
           d.kind # "track" /\ e.kind # "track" => Pending(<<d, e>>) = {}
BY DEF Pending

\* Steps that announce nothing.
Hushed ==
    /\ UNCHANGED <<tracks, announced>>
    /\ \E news \in Seq(Event) : /\ Pending(news) = {}
                                /\ \E p \in Peer : Raise(p, news)

LEMMA TrackedHushed ==
    ASSUME TypeInv, Tracked, Hushed
    PROVE  Tracked'
<1>1. PICK news \in Seq(Event), p \in Peer :
          Pending(news) = {} /\ events' = [events EXCEPT ![p] = @ \o news]
  BY DEF Hushed, Raise
<1>2. /\ events \in [Peer -> Seq(Event)] /\ "answerer" \in Peer
      /\ UNCHANGED <<tracks, announced>>
  BY DEF TypeInv, TypeOK, Peer, Hushed
<1>3. \/ events'["answerer"] = events["answerer"]
      \/ events'["answerer"] = events["answerer"] \o news
  BY <1>1, <1>2
<1>4. Pending(events["answerer"] \o news) = Pending(events["answerer"])
  <2>1. events["answerer"] \in Seq(Event)
    BY <1>2
  <2>2. Pending(events["answerer"] \o news)
            = Pending(events["answerer"]) \cup Pending(news)
    BY <2>1, PendingJoined
  <2> QED  BY <1>1, <2>2
<1>5. Pending(events'["answerer"]) = Pending(events["answerer"])
  BY <1>3, <1>4
<1> QED  BY <1>2, <1>5 DEF Tracked, Kept

LEMMA HushedLibrary ==
    ASSUME TypeInv, NEW p \in Peer,
           \/ LibGathers(p) \/ LibGatheringEnds(p)
           \/ LibConnects(p) \/ LibFails(p)
    PROVE  Hushed
<1>1. /\ UNCHANGED <<tracks, announced>>
      /\ \E e \in Event : e.kind # "track" /\ Raise(p, <<e>>)
  <2>1. CASE LibGathers(p)
    <3>1. gathered[p] + 1 \in Nat
      BY QueueTypes
    <3>2. /\ Ev("candidate", gathered[p] + 1) \in Event
          /\ Ev("candidate", gathered[p] + 1).kind # "track"
      BY <3>1, EventTypes DEF Ev
    <3> QED  BY <2>1, <3>2 DEF LibGathers
  <2>2. ASSUME NEW n \in Nat
        PROVE  /\ Ev("gathering", n) \in Event /\ Ev("state", n) \in Event
               /\ Ev("gathering", n).kind # "track"
               /\ Ev("state", n).kind # "track"
    BY EventTypes DEF Ev
  <2>3. CASE LibGatheringEnds(p)
    BY <2>2, <2>3 DEF LibGatheringEnds, RtcGathering
  <2>4. CASE LibConnects(p)
    BY <2>2, <2>4 DEF LibConnects, RtcState
  <2>5. CASE LibFails(p)
    BY <2>2, <2>5 DEF LibFails, RtcState
  <2> QED  BY <2>1, <2>3, <2>4, <2>5
<1>2. PICK e \in Event : e.kind # "track" /\ Raise(p, <<e>>)
  BY <1>1
<1>3. <<e>> \in Seq(Event) /\ Pending(<<e>>) = {}
  <2>1. Pending(<<e>>) = {}
    BY <1>2, PendingQuiet
  <2> QED  BY <2>1
<1> QED  BY <1>1, <1>2, <1>3 DEF Hushed

\* The offerer's queue holds no track callback, and the answer brings none.
LEMMA TrackedElsewhere ==
    ASSUME Tracked, UNCHANGED <<tracks, announced>>,
           events'["answerer"] = events["answerer"]
    PROVE  Tracked'
BY DEF Tracked

LEMMA HushedLock ==
    ASSUME TypeInv, NEW p \in Peer, Lock(p), ~ UNCHANGED <<tracks, announced,
                                                           events>>
    PROVE  Hushed
<1> DEFINE next == IF p = "offerer" THEN "haveLocalOffer" ELSE "stable"
           first == gathering[p] = "new"
           starts == p = "answerer" /\ state[p] = "new"
           a == Ev("signaling", RtcSignaling[next])
           b == Ev("description", Text(p))
           c == Ev("gathering", 1)
           d == Ev("state", 1)
           m == IF first THEN <<c>> ELSE <<>>
           n == IF starts THEN <<d>> ELSE <<>>
           two == <<a, b>>
<1>1. UNCHANGED <<tracks, announced>> /\ Raise(p, two \o m \o n)
  <2>1. ~Refuse(p)
    BY DEF Lock, Refuse, libVars
  <2> QED  BY <2>1 DEF Lock, RtcGathering, RtcState
<1>2. /\ a \in Event /\ b \in Event /\ c \in Event /\ d \in Event
      /\ a.kind # "track" /\ b.kind # "track"
      /\ c.kind # "track" /\ d.kind # "track"
  <2>1. RtcSignaling[next] \in Nat
    BY DEF RtcSignaling
  <2>2. a \in Event /\ b \in Event /\ c \in Event /\ d \in Event
    BY <2>1, EventTypes, TextType DEF TypeInv
  <2>3. /\ a.kind # "track" /\ b.kind # "track"
        /\ c.kind # "track" /\ d.kind # "track"
    BY DEF Ev
  <2> QED  BY <2>2, <2>3
<1> HIDE DEF a, b, c, d
<1>3. two \in Seq(Event) /\ Pending(two) = {}
  <2>1. Pending(two) = {}
    BY <1>2, PendingQuiet
  <2> QED  BY <1>2, <2>1
<1>4. m \in Seq(Event) /\ n \in Seq(Event)
  BY <1>2
<1>5. Pending(m) = {} /\ Pending(n) = {}
  BY <1>2, PendingQuiet
<1> HIDE DEF two, m, n
<1>6. two \o m \in Seq(Event) /\ Pending(two \o m) = {}
  BY <1>3, <1>4, <1>5, PendingJoined, Joined
<1> DEFINE mid == two \o m
<1>7. mid \in Seq(Event) /\ Pending(mid) = {} /\ Raise(p, mid \o n)
  BY <1>1, <1>6
<1> HIDE DEF mid
<1>8. mid \o n \in Seq(Event) /\ Pending(mid \o n) = {}
  BY <1>4, <1>5, <1>7, PendingJoined, Joined
<1> QED  BY <1>1, <1>7, <1>8 DEF Hushed

\* A track callback makes what its section promises.
LEMMA TrackedRan ==
    ASSUME TypeInv, Tracked, NEW p \in Peer, CbRun(p)
    PROVE  Tracked'
<1> DEFINE s == events[p]
           e == Head(s)
<1>1. /\ s \in Seq(Event) /\ s # <<>> /\ announced' = announced
      /\ events' = [events EXCEPT ![p] = Tail(@)]
      /\ tracks' = IF e.kind = "track" THEN tracks \cup {MsidOf(e.value)}
                                       ELSE tracks
      /\ events \in [Peer -> Seq(Event)]
  BY QueueTypes DEF CbRun, TypeInv, TypeOK
<1>2. e \in Event /\ Sound(p, e)
  <2>1. Head(s) = s[1] /\ s[1] \in Event /\ 1 \in DOMAIN s
    BY <1>1, Shortened
  <2> QED  BY <2>1, QueueTypes
<1>3. e.kind = "track" => MsidOf(e.value) = Found(e.value)
  BY <1>2, EventKinds, MsidIsFound
<1>4. Pending(s) = Pending(Tail(s)) \cup
          (IF e.kind = "track" THEN {e.value} ELSE {})
  BY <1>1, PendingRan
<1>5. events'[p] = Tail(s) /\ \A q \in Peer : q # p => events'[q] = events[q]
  BY <1>1
<1> HIDE DEF s, e
<1>6. CASE p = "answerer"
  <2>1. tracks \cup {Found(v) : v \in Pending(s)}
            = {Found(x) : x \in announced}
    BY <1>6 DEF Tracked, Kept, s
  <2>2. tracks' \cup {Found(v) : v \in Pending(Tail(s))}
            = tracks \cup {Found(v) : v \in Pending(s)}
    <3>1. CASE e.kind = "track"
      <4>1. tracks' = tracks \cup {Found(e.value)}
        BY <1>1, <1>3, <3>1
      <4>2. Pending(s) = Pending(Tail(s)) \cup {e.value}
        BY <1>4, <3>1
      <4> QED  BY <4>1, <4>2
    <3>2. CASE e.kind # "track"
      BY <1>1, <1>4, <3>2
    <3> QED  BY <3>1, <3>2
  <2> QED  BY <2>1, <2>2, <1>1, <1>5, <1>6 DEF Tracked, Kept
<1>7. CASE p # "answerer"
  <2>1. e.kind # "track"
    BY <1>2, <1>7 DEF Sound
  <2>2. UNCHANGED <<tracks, announced>> /\ events'["answerer"] = events["answerer"]
    BY <1>1, <1>5, <1>7, <2>1 DEF Peer
  <2> QED  BY <2>2, TrackedElsewhere
<1> QED  BY <1>6, <1>7

\* The offer brings one callback for each section that is new.
LEMMA TrackedOffer ==
    ASSUME TypeInv, Tracked, SetRemoteOffer
    PROVE  Tracked'
<1> DEFINE p == "answerer"
           text == Head(wire[p]).value
           fresh == text.sections \ announced
           s == events[p]
           a == Ev("signaling", 2)
<1>0. p \in Peer
  BY DEF Peer
<1>1. CASE signaling[p] # "stable"
  <2>1. UNCHANGED <<tracks, announced, events>>
    BY <1>1 DEF SetRemoteOffer, Refuse, libVars
  <2> QED  BY <2>1, TrackedElsewhere
<1>2. CASE signaling[p] = "stable"
  <2>1. /\ wire[p] # <<>> /\ Head(wire[p]).kind = "description"
        /\ announced' = announced \cup text.sections /\ tracks' = tracks
    BY <1>2 DEF SetRemoteOffer, Arrives
  <2>2. PICK ann \in Announcements(fresh) :
            events' = [events EXCEPT ![p] = @ \o (<<a>> \o ann)]
    BY <1>2 DEF SetRemoteOffer, Raise, RtcSignaling
  <2>3. text \in Description
    BY <2>1, <1>0, HeadTypes, MessageKinds DEF TypeInv
  <2>4. fresh \in SUBSET Section
    BY <2>3 DEF Description
  <2>5. /\ ann \in Seq(Event)
        /\ \A i \in DOMAIN ann : \E x \in fresh : ann[i] = Ev("track", x)
        /\ \A x \in fresh : \E i \in DOMAIN ann : ann[i] = Ev("track", x)
    BY <2>4, AnnouncementTypes
  <2>6. Pending(ann) = fresh
    <3>1. \A i \in DOMAIN ann : ann[i].value \in fresh
      BY <2>5 DEF Ev
    <3>2. \A x \in fresh : \E i \in DOMAIN ann : /\ ann[i].kind = "track"
                                                 /\ ann[i].value = x
      BY <2>5 DEF Ev
    <3> HIDE DEF fresh
    <3> QED  BY <3>1, <3>2 DEF Pending
  <2>7. a \in Event /\ a.kind # "track"
    <3>1. a \in Event
      BY EventTypes
    <3> QED  BY <3>1 DEF Ev
  <2> HIDE DEF a, fresh
  <2> DEFINE one == <<a>>
  <2>8. one \in Seq(Event) /\ Pending(one) = {}
    <3>1. Pending(<<a>>) = {}
      BY <2>7, PendingQuiet
    <3> QED  BY <2>7, <3>1
  <2> HIDE DEF one
  <2>9. one \o ann \in Seq(Event) /\ Pending(one \o ann) = fresh
    <3>1. Pending(one \o ann) = Pending(one) \cup Pending(ann)
      BY <2>5, <2>8, PendingJoined
    <3>2. one \o ann \in Seq(Event)
      BY <2>5, <2>8, Joined
    <3> QED  BY <2>6, <2>8, <3>1, <3>2
  <2>10. s \in Seq(Event)
    BY <1>0, QueueTypes
  <2>11. events'[p] = s \o (one \o ann)
    <3>1. events \in [Peer -> Seq(Event)]
      BY DEF TypeInv, TypeOK
    <3> QED  BY <1>0, <2>2, <3>1 DEF one
  <2> HIDE DEF s, text
  <2>12. Pending(events'[p]) = Pending(s) \cup fresh
    BY <2>9, <2>10, <2>11, PendingJoined
  <2>13. fresh \cup announced = announced'
    BY <2>1 DEF fresh
  <2>14. tracks \cup {Found(v) : v \in Pending(s)}
             = {Found(x) : x \in announced}
    BY DEF Tracked, Kept, s
  <2>15. {Found(v) : v \in Pending(events'[p])}
             = {Found(v) : v \in Pending(s)} \cup {Found(v) : v \in fresh}
    BY <2>12
  <2>16. {Found(x) : x \in announced'}
             = {Found(x) : x \in announced} \cup {Found(v) : v \in fresh}
    BY <2>13
  <2>17. tracks' \cup {Found(v) : v \in Pending(events'[p])}
             = {Found(x) : x \in announced'}
    BY <2>1, <2>14, <2>15, <2>16
  <2> QED  BY <2>17 DEF Tracked, Kept
<1> QED  BY <1>1, <1>2

LEMMA TrackedStep ==
    ASSUME TypeInv, Tracked, [Next]_vars
    PROVE  Tracked'
<1>1. CASE UNCHANGED vars \/ AddTrack
  <2>1. UNCHANGED <<tracks, announced, events>>
    BY <1>1 DEF vars, libVars, AddTrack
  <2> QED  BY <2>1, TrackedElsewhere
<1>2. ASSUME NEW p \in Peer,
             \/ LibGathers(p) \/ LibGatheringEnds(p)
             \/ LibConnects(p) \/ LibFails(p)
      PROVE  Tracked'
  BY <1>2, HushedLibrary, TrackedHushed
<1>3. ASSUME NEW p \in Peer, CbRun(p) PROVE Tracked'
  BY <1>3, TrackedRan
<1>4. ASSUME NEW p \in Peer, Lock(p) PROVE Tracked'
  <2>1. CASE UNCHANGED <<tracks, announced, events>>
    BY <2>1, TrackedElsewhere
  <2>2. CASE ~ UNCHANGED <<tracks, announced, events>>
    BY <1>4, <2>2, HushedLock, TrackedHushed
  <2> QED  BY <2>1, <2>2
<1>5. ASSUME NEW p \in Peer,
             \/ Measure(p) \/ Create(p) \/ SendCandidate(p) \/ Connected(p)
             \/ TimesOut(p) \/ AddRemoteCandidate(p)
      PROVE  Tracked'
  <2>1. UNCHANGED <<tracks, announced, events>>
    BY <1>5 DEF Measure, Create, SendCandidate, Connected, TimesOut,
                AddRemoteCandidate, libVars
  <2> QED  BY <2>1, TrackedElsewhere
<1>6. CASE SetRemoteOffer
  BY <1>6, TrackedOffer
<1>7. CASE SetRemoteAnswer
  <2>1. UNCHANGED <<tracks, announced>>
    BY <1>7 DEF SetRemoteAnswer, Refuse, libVars
  <2>2. events'["answerer"] = events["answerer"]
    BY <1>7 DEF SetRemoteAnswer, Refuse, Raise, libVars, TypeInv, TypeOK, Peer
  <2> QED  BY <2>1, <2>2, TrackedElsewhere
<1> QED  BY <1>1, <1>2, <1>3, <1>4, <1>5, <1>6, <1>7 DEF Next, AppStep

LEMMA TracksFollow ==
    ASSUME TypeInv, Tracked, "planBStreamOnly" \notin Styles
    PROVE  TracksSurvive
<1> DEFINE s == events["answerer"]
<1>1. s \in Seq(Event) /\ \A i \in DOMAIN s : s[i] \in Event
  BY QueueTypes DEF Peer
<1>2. \A i \in DOMAIN s : s[i].kind = "track" =>
          MsidOf(s[i].value) = Found(s[i].value)
  BY <1>1, EventKinds, MsidIsFound
<1> HIDE DEF s
<1>3. {MsidOf(s[i].value) : i \in {j \in DOMAIN s : s[j].kind = "track"}}
          = {Found(v) : v \in Pending(s)}
  BY <1>2 DEF Pending
<1>4. \A x \in Section : Found(x) = Promised(x)
  BY DEF Section, Found
<1>5. announced \subseteq Section
  BY DEF TypeInv, TypeOK
<1>6. {Found(x) : x \in announced} = {Promised(x) : x \in announced}
  BY <1>4, <1>5
<1> QED  BY <1>3, <1>6 DEF Tracked, Kept, TracksSurvive, s

----------------------------------------------------------------------------
LEMMA OthersInit == Init => Waited /\ NeverTooSmall /\ Tracked
<1> SUFFICES ASSUME Init PROVE Waited /\ NeverTooSmall /\ Tracked
  OBVIOUS
<1>1. \A p \in Peer : at[p] = "ready" /\ wire[p] = <<>>
  BY DEF Init
<1>2. tracks = {} /\ announced = {} /\ events["answerer"] = <<>>
  BY DEF Init, Peer
<1>3. Waited
  BY <1>1 DEF Waited, Sized, Full
<1>4. NeverTooSmall
  BY <1>1 DEF NeverTooSmall
<1>5. Tracked
  BY <1>2, PendingQuiet DEF Tracked, Kept
<1> QED  BY <1>3, <1>4, <1>5

\* The inductive invariant of the negotiation.
NegotiationInv == /\ PublishedInv
                  /\ Protocol
                  /\ Waited /\ NeverTooSmall
                  /\ Tracked

LEMMA NegotiationInvHolds == Spec => []NegotiationInv
<1>1. Init => NegotiationInv
  BY TypeInit, TruthfulInit, OrderedInit, ProtocolInit, OthersInit
     DEF NegotiationInv, PublishedInv
<1>2. NegotiationInv /\ [Next]_vars => NegotiationInv'
  BY TypeStep, TruthfulStep, OrderedStep, ProtocolStep, WaitedStep, RoomStep,
     TrackedStep DEF NegotiationInv, PublishedInv
<1> QED  BY <1>1, <1>2, PTL DEF Spec

\* The order of calls README shows is refused in no round, whichever side
\* trickles and however the callbacks and messages interleave
\* (AlloDataChannel.swift:243-269).
THEOREM NothingRefused == Spec => []NeverRefused
<1>1. NegotiationInv => NeverRefused
  BY DEF NegotiationInv, Protocol, Agrees, NeverRefused
<1> QED  BY <1>1, NegotiationInvHolds, PTL

\* A side that waits for gathering sends every candidate it will ever find,
\* for any number of them, in every round (README, "Wait for ICE gathering
\* to finish"); the room that createOffer and createAnswer make suffices,
\* whatever the slack (AlloDataChannel.swift:225-227, 235-237).
THEOREM SentAllComplete == Spec => []SentIsComplete
<1>1. NegotiationInv => SentIsComplete
  BY Peers DEF NegotiationInv, Waited, Full, SentIsComplete
<1> QED  BY <1>1, NegotiationInvHolds, PTL

\* Every announced section becomes a track with the ids it promises, or is
\* still to be called back about, unless it leaves the track id out of an
\* a=ssrc line (AlloDataChannel.swift:490-512, 660-667).
THEOREM TracksAllSurvive ==
    ASSUME "planBStreamOnly" \notin Styles PROVE Spec => []TracksSurvive
<1>1. NegotiationInv => TracksSurvive
  BY TracksFollow DEF NegotiationInv, PublishedInv
<1> QED  BY <1>1, NegotiationInvHolds, PTL

\* A track callback traps at a section of that one style and at no other,
\* whatever its ids (AlloDataChannel.swift:664).
TrapsStreamOnly ==
    NotFound \in tracks => \E s \in announced : s[2] = "planBStreamOnly"

THEOREM OnlyStreamOnlyTraps == Spec => []TrapsStreamOnly
<1>1. Tracked => TrapsStreamOnly
  <2> SUFFICES ASSUME Tracked, NotFound \in tracks
               PROVE  \E s \in announced : s[2] = "planBStreamOnly"
    BY DEF TrapsStreamOnly
  <2>1. PICK s \in announced : NotFound = Found(s)
    BY DEF Tracked, Kept
  <2>2. Promised(s).found /\ ~NotFound.found
    BY DEF Promised, Ids, NotFound
  <2> QED  BY <2>1, <2>2 DEF Found
<1> QED  BY <1>1, NegotiationInvHolds, PTL DEF NegotiationInv

----------------------------------------------------------------------------
\* The exchange takes turns: Signalling implements OfferAnswer.

Resting == {"ready", "connecting", "gaveUp"}
Single(s) ==
    \A i, j \in DOMAIN s : s[i].kind = "description"
                               /\ s[j].kind = "description" => i = j
Offers(s) ==
    \A i \in DOMAIN s : s[i].kind = "description" =>
        s[i].value.sections = sections

\* A description on a wire is the only one there and on neither wire is
\* another; an offer finds the answerer at rest, an answer leaves it so, and
\* whoever makes or has just taken one is waited for by the offerer.
Turns ==
    /\ \A p \in Peer : Single(wire[p])
    /\ Offers(wire["answerer"]) /\ announced \subseteq sections
    /\ Mentions(wire["answerer"]) => ~Mentions(wire["offerer"])
    /\ \A p \in Peer : Mentions(wire[p]) =>
           /\ at["offerer"] = "sent"
           /\ at["answerer"] \in Resting /\ signaling["answerer"] = "stable"
    /\ at["answerer"] \in Resting
           \/ /\ at["answerer"] \in {"accepted", "locked", "sized", "tooSmall"}
              /\ at["offerer"] = "sent"
    /\ signaling["answerer"] # "stable" =>
           signaling["answerer"] = "haveRemoteOffer" /\ at["answerer"] = "accepted"
    /\ at["offerer"] = "done" => signaling["offerer"] = "stable"

\* One message more, one less.
LEMMA WireLonger ==
    ASSUME NEW s \in Seq(Message), NEW m \in Message, Single(s),
           m.kind = "description" => ~Mentions(s)
    PROVE  /\ Single(Append(s, m))
           /\ Mentions(Append(s, m)) <=> Mentions(s) \/ m.kind = "description"
           /\ Offers(s) /\ (m.kind = "description" => m.value.sections = sections)
                  => Offers(Append(s, m))
<1> DEFINE t == Append(s, m)
<1>1. /\ \A i \in 1 .. Len(s) : t[i] = s[i]
      /\ t[Len(s) + 1] = m
      /\ DOMAIN t = 1 .. Len(s) + 1
      /\ DOMAIN s = 1 .. Len(s) /\ Len(s) \in Nat
  BY Appended
<1> SUFFICES /\ Single(t)
             /\ Mentions(t) <=> Mentions(s) \/ m.kind = "description"
             /\ Offers(s) /\ (m.kind = "description" => m.value.sections = sections)
                    => Offers(t)
  OBVIOUS
<1> HIDE DEF t
<1>2. \A i \in DOMAIN t : \/ i = Len(s) + 1 /\ t[i] = m
                          \/ i \in DOMAIN s /\ t[i] = s[i]
  BY <1>1
<1>3. \A i \in DOMAIN s : i \in DOMAIN t /\ t[i] = s[i]
  BY <1>1
<1>4. Len(s) + 1 \in DOMAIN t
  BY <1>1
<1>5. Single(t)
  BY <1>2 DEF Single, Mentions
<1>6. Mentions(t) <=> Mentions(s) \/ m.kind = "description"
  BY <1>1, <1>2, <1>3, <1>4 DEF Mentions
<1>7. Offers(s) /\ (m.kind = "description" => m.value.sections = sections)
          => Offers(t)
  BY <1>2 DEF Offers
<1> QED  BY <1>5, <1>6, <1>7

LEMMA WireShorter ==
    ASSUME NEW s \in Seq(Message), s # <<>>, Single(s)
    PROVE  /\ Single(Tail(s))
           /\ Mentions(Tail(s)) => Mentions(s)
           /\ Head(s).kind = "description" => ~Mentions(Tail(s)) /\ Mentions(s)
           /\ Head(s).kind # "description" => (Mentions(Tail(s)) <=> Mentions(s))
           /\ Offers(s) => /\ Offers(Tail(s))
                           /\ Head(s).kind = "description" =>
                                  Head(s).value.sections = sections
<1> DEFINE t == Tail(s)
<1>1. /\ t \in Seq(Message) /\ Len(s) \in Nat \ {0} /\ Len(t) = Len(s) - 1
      /\ Head(s) = s[1]
      /\ \A i \in 1 .. Len(s) - 1 : t[i] = s[i + 1]
  BY Shortened
<1>2. DOMAIN t = 1 .. Len(s) - 1 /\ DOMAIN s = 1 .. Len(s)
  BY <1>1
<1> HIDE DEF t
<1>3. \A i \in DOMAIN t : i + 1 \in DOMAIN s /\ t[i] = s[i + 1] /\ i + 1 # 1
  BY <1>1, <1>2
<1>4. \A i \in DOMAIN s : i = 1 \/ (i - 1 \in DOMAIN t /\ t[i - 1] = s[i])
  BY <1>1, <1>2
<1>5. 1 \in DOMAIN s
  BY <1>1, <1>2
<1>6. Single(t)
  <2> SUFFICES ASSUME NEW i \in DOMAIN t, NEW j \in DOMAIN t,
                      t[i].kind = "description", t[j].kind = "description"
               PROVE  i = j
    BY DEF Single
  <2>1. i + 1 = j + 1
    BY <1>3 DEF Single
  <2> QED  BY <2>1, <1>1, <1>2
<1>7. Mentions(t) => Mentions(s)
  BY <1>3 DEF Mentions
<1>8. s[1].kind = "description" => ~Mentions(t) /\ Mentions(s)
  BY <1>3, <1>5 DEF Mentions, Single
<1>9. s[1].kind # "description" => (Mentions(s) => Mentions(t))
  BY <1>4 DEF Mentions
<1>10. Offers(s) => Offers(t) /\ (s[1].kind = "description" =>
                                     s[1].value.sections = sections)
  BY <1>3, <1>5 DEF Offers
<1> QED  BY <1>1, <1>6, <1>7, <1>8, <1>9, <1>10 DEF t

\* A step that OfferAnswer does not see.
Unseen == UNCHANGED <<signaling, round, sections, announced>>
LEMMA Stutters ==
    ASSUME Unseen, Mail' = Mail
    PROVE  [Exchange!Next]_(Exchange!vars)
BY DEF Unseen, Exchange!vars

\* What each step does: it keeps the turns, and OfferAnswer takes a step or
\* sees nothing.

LEMMA TurnsTypes ==
    ASSUME TypeInv
    PROVE  /\ at \in [Peer -> Place] /\ wire \in [Peer -> Seq(Message)]
           /\ signaling \in [Peer -> {"stable", "haveLocalOffer",
                                      "haveRemoteOffer"}]
           /\ "offerer" \in Peer /\ "answerer" \in Peer
           /\ \A p \in Peer : p = "offerer" \/ p = "answerer"
           /\ Other("offerer") = "answerer" /\ Other("answerer") = "offerer"
BY DEF TypeInv, TypeOK, Peer, Other

LEMMA TurnsQuiet ==
    ASSUME Turns, UNCHANGED <<at, wire>>, Unseen
    PROVE  Turns' /\ [Exchange!Next]_(Exchange!vars)
<1>1. Turns'
  BY DEF Turns, Unseen, Single, Mentions, Offers
<1>2. Mail' = Mail
  BY DEF Unseen, Mail, Outstanding, Mentions
<1> QED  BY <1>1, <1>2, Stutters

LEMMA TurnsTrack ==
    ASSUME TypeInv, Protocol, Turns, AddTrack
    PROVE  Turns' /\ [Exchange!Next]_(Exchange!vars)
<1>0. /\ at["offerer"] = "ready" /\ signaling["offerer"] = "stable"
      /\ UNCHANGED <<at, wire, signaling, round, announced>>
  BY TurnsTypes DEF AddTrack, Protocol, Agrees, appVars
<1>1. PICK s \in Section : s \notin sections /\ sections' = sections \cup {s}
  BY DEF AddTrack, Section
<1>2. ~Mentions(wire["answerer"])
  BY <1>0, TurnsTypes DEF Turns
<1>3. Offers(wire["answerer"])'
  BY <1>0, <1>2 DEF Offers, Mentions
<1>4. Turns'
  BY <1>0, <1>1, <1>3 DEF Turns, Single, Mentions
<1>5. Mail' = Mail
  BY <1>0 DEF Mail, Outstanding, Mentions
<1>6. Exchange!AddTrack
  BY <1>0, <1>1, <1>5 DEF Exchange!AddTrack
<1> QED  BY <1>4, <1>6 DEF Exchange!Next

LEMMA TurnsLock ==
    ASSUME TypeInv, Protocol, Turns, NEW p \in Peer, Lock(p)
    PROVE  Turns' /\ [Exchange!Next]_(Exchange!vars)
<1>0. signaling[p] = IF p = "offerer" THEN "stable" ELSE "haveRemoteOffer"
  BY DEF Protocol, Agrees, Lock, Peer
<1>1. /\ at' = [at EXCEPT ![p] = "locked"]
      /\ signaling' = [signaling EXCEPT ![p] =
             IF p = "offerer" THEN "haveLocalOffer" ELSE "stable"]
      /\ round' = IF p = "offerer" THEN round + 1 ELSE round
      /\ UNCHANGED <<wire, sections, announced>>
  BY <1>0 DEF Lock, Goto
<1>2. CASE p = "offerer"
  <2>1. at["offerer"] = "ready" /\ round < Rounds
    BY <1>2 DEF Lock
  <2>2. \A q \in Peer : ~Mentions(wire[q])
    BY <2>1 DEF Turns
  <2>3. at["answerer"] \in Resting /\ signaling["answerer"] = "stable"
    BY <2>1 DEF Turns, Resting
  <2>4. /\ at'["offerer"] = "locked" /\ at'["answerer"] = at["answerer"]
        /\ signaling'["offerer"] = "haveLocalOffer"
        /\ signaling'["answerer"] = signaling["answerer"]
    BY <1>1, <1>2, TurnsTypes
  <2>5. Turns'
    BY <1>1, <2>2, <2>3, <2>4 DEF Turns, Single, Mentions, Offers
  <2>6. Mail = "none" /\ Mail' = "offer"
    BY <1>0, <1>2, <2>4 DEF Mail, Outstanding
  <2>7. Exchange!MakeOffer
    BY <1>0, <1>1, <1>2, <2>1, <2>3, <2>4, <2>6 DEF Exchange!MakeOffer
  <2> QED  BY <2>5, <2>7 DEF Exchange!Next
<1>3. CASE p = "answerer"
  <2>1. at["answerer"] = "accepted" /\ signaling["answerer"] = "haveRemoteOffer"
    BY <1>0, <1>3 DEF Lock
  <2>2. at["offerer"] = "sent" /\ \A q \in Peer : ~Mentions(wire[q])
    BY <2>1 DEF Turns, Resting
  <2>3. /\ at'["answerer"] = "locked" /\ at'["offerer"] = at["offerer"]
        /\ signaling'["answerer"] = "stable"
        /\ signaling'["offerer"] = signaling["offerer"]
    BY <1>1, <1>3, TurnsTypes
  <2>4. Turns'
    BY <1>1, <2>2, <2>3 DEF Turns, Single, Mentions, Offers
  <2>5. signaling["offerer"] = "haveLocalOffer"
    BY <2>2, TurnsTypes DEF Protocol, Agrees
  <2>6. ~Mentions(wire["answerer"])
    BY <2>2, TurnsTypes
  <2>7. Mail' = "answer"
    BY <1>1, <2>2, <2>3, <2>5, <2>6 DEF Mail, Outstanding, Mentions
  <2>8. Exchange!MakeAnswer
    BY <1>1, <1>3, <2>1, <2>3, <2>7 DEF Exchange!MakeAnswer
  <2> QED  BY <2>4, <2>8 DEF Exchange!Next
<1> QED  BY <1>2, <1>3, TurnsTypes

LEMMA TurnsWaits ==
    ASSUME TypeInv, Protocol, Turns, NEW p \in Peer,
           Measure(p) \/ Connected(p) \/ TimesOut(p)
    PROVE  Turns' /\ [Exchange!Next]_(Exchange!vars)
<1>0. UNCHANGED wire /\ Unseen
  BY DEF Measure, Connected, TimesOut, libVars, Unseen
<1>1. PICK place \in {"sized", "ready", "done", "gaveUp"} :
          /\ at' = [at EXCEPT ![p] = place]
          /\ place = "sized" <=> Measure(p)
          /\ place \in {"ready", "done"} => at[p] = "connecting"
          /\ place = "done" => p = "offerer"
          /\ place = "sized" => at[p] = "locked"
          /\ place = "gaveUp" => at[p] \in {"locked", "connecting"}
  <2>1. CASE Measure(p)
    BY <2>1 DEF Measure, Goto
  <2>2. CASE Connected(p) /\ ~Measure(p)
    BY <2>2 DEF Connected, Goto
  <2>3. CASE TimesOut(p) /\ ~Measure(p)
    BY <2>3 DEF TimesOut, Goto
  <2> QED  BY <2>1, <2>2, <2>3
<1>2. CASE p = "offerer"
  <2>1. /\ at'["offerer"] = place /\ at'["answerer"] = at["answerer"]
        /\ at["offerer"] # "sent" /\ place # "sent"
    BY <1>1, <1>2, TurnsTypes
  <2>2. ~Mentions(wire["offerer"]) /\ ~Mentions(wire["answerer"])
    BY <2>1, TurnsTypes DEF Turns
  <2>3. at["answerer"] \in Resting
    BY <2>1 DEF Turns
  <2>4. place = "done" => signaling["offerer"] = "stable"
    BY <1>1, <1>2 DEF Protocol, Agrees
  <2>5. Turns'
    BY <1>0, <2>1, <2>2, <2>3, <2>4, TurnsTypes
       DEF Turns, Unseen, Single, Mentions, Offers
  <2>6. Mail' = Mail
    BY <1>0, <2>1 DEF Mail, Outstanding, Unseen
  <2> QED  BY <1>0, <2>5, <2>6, Stutters
<1>3. CASE p = "answerer"
  <2>1. /\ at'["answerer"] = place /\ at'["offerer"] = at["offerer"]
        /\ at["answerer"] # "accepted"
    BY <1>1, <1>3, TurnsTypes
  <2>2. \/ place \in Resting
        \/ place = "sized" /\ at["offerer"] = "sent"
    BY <1>1, <1>3 DEF Turns, Resting
  <2>3. place = "sized" => \A q \in Peer : ~Mentions(wire[q])
    BY <1>1, <1>3 DEF Turns, Resting
  <2>4. Turns'
    BY <1>0, <2>1, <2>2, <2>3, TurnsTypes
       DEF Turns, Unseen, Single, Mentions, Offers
  <2>5. Mail' = Mail
    BY <1>0, <2>1 DEF Mail, Outstanding, Unseen, Mentions
  <2> QED  BY <1>0, <2>4, <2>5, Stutters
<1> QED  BY <1>2, <1>3, TurnsTypes

LEMMA TurnsCreate ==
    ASSUME TypeInv, Protocol, Turns, NEW p \in Peer, Create(p)
    PROVE  Turns' /\ [Exchange!Next]_(Exchange!vars)
<1>0. at[p] = "sized" /\ Unseen
  BY DEF Create, libVars, Unseen
<1>t. "offerer" \in Peer /\ "answerer" \in Peer
      /\ \A q \in Peer : q = "offerer" \/ q = "answerer"
  BY TurnsTypes
<1>s. \A q \in Peer : Single(wire[q])
  BY DEF Turns
<1>1. \A q \in Peer : ~Mentions(wire[q])
  <2>1. CASE p = "offerer"
    BY <1>0, <2>1 DEF Turns
  <2>2. CASE p = "answerer"
    BY <1>0, <2>2 DEF Turns, Resting
  <2> QED  BY <2>1, <2>2, TurnsTypes
<1>2. CASE gathered[p] > capacity[p]
  <2>1. at' = [at EXCEPT ![p] = "tooSmall"] /\ UNCHANGED wire
    BY <1>2 DEF Create, Goto
  <2>2. CASE p = "offerer"
    <3>1. /\ at'["offerer"] = "tooSmall" /\ at'["answerer"] = at["answerer"]
          /\ at["answerer"] \in Resting /\ at["offerer"] = "sized"
      BY <1>0, <2>1, <2>2, TurnsTypes DEF Turns
    <3>2. Turns'
      BY <1>0, <1>1, <2>1, <3>1, TurnsTypes
         DEF Turns, Unseen, Single, Mentions, Offers
    <3>3. Mail' = Mail
      BY <1>0, <3>1 DEF Mail, Outstanding, Unseen
    <3> QED  BY <1>0, <3>2, <3>3, Stutters
  <2>3. CASE p = "answerer"
    <3>1. /\ at'["answerer"] = "tooSmall" /\ at'["offerer"] = at["offerer"]
          /\ at["offerer"] = "sent"
      BY <1>0, <2>1, <2>3, TurnsTypes DEF Turns, Resting
    <3>2. Turns'
      BY <1>0, <1>1, <2>1, <3>1, TurnsTypes
         DEF Turns, Unseen, Single, Mentions, Offers
    <3>3. Mail' = Mail
      BY <1>0, <2>1, <3>1 DEF Mail, Outstanding, Unseen, Mentions
    <3> QED  BY <1>0, <3>2, <3>3, Stutters
  <2> QED  BY <2>2, <2>3, TurnsTypes
<1>3. CASE ~(gathered[p] > capacity[p])
  <2> DEFINE m == Ev("description", Text(p))
             o == Other(p)
             s == Append(wire[o], m)
  <2>1. /\ at' = [at EXCEPT ![p] = IF p = "offerer" THEN "sent"
                                                    ELSE "connecting"]
        /\ wire' = [wire EXCEPT ![o] = s]
    BY <1>3 DEF Create, Goto, Send
  <2>2. m \in Message /\ m.kind = "description" /\ m.value.sections = sections
    BY TextType, EventTypes DEF TypeInv, Ev, Text
  <2>3. o \in Peer /\ Other(o) = p
    BY DEF Peer, Other
  <2>4. Single(wire[o]) /\ wire[o] \in Seq(Message) /\ ~Mentions(wire[o])
    BY <1>1, <2>3, TurnsTypes DEF Turns
  <2>5. Single(s) /\ Mentions(s) /\ (Offers(wire[o]) => Offers(s))
    BY <2>2, <2>4, WireLonger
  <2> HIDE DEF m, s
  <2>6. CASE p = "offerer"
    <3>1. /\ at'["offerer"] = "sent" /\ at'["answerer"] = at["answerer"]
          /\ at["answerer"] \in Resting /\ at["offerer"] = "sized"
          /\ wire'["answerer"] = s /\ wire'["offerer"] = wire["offerer"]
          /\ o = "answerer"
      BY <1>0, <2>1, <2>6, TurnsTypes DEF Turns
    <3>2. signaling["answerer"] = "stable"
      BY <3>1 DEF Turns, Resting
    <3>3. sections' = sections /\ announced' = announced
          /\ signaling' = signaling
      BY <1>0 DEF Unseen
    <3>4. Offers(wire["answerer"])'
      BY <2>5, <3>1, <3>3 DEF Offers, Turns
    <3>5. /\ Mentions(wire["answerer"])' /\ ~Mentions(wire["offerer"])'
          /\ \A q \in Peer : Single(wire[q])'
      <4>1. Mentions(wire["answerer"])'
        BY <2>5, <3>1 DEF Mentions
      <4>2. ~Mentions(wire["offerer"])'
        BY <1>1, <1>t, <3>1 DEF Mentions
      <4>3. Single(wire["answerer"])'
        BY <2>5, <3>1 DEF Single
      <4>4. Single(wire["offerer"])'
        BY <1>s, <1>t, <3>1 DEF Single
      <4> QED  BY <1>t, <4>1, <4>2, <4>3, <4>4
    <3>6. Turns'
      BY <3>1, <3>2, <3>3, <3>4, <3>5, TurnsTypes DEF Turns
    <3>7. Mail' = Mail
      BY <3>1, <3>3, <3>5 DEF Mail, Outstanding
    <3> QED  BY <1>0, <3>6, <3>7, Stutters
  <2>7. CASE p = "answerer"
    <3>1. /\ at'["answerer"] = "connecting" /\ at'["offerer"] = at["offerer"]
          /\ at["offerer"] = "sent"
          /\ wire'["offerer"] = s /\ wire'["answerer"] = wire["answerer"]
      BY <1>0, <2>1, <2>7, TurnsTypes DEF Turns, Resting
    <3>2. signaling["answerer"] = "stable"
      BY <1>0, <2>7 DEF Turns
    <3>3. sections' = sections /\ announced' = announced
          /\ signaling' = signaling
      BY <1>0 DEF Unseen
    <3>4. Offers(wire["answerer"])'
      BY <3>1, <3>3 DEF Offers, Turns
    <3>5. /\ Mentions(wire["offerer"])' /\ ~Mentions(wire["answerer"])'
          /\ \A q \in Peer : Single(wire[q])'
      <4>1. Mentions(wire["offerer"])'
        BY <2>5, <3>1 DEF Mentions
      <4>2. ~Mentions(wire["answerer"])'
        BY <1>1, <1>t, <3>1 DEF Mentions
      <4>3. Single(wire["offerer"])'
        BY <2>5, <3>1 DEF Single
      <4>4. Single(wire["answerer"])'
        BY <1>s, <1>t, <3>1 DEF Single
      <4> QED  BY <1>t, <4>1, <4>2, <4>3, <4>4
    <3>6. Turns'
      BY <3>1, <3>2, <3>3, <3>4, <3>5, TurnsTypes DEF Turns, Resting
    <3>7. Mail' = Mail
      BY <1>1, <3>1, <3>3, <3>5, TurnsTypes DEF Mail, Outstanding
    <3> QED  BY <1>0, <3>6, <3>7, Stutters
  <2> QED  BY <2>6, <2>7, TurnsTypes
<1> QED  BY <1>2, <1>3

\* Candidates come and go.
LEMMA TurnsSame ==
    ASSUME TypeInv, Turns, UNCHANGED at, Unseen,
           \A q \in Peer : /\ Single(wire'[q])
                           /\ Mentions(wire'[q]) <=> Mentions(wire[q]),
           Offers(wire'["answerer"])
    PROVE  Turns' /\ [Exchange!Next]_(Exchange!vars)
<1>1. /\ "offerer" \in Peer /\ "answerer" \in Peer
      /\ \A q \in Peer : q = "offerer" \/ q = "answerer"
  BY TurnsTypes
<1>2. \A q \in Peer : Single(wire[q])' /\ (Mentions(wire[q])' <=> Mentions(wire[q]))
  BY DEF Single, Mentions
<1>3. Offers(wire["answerer"])'
  BY DEF Offers, Unseen
<1>4. at' = at /\ signaling' = signaling /\ sections' = sections
      /\ announced' = announced
  BY DEF Unseen
<1>5. Turns'
  BY <1>1, <1>2, <1>3, <1>4 DEF Turns
<1>6. Mail' = Mail
  BY <1>1, <1>2, <1>4 DEF Mail, Outstanding
<1> QED  BY <1>5, <1>6, Stutters

LEMMA TurnsSendsCandidate ==
    ASSUME TypeInv, Turns, NEW p \in Peer, SendCandidate(p)
    PROVE  Turns' /\ [Exchange!Next]_(Exchange!vars)
<1> DEFINE n == trickled[p] + 1
           shown == pub[p].candidates
           m == Ev("candidate", shown[n])
           o == Other(p)
           s == Append(wire[o], m)
<1>1. /\ shown \in Seq(Candidate) /\ trickled[p] < Len(shown)
  BY QueueTypes DEF SendCandidate, Published
<1>2. trickled[p] \in Nat
  BY CandidateNumbers DEF TypeInv, TypeOK
<1>3. m \in Message /\ m.kind # "description"
  <2>1. shown[n] \in Candidate
    BY <1>1, <1>2
  <2> QED  BY <2>1, EventTypes DEF Ev
<1>4. at' = at /\ Unseen /\ wire' = [wire EXCEPT ![o] = s]
  BY DEF SendCandidate, libVars, Send, Unseen
<1>5. o \in Peer /\ wire[o] \in Seq(Message) /\ Single(wire[o])
  BY TurnsTypes DEF Turns, Peer, Other
<1> HIDE DEF m
<1>6. /\ Single(s) /\ (Mentions(s) <=> Mentions(wire[o]))
      /\ Offers(wire[o]) => Offers(s)
  BY <1>3, <1>5, WireLonger
<1> HIDE DEF s
<1>7. \A q \in Peer : wire'[q] = IF q = o THEN s ELSE wire[q]
  BY <1>4, <1>5, TurnsTypes
<1>8. \A q \in Peer : Single(wire[q])
  BY DEF Turns
<1>9. \A q \in Peer : /\ Single(wire'[q])
                      /\ Mentions(wire'[q]) <=> Mentions(wire[q])
  BY <1>6, <1>7, <1>8
<1>10. Offers(wire["answerer"]) /\ "answerer" \in Peer
  BY TurnsTypes DEF Turns
<1>11. Offers(wire'["answerer"])
  BY <1>6, <1>7, <1>10
<1> QED  BY <1>4, <1>9, <1>11, TurnsSame

LEMMA TurnsCandidate ==
    ASSUME TypeInv, Protocol, Turns, NEW p \in Peer, AddRemoteCandidate(p)
    PROVE  Turns' /\ [Exchange!Next]_(Exchange!vars)
<1> DEFINE s == Tail(wire[p])
<1>1. /\ wire \in [Peer -> Seq(Message)]
      /\ wire[p] # <<>> /\ Head(wire[p]).kind = "candidate"
  BY DEF TypeInv, TypeOK, AddRemoteCandidate, Arrives
<1>2. described[p]
  <2>1. ~Leads(wire[p])
    BY <1>1, HeadFollows
  <2> QED  BY <2>1 DEF Protocol, Talks
<1>3. at' = at /\ Unseen /\ wire' = [wire EXCEPT ![p] = s]
  BY <1>2 DEF AddRemoteCandidate, Taken, Unseen
<1>4. \A q \in Peer : Single(wire[q])
  BY DEF Turns
<1>5. /\ Single(s) /\ (Mentions(s) <=> Mentions(wire[p]))
      /\ Offers(wire[p]) => Offers(s)
  BY <1>1, <1>4, WireShorter
<1> HIDE DEF s
<1>6. \A q \in Peer : wire'[q] = IF q = p THEN s ELSE wire[q]
  BY <1>1, <1>3
<1>7. \A q \in Peer : /\ Single(wire'[q])
                      /\ Mentions(wire'[q]) <=> Mentions(wire[q])
  BY <1>4, <1>5, <1>6
<1>8. Offers(wire["answerer"]) /\ "answerer" \in Peer
  BY TurnsTypes DEF Turns
<1>9. Offers(wire'["answerer"])
  BY <1>5, <1>6, <1>8
<1> QED  BY <1>3, <1>7, <1>9, TurnsSame

LEMMA TurnsOffer ==
    ASSUME TypeInv, Protocol, Turns, SetRemoteOffer
    PROVE  Turns' /\ [Exchange!Next]_(Exchange!vars)
<1> DEFINE p == "answerer"
           s == Tail(wire[p])
<1>t. /\ p \in Peer /\ "offerer" \in Peer
      /\ \A q \in Peer : q = "offerer" \/ q = p
      /\ at \in [Peer -> Place] /\ wire \in [Peer -> Seq(Message)]
      /\ signaling \in [Peer -> {"stable", "haveLocalOffer", "haveRemoteOffer"}]
  BY TurnsTypes
<1>1. /\ at[p] = "ready" /\ wire[p] # <<>>
      /\ Head(wire[p]).kind = "description"
  BY DEF SetRemoteOffer, Arrives
<1>2. signaling[p] = "stable"
  BY <1>1, <1>t DEF Protocol, Agrees
<1>3. /\ at' = [at EXCEPT ![p] = "accepted"]
      /\ signaling' = [signaling EXCEPT ![p] = "haveRemoteOffer"]
      /\ announced' = announced \cup Head(wire[p]).value.sections
      /\ wire' = [wire EXCEPT ![p] = s]
      /\ UNCHANGED <<sections, round>>
  BY <1>2 DEF SetRemoteOffer, Goto, Taken
<1>4. \A q \in Peer : Single(wire[q])
  BY DEF Turns
<1>5. Offers(wire[p]) /\ announced \subseteq sections
  BY DEF Turns
<1>6. /\ Single(s) /\ ~Mentions(s) /\ Mentions(wire[p]) /\ Offers(s)
      /\ Head(wire[p]).value.sections = sections
  BY <1>1, <1>4, <1>5, <1>t, WireShorter
<1>7. ~Mentions(wire["offerer"]) /\ at["offerer"] = "sent"
  BY <1>6, <1>t DEF Turns
<1> HIDE DEF s
<1>8. /\ at'[p] = "accepted" /\ at'["offerer"] = "sent"
      /\ signaling'[p] = "haveRemoteOffer"
      /\ signaling'["offerer"] = signaling["offerer"]
      /\ wire'[p] = s /\ wire'["offerer"] = wire["offerer"]
      /\ announced' = sections /\ sections' = sections /\ round' = round
  BY <1>3, <1>5, <1>6, <1>7, <1>t
<1>9. ~Mentions(wire[p])' /\ ~Mentions(wire["offerer"])'
  BY <1>6, <1>7, <1>8 DEF Mentions
<1>10. Single(wire[p])' /\ Single(wire["offerer"])'
  BY <1>4, <1>6, <1>8, <1>t DEF Single
<1>11. Offers(wire[p])'
  BY <1>6, <1>8 DEF Offers
<1>12. Turns'
  BY <1>8, <1>9, <1>10, <1>11, <1>t DEF Turns
<1>13. signaling["offerer"] = "haveLocalOffer"
  BY <1>7, <1>t DEF Protocol, Agrees
<1>14. Mail = "offer" /\ Mail' = "none"
  BY <1>6, <1>7, <1>8, <1>9, <1>13 DEF Mail, Outstanding
<1>15. Exchange!TakeOffer
  BY <1>2, <1>8, <1>14 DEF Exchange!TakeOffer
<1> QED  BY <1>12, <1>15 DEF Exchange!Next

LEMMA TurnsAnswer ==
    ASSUME TypeInv, Protocol, Turns, SetRemoteAnswer
    PROVE  Turns' /\ [Exchange!Next]_(Exchange!vars)
<1> DEFINE p == "offerer"
           s == Tail(wire[p])
<1>t. /\ p \in Peer /\ "answerer" \in Peer
      /\ \A q \in Peer : q = "answerer" \/ q = p
      /\ at \in [Peer -> Place] /\ wire \in [Peer -> Seq(Message)]
      /\ signaling \in [Peer -> {"stable", "haveLocalOffer", "haveRemoteOffer"}]
  BY TurnsTypes
<1>1. /\ at[p] = "sent" /\ wire[p] # <<>>
      /\ Head(wire[p]).kind = "description"
  BY DEF SetRemoteAnswer, Arrives
<1>2. signaling[p] = "haveLocalOffer"
  BY <1>1, <1>t DEF Protocol, Agrees
<1>3. /\ at' = [at EXCEPT ![p] = "connecting"]
      /\ signaling' = [signaling EXCEPT ![p] = "stable"]
      /\ wire' = [wire EXCEPT ![p] = s]
      /\ UNCHANGED <<sections, round, announced>>
  BY <1>2 DEF SetRemoteAnswer, Goto, Taken
<1>4. \A q \in Peer : Single(wire[q])
  BY DEF Turns
<1>5. Single(s) /\ ~Mentions(s) /\ Mentions(wire[p])
  BY <1>1, <1>4, <1>t, WireShorter
<1>6. /\ ~Mentions(wire["answerer"])
      /\ at["answerer"] \in Resting /\ signaling["answerer"] = "stable"
  BY <1>5, <1>t DEF Turns
<1> HIDE DEF s
<1>7. /\ at'[p] = "connecting" /\ at'["answerer"] = at["answerer"]
      /\ signaling'[p] = "stable"
      /\ signaling'["answerer"] = signaling["answerer"]
      /\ wire'[p] = s /\ wire'["answerer"] = wire["answerer"]
      /\ announced' = announced /\ sections' = sections /\ round' = round
  BY <1>3, <1>t
<1>8. ~Mentions(wire[p])' /\ ~Mentions(wire["answerer"])'
  BY <1>5, <1>6, <1>7 DEF Mentions
<1>9. Single(wire[p])' /\ Single(wire["answerer"])'
  BY <1>4, <1>5, <1>7, <1>t DEF Single
<1>10. Offers(wire["answerer"]) /\ announced \subseteq sections
  BY DEF Turns
<1>11. Offers(wire["answerer"])'
  BY <1>7, <1>10 DEF Offers
<1>12. Turns'
  BY <1>6, <1>7, <1>8, <1>9, <1>10, <1>11, <1>t DEF Turns
<1>13. Mail = "answer" /\ Mail' = "none"
  BY <1>1, <1>2, <1>6, <1>7 DEF Mail, Outstanding
<1>14. Exchange!TakeAnswer
  BY <1>2, <1>7, <1>13 DEF Exchange!TakeAnswer
<1> QED  BY <1>12, <1>14 DEF Exchange!Next

LEMMA TurnsStep ==
    ASSUME TypeInv, Protocol, Turns, [Next]_vars
    PROVE  Turns' /\ [Exchange!Next]_(Exchange!vars)
<1>1. CASE UNCHANGED vars
  <2>1. UNCHANGED <<at, wire>> /\ Unseen
    BY <1>1 DEF vars, libVars, appVars, Unseen
  <2> QED  BY <2>1, TurnsQuiet
<1>2. ASSUME NEW p \in Peer,
             \/ LibGathers(p) \/ LibGatheringEnds(p) \/ LibConnects(p)
             \/ LibFails(p) \/ CbRun(p)
      PROVE  Turns' /\ [Exchange!Next]_(Exchange!vars)
  <2>1. UNCHANGED <<at, wire>> /\ Unseen
    BY <1>2 DEF LibGathers, LibGatheringEnds, LibConnects, LibFails, CbRun,
                appVars, Unseen
  <2> QED  BY <2>1, TurnsQuiet
<1>3. ASSUME NEW p \in Peer, AppStep(p) \/ TimesOut(p)
      PROVE  Turns' /\ [Exchange!Next]_(Exchange!vars)
  BY <1>3, TurnsLock, TurnsWaits, TurnsCreate, TurnsSendsCandidate,
     TurnsCandidate DEF AppStep
<1>4. CASE AddTrack \/ SetRemoteOffer \/ SetRemoteAnswer
  BY <1>4, TurnsTrack, TurnsOffer, TurnsAnswer
<1> QED  BY <1>1, <1>2, <1>3, <1>4 DEF Next

LEMMA TurnsInit == Init => Turns /\ Exchange!Init
<1> SUFFICES ASSUME Init PROVE Turns /\ Exchange!Init
  OBVIOUS
<1>1. /\ "offerer" \in Peer /\ "answerer" \in Peer
      /\ \A p \in Peer : /\ at[p] = "ready" /\ signaling[p] = "stable"
                         /\ wire[p] = <<>>
      /\ sections = {} /\ announced = {} /\ round = 0
  BY DEF Init, Peer
<1>2. \A p \in Peer : ~Mentions(wire[p]) /\ Single(wire[p]) /\ Offers(wire[p])
  BY <1>1 DEF Mentions, Single, Offers
<1>3. Turns
  BY <1>1, <1>2 DEF Turns, Resting
<1>4. Exchange!Init
  BY <1>1 DEF Exchange!Init, Mail
<1> QED  BY <1>3, <1>4

\* The negotiation implements OfferAnswer: for any number of rounds, tracks
\* and candidates, whoever trickles, each offer is taken once and answered
\* once before the next is made, and tells the answerer every track
\* (AlloDataChannel.swift:243-262).
THEOREM ExchangeTakesTurns == Spec => TakesTurns
<1>1. Init => Turns /\ Exchange!Init
  BY TurnsInit
<1>2. NegotiationInv /\ Turns /\ [Next]_vars
          => Turns' /\ [Exchange!Next]_(Exchange!vars)
  BY TurnsStep DEF NegotiationInv, PublishedInv
<1> QED  BY <1>1, <1>2, NegotiationInvHolds, PTL
         DEF Spec, TakesTurns, Exchange!Spec
====
