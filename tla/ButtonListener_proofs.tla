------------------------ MODULE ButtonListener_proofs ------------------------
(* Proofs about ButtonListener, for any keys, intervals, thresholds and      *)
(* bounds: its types, which keys are left down, that the dictation key is    *)
(* heard, how long Command is held, and what the wheel's steps amount to.    *)
EXTENDS ButtonListener, FiniteSetTheorems, SequenceTheorems, TLAPS

ButtonKeys == {Alt} \cup Presets

----------------------------------------------------------------------------
(* The keys down and the microphone once all of q has been sent.             *)

About(q, key) == {i \in DOMAIN q : q[i].to = "hid" /\ q[i].arg = key}

WillBeDown(q, keys, key) ==
  \/ About(q, key) = {} /\ key \in keys
  \/ \E i \in About(q, key) :
       (\A j \in About(q, key) : j <= i) /\ q[i].kind = "press"

Commands(q) == {i \in DOMAIN q : q[i].to = "mic"}

WillHear(q, on) ==
  \/ Commands(q) = {} /\ on
  \/ \E i \in Commands(q) :
       (\A j \in Commands(q) : j <= i) /\ q[i].kind = "start"

(* The effect of one send. *)
KeysAfter(m, keys) ==
  IF m.to # "hid" THEN keys
  ELSE IF m.kind = "press" THEN keys \cup {m.arg} ELSE keys \ {m.arg}

MicAfter(m, on) == IF m.to = "mic" THEN m.kind = "start" ELSE on

LEMMA TailFacts ==
  ASSUME NEW S, NEW q \in Seq(S), q # <<>>
  PROVE  /\ Head(q) = q[1] /\ q[1] \in S
         /\ Tail(q) \in Seq(S)
         /\ Len(q) \in Nat \ {0} /\ Len(Tail(q)) = Len(q) - 1
         /\ DOMAIN q = 1..Len(q) /\ DOMAIN Tail(q) = 1..Len(q) - 1
         /\ \A i \in DOMAIN Tail(q) : Tail(q)[i] = q[i + 1]
  OBVIOUS

LEMMA NothingToSend ==
  ASSUME NEW keys, NEW key, NEW on \in BOOLEAN
  PROVE  /\ WillBeDown(<<>>, keys, key) <=> key \in keys
         /\ WillHear(<<>>, on) <=> on
  BY DEF WillBeDown, About, WillHear, Commands

(* What is still to come decides, and the first send does not matter to it.  *)
LEMMA PeelKeys ==
  ASSUME NEW q \in Seq(Sends), q # <<>>, NEW keys, NEW key
  PROVE  WillBeDown(q, keys, key)
           <=> WillBeDown(Tail(q), KeysAfter(Head(q), keys), key)
  <1> DEFINE t == Tail(q)
  <1>1. /\ Head(q) = q[1] /\ q[1] \in Sends /\ Len(q) \in Nat \ {0}
        /\ DOMAIN q = 1..Len(q) /\ DOMAIN t = 1..Len(q) - 1
        /\ \A i \in DOMAIN t : t[i] = q[i + 1]
    BY TailFacts
  <1>2. \A i \in 1..Len(q) - 1 : i \in About(t, key) <=> i + 1 \in About(q, key)
    BY <1>1 DEF About
  <1>3. \A i \in About(q, key) : i \in Nat /\ (i = 1 \/ i - 1 \in About(t, key))
    BY <1>1 DEF About
  <1>4. \A i \in About(t, key) : i \in Nat \ {0} /\ i + 1 \in About(q, key)
                                 /\ t[i] = q[i + 1]
    BY <1>1 DEF About
  <1>5. 1 \in About(q, key) <=> (q[1].to = "hid" /\ q[1].arg = key)
    BY <1>1 DEF About
  <1>6. q[1].kind \in {"press", "release", "start", "stop", "toggle"}
    BY <1>1 DEF Sends
  <1>7. CASE About(t, key) = {}
    <2>1. WillBeDown(t, KeysAfter(Head(q), keys), key)
            <=> key \in KeysAfter(q[1], keys)
      BY <1>1, <1>7 DEF WillBeDown
    <2>2. About(q, key) \subseteq {1}
      BY <1>3, <1>7
    <2>3. CASE 1 \in About(q, key)
      <3>1. About(q, key) = {1}
        BY <2>2, <2>3
      <3>2. WillBeDown(q, keys, key) <=> q[1].kind = "press"
        BY <3>1 DEF WillBeDown
      <3>3. key \in KeysAfter(q[1], keys) <=> q[1].kind = "press"
        BY <2>3, <1>5 DEF KeysAfter
      <3> QED
        BY <2>1, <3>2, <3>3
    <2>4. CASE 1 \notin About(q, key)
      <3>1. About(q, key) = {}
        BY <2>2, <2>4
      <3>2. WillBeDown(q, keys, key) <=> key \in keys
        BY <3>1 DEF WillBeDown
      <3>3. key \in KeysAfter(q[1], keys) <=> key \in keys
        BY <2>4, <1>5 DEF KeysAfter
      <3> QED
        BY <2>1, <3>2, <3>3
    <2> QED
      BY <2>3, <2>4
  <1>8. CASE About(t, key) # {}
    <2>1. About(q, key) # {}
      BY <1>4, <1>8
    <2>2. ASSUME NEW i \in About(t, key), \A j \in About(t, key) : j <= i,
                 t[i].kind = "press"
          PROVE  WillBeDown(q, keys, key)
      <3>1. \A j \in About(q, key) : j <= i + 1
        BY <1>3, <1>4, <2>2
      <3>2. i + 1 \in About(q, key) /\ q[i + 1].kind = "press"
        BY <1>4, <2>2
      <3> QED
        BY <3>1, <3>2 DEF WillBeDown
    <2>3. ASSUME NEW i \in About(q, key), \A j \in About(q, key) : j <= i,
                 q[i].kind = "press"
          PROVE  WillBeDown(t, KeysAfter(Head(q), keys), key)
      <3>1. i # 1
        BY <1>4, <1>8, <2>3
      <3>2. PICK k \in About(t, key) : k + 1 = i
        BY <3>1, <1>3
      <3>3. t[k].kind = "press"
        BY <3>2, <1>4, <2>3
      <3>4. \A j \in About(t, key) : j <= k
        BY <1>4, <3>2, <2>3
      <3> QED
        BY <3>2, <3>3, <3>4, Zenon DEF WillBeDown
    <2> QED
      BY <2>1, <2>2, <2>3, <1>8 DEF WillBeDown
  <1> QED
    BY <1>7, <1>8

LEMMA PeelCommands ==
  ASSUME NEW q \in Seq(Sends), q # <<>>, NEW on \in BOOLEAN
  PROVE  WillHear(q, on) <=> WillHear(Tail(q), MicAfter(Head(q), on))
  <1> DEFINE t == Tail(q)
  <1>1. /\ Head(q) = q[1] /\ q[1] \in Sends /\ Len(q) \in Nat \ {0}
        /\ DOMAIN q = 1..Len(q) /\ DOMAIN t = 1..Len(q) - 1
        /\ \A i \in DOMAIN t : t[i] = q[i + 1]
    BY TailFacts
  <1>3. \A i \in Commands(q) : i \in Nat /\ (i = 1 \/ i - 1 \in Commands(t))
    BY <1>1 DEF Commands
  <1>4. \A i \in Commands(t) : i \in Nat \ {0} /\ i + 1 \in Commands(q)
                                 /\ t[i] = q[i + 1]
    BY <1>1 DEF Commands
  <1>5. 1 \in Commands(q) <=> q[1].to = "mic"
    BY <1>1 DEF Commands
  <1>7. CASE Commands(t) = {}
    <2>1. WillHear(t, MicAfter(Head(q), on)) <=> MicAfter(q[1], on)
      BY <1>1, <1>7, Zenon DEF WillHear
    <2>2. Commands(q) \subseteq {1}
      BY <1>3, <1>7
    <2>3. CASE 1 \in Commands(q)
      <3>1. Commands(q) = {1}
        BY <2>2, <2>3
      <3>2. WillHear(q, on) <=> q[1].kind = "start"
        BY <3>1 DEF WillHear
      <3>3. MicAfter(q[1], on) <=> q[1].kind = "start"
        BY <2>3, <1>5 DEF MicAfter
      <3> QED
        BY <2>1, <3>2, <3>3
    <2>4. CASE 1 \notin Commands(q)
      <3>1. Commands(q) = {}
        BY <2>2, <2>4
      <3>2. WillHear(q, on) <=> on
        BY <3>1 DEF WillHear
      <3>3. MicAfter(q[1], on) <=> on
        BY <2>4, <1>5 DEF MicAfter
      <3> QED
        BY <2>1, <3>2, <3>3
    <2> QED
      BY <2>3, <2>4
  <1>8. CASE Commands(t) # {}
    <2>1. Commands(q) # {}
      BY <1>4, <1>8
    <2>2. ASSUME NEW i \in Commands(t), \A j \in Commands(t) : j <= i,
                 t[i].kind = "start"
          PROVE  WillHear(q, on)
      <3>1. \A j \in Commands(q) : j <= i + 1
        BY <1>3, <1>4, <2>2
      <3>2. i + 1 \in Commands(q) /\ q[i + 1].kind = "start"
        BY <1>4, <2>2
      <3> QED
        BY <3>1, <3>2 DEF WillHear
    <2>3. ASSUME NEW i \in Commands(q), \A j \in Commands(q) : j <= i,
                 q[i].kind = "start"
          PROVE  WillHear(t, MicAfter(Head(q), on))
      <3>1. i # 1
        BY <1>4, <1>8, <2>3
      <3>2. PICK k \in Commands(t) : k + 1 = i
        BY <3>1, <1>3
      <3>3. t[k].kind = "start"
        BY <3>2, <1>4, <2>3
      <3>4. \A j \in Commands(t) : j <= k
        BY <1>4, <3>2, <2>3
      <3> QED
        BY <3>2, <3>3, <3>4, Zenon DEF WillHear
    <2> QED
      BY <2>1, <2>2, <2>3, <1>8 DEF WillHear
  <1> QED
    BY <1>7, <1>8

LEMMA LastDecides ==
  ASSUME NEW q \in Seq(Sends), NEW keys, NEW key, NEW i \in 1..Len(q),
         q[i].to = "hid", q[i].arg = key,
         \A j \in 1..Len(q) : j > i => q[j].to # "hid" \/ q[j].arg # key
  PROVE  WillBeDown(q, keys, key) <=> q[i].kind = "press"
  <1>1. DOMAIN q = 1..Len(q) /\ Len(q) \in Nat
    OBVIOUS
  <1>2. i \in About(q, key) /\ \A j \in About(q, key) : j <= i
    BY <1>1 DEF About
  <1>3. ASSUME NEW k \in About(q, key), \A j \in About(q, key) : j <= k
        PROVE  k = i
    BY <1>1, <1>2, <1>3 DEF About
  <1> QED
    BY <1>2, <1>3 DEF WillBeDown

LEMMA Untouched ==
  ASSUME NEW q \in Seq(Sends), NEW keys, NEW key,
         \A j \in 1..Len(q) : q[j].to # "hid" \/ q[j].arg # key
  PROVE  WillBeDown(q, keys, key) <=> key \in keys
  <1>1. DOMAIN q = 1..Len(q)
    OBVIOUS
  <1> QED
    BY <1>1 DEF WillBeDown, About

LEMMA NoCommand ==
  ASSUME NEW q \in Seq(Sends), NEW on \in BOOLEAN,
         \A j \in 1..Len(q) : q[j].to # "mic"
  PROVE  WillHear(q, on) <=> on
  <1>1. DOMAIN q = 1..Len(q)
    OBVIOUS
  <1> QED
    BY <1>1 DEF WillHear, Commands

LEMMA OnlyReleases ==
  ASSUME NEW q \in Seq(Sends), NEW keys, NEW key,
         \A j \in 1..Len(q) : q[j].kind # "press",
         WillBeDown(q, keys, key)
  PROVE  key \in keys /\ \A j \in 1..Len(q) : q[j].to # "hid" \/ q[j].arg # key
  <1>1. DOMAIN q = 1..Len(q)
    OBVIOUS
  <1> QED
    BY <1>1 DEF WillBeDown, About

----------------------------------------------------------------------------
(* What the sends of each handler amount to.                                 *)

LEMMA Joined ==
  ASSUME NEW S, NEW a \in S, NEW b \in S, NEW c \in S
  PROVE  <<a>> \o <<b, c>> = <<a, b, c>>
  <1> DEFINE s == <<a>> \o <<b, c>>
             t == <<a, b, c>>
  <1>1. <<a>> \in Seq(S) /\ <<b, c>> \in Seq(S) /\ t \in Seq(S)
    OBVIOUS
  <1>2. /\ s \in Seq(S) /\ Len(s) = Len(<<a>>) + Len(<<b, c>>)
        /\ \A i \in 1..Len(<<a>>) + Len(<<b, c>>) : s[i] =
             IF i <= Len(<<a>>) THEN <<a>>[i] ELSE <<b, c>>[i - Len(<<a>>)]
    BY <1>1, ConcatProperties
  <1>3. Len(s) = 3 /\ s[1] = a /\ s[2] = b /\ s[3] = c
    BY <1>2
  <1>4. Len(t) = 3 /\ t[1] = a /\ t[2] = b /\ t[3] = c
    OBVIOUS
  <1>5. \A i \in 1..Len(s) : s[i] = t[i]
    BY <1>3, <1>4
  <1> QED
    BY <1>1, <1>2, <1>3, <1>4, <1>5, SeqEqual

LEMMA Extended ==
  ASSUME NEW S, NEW a \in S, NEW b \in S, NEW c \in S, NEW d \in S
  PROVE  <<a, b, c>> \o <<d>> = <<a, b, c, d>>
  <1> DEFINE s == <<a, b, c>> \o <<d>>
             t == <<a, b, c, d>>
  <1>1. <<d>> \in Seq(S) /\ <<a, b, c>> \in Seq(S) /\ t \in Seq(S)
    OBVIOUS
  <1>2. /\ s \in Seq(S) /\ Len(s) = Len(<<a, b, c>>) + Len(<<d>>)
        /\ \A i \in 1..Len(<<a, b, c>>) + Len(<<d>>) : s[i] =
             IF i <= Len(<<a, b, c>>) THEN <<a, b, c>>[i]
             ELSE <<d>>[i - Len(<<a, b, c>>)]
    BY <1>1, ConcatProperties
  <1>3. Len(s) = 4 /\ s[1] = a /\ s[2] = b /\ s[3] = c /\ s[4] = d
    BY <1>2
  <1>4. Len(t) = 4 /\ t[1] = a /\ t[2] = b /\ t[3] = c /\ t[4] = d
    OBVIOUS
  <1>5. \A i \in 1..Len(s) : s[i] = t[i]
    BY <1>3, <1>4
  <1> QED
    BY <1>1, <1>2, <1>3, <1>4, <1>5, SeqEqual

LEMMA Triple ==
  ASSUME NEW S, NEW a \in S, NEW b \in S, NEW c \in S, NEW q, q = <<a, b, c>>
  PROVE  q \in Seq(S) /\ Len(q) = 3 /\ q[1] = a /\ q[2] = b /\ q[3] = c
  OBVIOUS

LEMMA Pair ==
  ASSUME NEW S, NEW a \in S, NEW b \in S, NEW q, q = <<a, b>>
  PROVE  q \in Seq(S) /\ Len(q) = 2 /\ q[1] = a /\ q[2] = b
  OBVIOUS

LEMMA Quadruple ==
  ASSUME NEW S, NEW a \in S, NEW b \in S, NEW c \in S, NEW d \in S,
         NEW q, q = <<a, b, c, d>>
  PROVE  /\ q \in Seq(S) /\ Len(q) = 4
         /\ q[1] = a /\ q[2] = b /\ q[3] = c /\ q[4] = d
  OBVIOUS

LEMMA KeySends ==
  ASSUME NEW key \in KeyCodes
  PROVE  /\ Press(key) \in Sends /\ Press(key).to = "hid"
         /\ Press(key).kind = "press" /\ Press(key).arg = key
         /\ Release(key) \in Sends /\ Release(key).to = "hid"
         /\ Release(key).kind = "release" /\ Release(key).arg = key
  BY DEF Press, Release, Sends

LEMMA OtherSends ==
  /\ MicStart \in Sends /\ MicStart.to = "mic" /\ MicStart.kind = "start"
  /\ MicStop \in Sends /\ MicStop.to = "mic" /\ MicStop.kind = "stop"
  /\ MenuToggle \in Sends /\ MenuToggle.to = "menu"
  BY DEF MicStart, MicStop, MenuToggle, Sends

LEMMA Codes ==
  /\ Alt \in KeyCodes /\ Gui \in KeyCodes /\ Shift \in KeyCodes /\ Tab \in KeyCodes
  /\ Presets \subseteq KeyCodes
  /\ KeyCodes = {Alt, Gui, Shift, Tab} \cup Presets
  BY DEF KeyCodes, ModifierKeys

LEMMA Distinct ==
  /\ Alt # Gui /\ Alt # Shift /\ Gui # Shift
  /\ Tab # Alt /\ Tab # Gui /\ Tab # Shift
  /\ Alt \notin Presets /\ Gui \notin Presets
  /\ Shift \notin Presets /\ Tab \notin Presets
  <1>1. ASSUME NEW a, NEW b, ModifierKeys = {a, b} PROVE FALSE
    <2>1. IsFiniteSet({a}) /\ Cardinality({a}) = 1
      BY FS_Singleton
    <2>2. Cardinality({a} \cup {b}) <= 2
      BY <2>1, FS_AddElement
    <2>3. {a} \cup {b} = {a, b}
      OBVIOUS
    <2> QED
      BY <1>1, <2>2, <2>3, ListenerAssumption
  <1>2. Alt # Gui
    BY <1>1 DEF ModifierKeys
  <1>3. Alt # Shift
    BY <1>1 DEF ModifierKeys
  <1>4. Gui # Shift
    BY <1>1 DEF ModifierKeys
  <1> QED
    BY <1>2, <1>3, <1>4, ListenerAssumption DEF ModifierKeys

LEMMA EnterSends ==
  /\ AppSwitchEnter \in Seq(Sends) /\ Len(AppSwitchEnter) = 3
  /\ AppSwitchEnter[1] = Press(Gui)
  /\ AppSwitchEnter[2] = Press(Tab)
  /\ AppSwitchEnter[3] = Release(Tab)
  <1>1. Press(Gui) \in Sends /\ Press(Tab) \in Sends /\ Release(Tab) \in Sends
    BY KeySends, Codes
  <1>2. AppSwitchEnter = <<Press(Gui), Press(Tab), Release(Tab)>>
    BY <1>1, Joined, Zenon DEF AppSwitchEnter, SendTap
  <1> QED
    BY <1>1, <1>2, Triple

LEMMA ExitSends ==
  /\ AppSwitchExit \in Seq(Sends) /\ Len(AppSwitchExit) = 3
  /\ AppSwitchExit[1] = Release(Tab)
  /\ AppSwitchExit[2] = Release(Shift)
  /\ AppSwitchExit[3] = Release(Gui)
  <1>1. Release(Gui) \in Sends /\ Release(Shift) \in Sends /\ Release(Tab) \in Sends
    BY KeySends, Codes
  <1> QED
    BY <1>1, Triple DEF AppSwitchExit

LEMMA ForwardSends ==
  /\ AppSwitchStep(1) \in Seq(Sends) /\ Len(AppSwitchStep(1)) = 2
  /\ AppSwitchStep(1)[1] = Press(Tab)
  /\ AppSwitchStep(1)[2] = Release(Tab)
  <1>1. Press(Tab) \in Sends /\ Release(Tab) \in Sends
    BY KeySends, Codes
  <1>2. AppSwitchStep(1) = <<Press(Tab), Release(Tab)>>
    BY DEF AppSwitchStep, SendTap
  <1> QED
    BY <1>1, <1>2, Pair

LEMMA BackwardSends ==
  /\ AppSwitchStep(-1) \in Seq(Sends) /\ Len(AppSwitchStep(-1)) = 4
  /\ AppSwitchStep(-1)[1] = Press(Shift)
  /\ AppSwitchStep(-1)[2] = Press(Tab)
  /\ AppSwitchStep(-1)[3] = Release(Tab)
  /\ AppSwitchStep(-1)[4] = Release(Shift)
  <1>1. /\ Press(Shift) \in Sends /\ Press(Tab) \in Sends
        /\ Release(Tab) \in Sends /\ Release(Shift) \in Sends
    BY KeySends, Codes
  <1>2. AppSwitchStep(-1)
          = (<<Press(Shift)>> \o <<Press(Tab), Release(Tab)>>) \o <<Release(Shift)>>
    BY DEF AppSwitchStep, SendTap
  <1>3. <<Press(Shift)>> \o <<Press(Tab), Release(Tab)>>
          = <<Press(Shift), Press(Tab), Release(Tab)>>
    BY <1>1, Joined, Zenon
  <1>4. <<Press(Shift), Press(Tab), Release(Tab)>> \o <<Release(Shift)>>
          = <<Press(Shift), Press(Tab), Release(Tab), Release(Shift)>>
    BY <1>1, Extended, Zenon
  <1>5. AppSwitchStep(-1)
          = <<Press(Shift), Press(Tab), Release(Tab), Release(Shift)>>
    BY <1>2, <1>3, <1>4, Zenon
  <1> QED
    BY <1>1, <1>5, Quadruple

(* Every preset has its place among the releases made at shutdown.           *)
LEMMA ShutdownSends ==
  /\ ShutdownReleases \in Seq(Sends)
  /\ \A i \in 1..Len(ShutdownReleases) :
       /\ ShutdownReleases[i].to = "hid" /\ ShutdownReleases[i].kind = "release"
  /\ \A key \in ButtonKeys :
       \E i \in 1..Len(ShutdownReleases) : ShutdownReleases[i].arg = key
  <1> DEFINE keys == SetToSeq(Presets)
             n == Cardinality(Presets)
             rest == [i \in DOMAIN keys |-> Release(keys[i])]
             q == <<Release(Alt)>> \o rest
  <1>1. n \in Nat
    BY ListenerAssumption, FS_CardinalityType
  <1>2. /\ keys \in [1..n -> Presets]
        /\ \A key \in Presets : \E i \in 1..n : keys[i] = key
    <2>1. \E f \in [1..n -> Presets] : IsInjective(f)
      BY ListenerAssumption, FS_CardinalityType
         DEF ExistsBijection, Bijection, Injection
    <2>2. keys \in [1..n -> Presets] /\ IsInjective(keys)
      BY <2>1, Zenon DEF SetToSeq
    <2>3. IsFiniteSet(1..n) /\ Cardinality(1..n) = n
      BY <1>1, FS_Interval
    <2>4. keys \in Surjection(1..n, Presets)
      BY <2>2, <2>3, ListenerAssumption, FS_Injection DEF Injection
    <2> QED
      BY <2>2, <2>4 DEF Surjection
  <1>3. DOMAIN keys = 1..n /\ \A i \in 1..n : keys[i] \in Presets
    BY <1>2
  <1>4. /\ Release(Alt) \in Sends /\ Release(Alt).to = "hid"
        /\ Release(Alt).kind = "release" /\ Release(Alt).arg = Alt
        /\ \A key \in Presets : /\ Release(key) \in Sends /\ Release(key).to = "hid"
                                /\ Release(key).kind = "release"
                                /\ Release(key).arg = key
    BY KeySends, Codes
  <1>5. rest \in Seq(Sends) /\ Len(rest) = n /\ \A i \in 1..n : rest[i] = Release(keys[i])
    BY <1>1, <1>3, <1>4
  <1>6. q \in Seq(Sends) /\ Len(q) = n + 1 /\ q[1] = Release(Alt)
        /\ \A i \in 1..n : q[i + 1] = Release(keys[i])
    BY <1>1, <1>4, <1>5, ConcatProperties
  <1>7. ShutdownReleases = q
    BY DEF ShutdownReleases
  <1> HIDE DEF keys, n, rest, q
  <1>8. \A i \in 1..Len(q) : q[i].to = "hid" /\ q[i].kind = "release"
    <2> TAKE i \in 1..Len(q)
    <2>1. i = 1 \/ (i - 1 \in 1..n /\ q[i] = Release(keys[i - 1]))
      BY <1>1, <1>6
    <2> QED
      BY <2>1, <1>2, <1>4, <1>6
  <1>9. ASSUME NEW key \in ButtonKeys PROVE \E i \in 1..Len(q) : q[i].arg = key
    <2>1. CASE key = Alt
      BY <2>1, <1>1, <1>4, <1>6
    <2>2. CASE key \in Presets
      <3>1. PICK i \in 1..n : keys[i] = key
        BY <2>2, <1>2
      <3>2. i + 1 \in 1..Len(q) /\ q[i + 1].arg = key
        BY <3>1, <2>2, <1>1, <1>4, <1>6
      <3> QED
        BY <3>2
    <2> QED
      BY <2>1, <2>2 DEF ButtonKeys
  <1> QED
    BY <1>6, <1>7, <1>8, <1>9, Zenon

----------------------------------------------------------------------------
(* Types.  A device in ready has an event to read.                           *)

ReadyHasInput == \A device \in ready : input[device] # <<>>

LEMMA WheelResetType == WheelReset \in WheelStates
  BY WheelAssumption DEF WheelReset, WheelStates

LEMMA ClampType ==
  ASSUME NEW v \in Int, NEW limit \in Nat
  PROVE  Clamp(v, limit) \in -limit..limit
  BY DEF Clamp

LEMMA OnDeltaType ==
  ASSUME NEW w \in WheelStates, NEW delta \in Int, NEW t \in Nat
  PROVE  OnDelta(w, delta, t) \in WheelStates
  <1>1. w.accum \in Int /\ Sign(delta) \in {-1, 0, 1}
    BY DEF WheelStates, Sign
  <1>2. Clamp(w.accum + Clamp(delta, DeltaMax), AccumMax) \in -AccumMax..AccumMax
    BY <1>1, ClampType, WheelAssumption
  <1> QED
    BY <1>1, <1>2 DEF OnDelta, WheelStates

LEMMA AfterTryType ==
  ASSUME NEW w \in WheelStates, NEW t \in Nat
  PROVE  /\ AfterTry(w, t) \in WheelStates
         /\ StepOf(w, t) \in {-1, 0, 1}
  <1>1. CASE MayEmit(w, t)
    <2>1. w.accum \in -AccumMax..AccumMax /\ w.accum # 0 /\ AccumMax \in Nat
      BY <1>1, WheelAssumption DEF MayEmit, WheelStates
    <2>2. Sign(w.accum) \in {-1, 1} /\ w.accum - Sign(w.accum) \in -AccumMax..AccumMax
      BY <2>1 DEF Sign
    <2> QED
      BY <1>1, <2>2 DEF AfterTry, StepOf, WheelStates
  <1>2. CASE ~MayEmit(w, t)
    BY <1>2 DEF AfterTry, StepOf, WheelStates
  <1> QED
    BY <1>1, <1>2

LEMMA EventFacts ==
  ASSUME NEW e \in InputEvents
  PROVE  /\ e.kind \in {"press", "release"} => e.arg \in ButtonKeys
         /\ e.kind = "turn" => e.arg \in Turns
  BY DEF InputEvents, ButtonKeys

LEMMA StepSends ==
  ASSUME NEW step \in {-1, 1}
  PROVE  AppSwitchStep(step) \in Seq(Sends)
  BY ForwardSends, BackwardSends

LEMMA TypesInit == Init => TypeOK /\ ReadyHasInput
  <1>1. SUFFICES ASSUME Init PROVE TypeOK /\ ReadyHasInput
    OBVIOUS
  <1>2. wheel \in WheelStates
    BY <1>1, WheelResetType DEF Init
  <1>3. input \in [Devices -> Seq(InputEvents)]
    BY <1>1 DEF Init
  <1>4. inputs \in 0..MaxInputs
    BY <1>1, ListenerAssumption DEF Init
  <1>5. turned \in Steps /\ stepped \in Steps
    BY <1>1 DEF Init, NoSteps, Steps
  <1>6. outbox \in Seq(Sends) /\ hidq \in Seq(KeyEvents)
    BY <1>1 DEF Init
  <1> QED
    BY <1>1, <1>2, <1>3, <1>4, <1>5, <1>6 DEF Init, TypeOK, ReadyHasInput

(* Reading an event leaves the queues typed and the other device readable.   *)
LEMMA ReadTypes ==
  ASSUME TypeOK, ReadyHasInput, NEW device \in Devices, NEW kinds,
         Reads(device, kinds)
  PROVE  /\ ready' \subseteq Devices
         /\ input' \in [Devices -> Seq(InputEvents)]
         /\ ReadyHasInput'
         /\ Head(input[device]) \in InputEvents
         /\ Head(input[device]).kind \in kinds
  <1>1. input[device] \in Seq(InputEvents) /\ input[device] # <<>>
    BY DEF TypeOK, ReadyHasInput, Reads
  <1>2. Head(input[device]) \in InputEvents /\ Tail(input[device]) \in Seq(InputEvents)
    BY <1>1, TailFacts
  <1> QED
    BY <1>2 DEF TypeOK, ReadyHasInput, Reads

LEMMA QueueTypes ==
  ASSUME TypeOK, ReadyHasInput, NEW devices, NEW event \in InputEvents,
         Queue(devices, event), phys' \subseteq ButtonKeys
  PROVE  TypeOK' /\ ReadyHasInput'
  <1>1. inputs' \in 0..MaxInputs
    BY ListenerAssumption DEF TypeOK, Queue
  <1>2. input' \in [Devices -> Seq(InputEvents)]
    BY DEF TypeOK, Queue
  <1>3. ASSUME NEW device \in Devices, input[device] # <<>>
        PROVE  input'[device] # <<>>
    <2>1. input[device] \in Seq(InputEvents)
      BY DEF TypeOK
    <2>2. Append(input[device], event) # <<>>
      BY <2>1
    <2> QED
      BY <1>3, <2>2 DEF Queue
  <1> QED
    BY <1>1, <1>2, <1>3
       DEF TypeOK, ReadyHasInput, Queue, local, receiver, time, sent, session, ButtonKeys

LEMMA SendTypes ==
  ASSUME TypeOK, ReadyHasInput, Send
  PROVE  TypeOK' /\ ReadyHasInput'
  <1>1. Head(outbox) \in Sends /\ outbox' \in Seq(Sends)
    BY TailFacts DEF TypeOK, Send
  <1>2. Head(outbox).to = "hid" => /\ Head(outbox).arg \in KeyCodes
                                   /\ Head(outbox).kind \in {"press", "release"}
    BY <1>1 DEF Sends
  <1>3. hidq' \in Seq(KeyEvents)
    <2>1. hidq \in Seq(KeyEvents)
      BY DEF TypeOK
    <2>2. Head(outbox).to = "hid"
            => [kind |-> Head(outbox).kind, arg |-> Head(outbox).arg] \in KeyEvents
      BY <1>2 DEF KeyEvents
    <2>3. \/ hidq' = hidq
          \/ /\ Head(outbox).to = "hid"
             /\ hidq' = Append(hidq, [kind |-> Head(outbox).kind, arg |-> Head(outbox).arg])
      BY Zenon DEF Send
    <2> QED
      BY <2>1, <2>2, <2>3
  <1>4. down' \subseteq KeyCodes /\ micOn' \in BOOLEAN
    BY <1>2 DEF TypeOK, Send
  <1> QED
    BY <1>1, <1>3, <1>4 DEF TypeOK, ReadyHasInput, Send, local, time, user, session

LEMMA LoopTypes ==
  ASSUME TypeOK, ReadyHasInput, Loop
  PROVE  TypeOK' /\ ReadyHasInput'
  <1> USE DEF receiver, time, user, sent, session, local
  <1>0. "buttons" \in Devices /\ "knob" \in Devices
    BY DEF Devices
  <1>1. CASE Send
    BY <1>1, SendTypes
  <1>2. CASE Select
    BY <1>2 DEF Select, TypeOK, ReadyHasInput
  <1>3. CASE EmitStep
    <2>1. wheel' \in WheelStates /\ outbox' \in Seq(Sends)
      BY <1>3, AfterTryType, StepSends DEF EmitStep, TypeOK
    <2>2. stepped' \in Steps
      BY <1>3 DEF EmitStep, TypeOK, Steps
    <2> QED
      BY <1>3, <2>1, <2>2 DEF EmitStep, TypeOK, ReadyHasInput
  <1>4. CASE EmitNothing
    <2>1. wheel' \in WheelStates
      BY <1>4, AfterTryType DEF EmitNothing, TypeOK
    <2> QED
      BY <1>4, <2>1 DEF EmitNothing, TypeOK, ReadyHasInput
  <1>5. CASE TimeoutExit
    BY <1>5, ExitSends, WheelResetType
       DEF TimeoutExit, AfterTimeout, TypeOK, ReadyHasInput
  <1>6. CASE TimeoutPasses
    BY <1>6 DEF TimeoutPasses, AfterTimeout, TypeOK, ReadyHasInput
  <1>7. CASE HandleRoundButton
    <2>1. outbox' \in Seq(Sends)
      BY <1>7, KeySends, OtherSends, Codes DEF HandleRoundButton
    <2> QED
      BY <1>0, <1>7, <2>1, ReadTypes
         DEF HandleRoundButton, AfterEvent, TypeOK
  <1>8. CASE HandlePreset
    <2>1. outbox' \in Seq(Sends)
      BY <1>8, KeySends, Codes DEF HandlePreset
    <2> QED
      BY <1>0, <1>8, <2>1, ReadTypes DEF HandlePreset, AfterEvent, TypeOK
  <1>9. CASE HandleMute
    <2>1. outbox' \in Seq(Sends)
      BY <1>9, OtherSends DEF HandleMute
    <2> QED
      BY <1>0, <1>9, <2>1, ReadTypes DEF HandleMute, AfterEvent, TypeOK
  <1>10. CASE HandleTurn
    <2> DEFINE delta == Head(input["knob"]).arg
    <2>1. Reads("knob", {"turn"})
      BY <1>10 DEF HandleTurn
    <2>2. delta \in Int
      <3>1. Head(input["knob"]) \in InputEvents /\ Head(input["knob"]).kind = "turn"
        BY <1>0, <2>1, ReadTypes
      <3> QED
        BY <3>1, EventFacts, ListenerAssumption
    <2>3. wheel' \in WheelStates /\ activeAt' \in Nat
      BY <1>10, <2>2, OnDeltaType DEF HandleTurn, TypeOK
    <2>4. turned' \in Steps
      <3>1. turned.fwd \in Nat /\ turned.bwd \in Nat /\ turned \in Steps
        BY DEF TypeOK, Steps
      <3>2. CASE active
        BY <1>10, <2>2, <3>1, <3>2 DEF HandleTurn, Steps
      <3>3. CASE ~active
        BY <1>10, <3>1, <3>3 DEF HandleTurn
      <3> QED
        BY <3>2, <3>3
    <2> QED
      BY <1>0, <1>10, <2>1, <2>3, <2>4, ReadTypes DEF HandleTurn, AfterEvent, TypeOK
  <1>11. CASE Entered
    BY <1>11, WheelResetType DEF Entered, TypeOK, ReadyHasInput, NoSteps, Steps
  <1>12. ASSUME NEW device \in Devices, NotReadable(device)
         PROVE  TypeOK' /\ ReadyHasInput'
    BY <1>12 DEF NotReadable, AfterEvent, TypeOK, ReadyHasInput
  <1>13. ASSUME NEW device \in Devices, HandleClickBounced(device)
         PROVE  TypeOK' /\ ReadyHasInput'
    BY <1>13, ReadTypes DEF HandleClickBounced, AfterEvent, TypeOK
  <1>14. ASSUME NEW device \in Devices, HandleClickEnter(device)
         PROVE  TypeOK' /\ ReadyHasInput'
    BY <1>14, ReadTypes, EnterSends DEF HandleClickEnter, TypeOK
  <1>15. ASSUME NEW device \in Devices, HandleClickExit(device)
         PROVE  TypeOK' /\ ReadyHasInput'
    BY <1>15, ReadTypes, ExitSends, WheelResetType
       DEF HandleClickExit, AfterEvent, TypeOK
  <1> QED
    BY <1>1, <1>2, <1>3, <1>4, <1>5, <1>6, <1>7, <1>8, <1>9, <1>10, <1>11,
       <1>12, <1>13, <1>14, <1>15 DEF Loop

LEMMA TypesStep ==
  ASSUME TypeOK, ReadyHasInput, [Next]_vars
  PROVE  TypeOK' /\ ReadyHasInput'
  <1> USE DEF receiver, time, user, sent, session, local
  <1>1. CASE Loop
    BY <1>1, LoopTypes
  <1>2. CASE Tick
    <2>1. clock' \in Nat /\ polled' \in BOOLEAN
      <3>1. clock \in Nat
        BY DEF TypeOK
      <3>2. clock' = clock + 1 /\ polled' = FALSE
        BY <1>2, Zenon DEF Tick
      <3>3. clock + 1 \in Nat
        BY <3>1
      <3> QED
        BY <3>2, <3>3, Zenon
    <2>2. UNCHANGED <<pc, local, outbox, input, receiver, user, sent, session>>
      BY <1>2 DEF Tick
    <2> QED
      BY <2>1, <2>2 DEF TypeOK, ReadyHasInput
  <1>3. CASE Stop
    <2>1. outbox' \in Seq(Sends)
      BY <1>3, ExitSends, ShutdownSends DEF Stop
    <2> QED
      BY <1>3, <2>1 DEF Stop, TypeOK, ReadyHasInput
  <1>4. CASE Start
    BY <1>4, WheelResetType DEF Start, TypeOK, ReadyHasInput, NoSteps, Steps
  <1>5. CASE User
    <2>1. ASSUME NEW key \in {Alt} \cup Presets, PressButton(key) \/ ReleaseButton(key)
          PROVE  TypeOK' /\ ReadyHasInput'
      <3>1. /\ [kind |-> "press", arg |-> key] \in InputEvents
            /\ [kind |-> "release", arg |-> key] \in InputEvents
        BY DEF InputEvents
      <3>2. phys' \subseteq ButtonKeys
        BY <2>1 DEF PressButton, ReleaseButton, TypeOK, ButtonKeys
      <3> QED
        BY <2>1, <3>1, <3>2, QueueTypes DEF PressButton, ReleaseButton
    <2>2. ASSUME NEW devices \in SUBSET Devices, ClickKnob(devices)
          PROVE  TypeOK' /\ ReadyHasInput'
      <3>1. [kind |-> "click", arg |-> NoArg] \in InputEvents
        BY DEF InputEvents
      <3> QED
        BY <2>2, <3>1, QueueTypes DEF ClickKnob, TypeOK, ButtonKeys
    <2>3. ASSUME NEW delta \in Turns, TurnKnob(delta)
          PROVE  TypeOK' /\ ReadyHasInput'
      <3>1. [kind |-> "turn", arg |-> delta] \in InputEvents
        BY DEF InputEvents
      <3> QED
        BY <2>3, <3>1, QueueTypes DEF TurnKnob, TypeOK, ButtonKeys
    <2>4. ASSUME PressMute PROVE TypeOK' /\ ReadyHasInput'
      <3>1. [kind |-> "mute", arg |-> NoArg] \in InputEvents
        BY DEF InputEvents
      <3> QED
        BY <2>4, <3>1, QueueTypes DEF PressMute, TypeOK, ButtonKeys
    <2> QED
      BY <1>5, <2>1, <2>2, <2>3, <2>4 DEF User
  <1>6. CASE HidReceives
    BY <1>6 DEF HidReceives, TypeOK, ReadyHasInput
  <1>7. CASE HidRestarts
    BY <1>7 DEF HidRestarts, TypeOK, ReadyHasInput
  <1>8. CASE UNCHANGED vars
    BY <1>8 DEF vars, TypeOK, ReadyHasInput
  <1> QED
    BY <1>1, <1>2, <1>3, <1>4, <1>5, <1>6, <1>7, <1>8 DEF Next, Listener

----------------------------------------------------------------------------
(* The buttons' queue.  From a place n in it, what follows about a button    *)
(* starts with its release; when nothing follows, the button is held.        *)

Later(q, key, n) ==
  {i \in DOMAIN q : i > n /\ q[i].kind \in {"press", "release"} /\ q[i].arg = key}

HandledFrom(q, held, key, n) ==
  /\ Later(q, key, n) = {} => key \in held
  /\ \A i \in Later(q, key, n) :
       (\A j \in Later(q, key, n) : i <= j) => q[i].kind = "release"

(* Every press in the queue is followed so.                                  *)
Alternates(q, held) ==
  \A i \in DOMAIN q : q[i].kind = "press" => HandledFrom(q, held, q[i].arg, i)

LEMMA TailHandled ==
  ASSUME NEW q \in Seq(InputEvents), q # <<>>, NEW held, NEW key, NEW n \in Nat,
         HandledFrom(q, held, key, n + 1)
  PROVE  HandledFrom(Tail(q), held, key, n)
  <1> DEFINE t == Tail(q)
  <1>1. /\ Len(q) \in Nat /\ DOMAIN q = 1..Len(q) /\ DOMAIN t = 1..Len(q) - 1
        /\ \A i \in DOMAIN t : t[i] = q[i + 1]
    BY TailFacts
  <1>2. \A i \in Later(t, key, n) : i \in Int /\ i + 1 \in Later(q, key, n + 1)
                                    /\ t[i] = q[i + 1]
    BY <1>1 DEF Later
  <1>3. \A i \in Later(q, key, n + 1) : i \in Int /\ i - 1 \in Later(t, key, n)
    BY <1>1 DEF Later
  <1>4. Later(t, key, n) = {} => key \in held
    BY <1>3 DEF HandledFrom
  <1>5. ASSUME NEW i \in Later(t, key, n), \A j \in Later(t, key, n) : i <= j
        PROVE  t[i].kind = "release"
    <2>1. \A j \in Later(q, key, n + 1) : i + 1 <= j
      BY <1>2, <1>3, <1>5
    <2> QED
      BY <1>2, <2>1 DEF HandledFrom
  <1> QED
    BY <1>4, <1>5 DEF HandledFrom

LEMMA SkipHandled ==
  ASSUME NEW q \in Seq(InputEvents), q # <<>>, NEW held, NEW key,
         HandledFrom(q, held, key, 0),
         Head(q).kind \notin {"press", "release"} \/ Head(q).arg # key
  PROVE  HandledFrom(Tail(q), held, key, 0)
  <1>1. Head(q) = q[1] /\ DOMAIN q = 1..Len(q)
    BY TailFacts
  <1>2. Later(q, key, 1) = Later(q, key, 0)
    BY <1>1 DEF Later
  <1>3. HandledFrom(q, held, key, 0 + 1)
    BY <1>2 DEF HandledFrom
  <1> QED
    BY <1>3, TailHandled

LEMMA PressHandled ==
  ASSUME NEW q \in Seq(InputEvents), q # <<>>, NEW held, Alternates(q, held),
         Head(q).kind = "press"
  PROVE  HandledFrom(Tail(q), held, Head(q).arg, 0)
  <1>1. Head(q) = q[1] /\ 1 \in DOMAIN q
    BY TailFacts
  <1>2. HandledFrom(q, held, Head(q).arg, 0 + 1)
    BY <1>1 DEF Alternates
  <1> QED
    BY <1>2, TailHandled

LEMMA TailAlternates ==
  ASSUME NEW q \in Seq(InputEvents), q # <<>>, NEW held, Alternates(q, held)
  PROVE  Alternates(Tail(q), held)
  <1>1. /\ Len(q) \in Nat /\ DOMAIN q = 1..Len(q)
        /\ DOMAIN Tail(q) = 1..Len(q) - 1
        /\ \A i \in DOMAIN Tail(q) : Tail(q)[i] = q[i + 1]
    BY TailFacts
  <1>2. SUFFICES ASSUME NEW i \in DOMAIN Tail(q), Tail(q)[i].kind = "press"
                 PROVE  HandledFrom(Tail(q), held, Tail(q)[i].arg, i)
    BY DEF Alternates
  <1>3. i \in Nat /\ i + 1 \in DOMAIN q /\ Tail(q)[i] = q[i + 1]
    BY <1>1
  <1>4. HandledFrom(q, held, q[i + 1].arg, i + 1)
    BY <1>2, <1>3 DEF Alternates
  <1> QED
    BY <1>3, <1>4, TailHandled

LEMMA AppendFacts ==
  ASSUME NEW q \in Seq(InputEvents), NEW e \in InputEvents
  PROVE  /\ Append(q, e) \in Seq(InputEvents) /\ Len(q) \in Nat
         /\ DOMAIN q = 1..Len(q) /\ DOMAIN Append(q, e) = 1..Len(q) + 1
         /\ \A i \in DOMAIN q : Append(q, e)[i] = q[i]
         /\ Append(q, e)[Len(q) + 1] = e
  OBVIOUS

(* A button is pressed only when it is not held: in front of its press there *)
(* is its release.                                                           *)
LEMMA AppendHandled ==
  ASSUME NEW q \in Seq(InputEvents), NEW e \in InputEvents, NEW held, NEW held2,
         NEW key, NEW n \in 0..Len(q), HandledFrom(q, held, key, n),
         e.kind = "press" /\ e.arg = key => key \notin held,
         e.kind \notin {"press", "release"} \/ e.arg # key
           => (key \in held => key \in held2)
  PROVE  HandledFrom(Append(q, e), held2, key, n)
  <1> DEFINE a == Append(q, e)
             l == Len(q) + 1
  <1>1. /\ Len(q) \in Nat /\ DOMAIN q = 1..Len(q) /\ DOMAIN a = 1..l
        /\ \A i \in DOMAIN q : a[i] = q[i]
        /\ a[l] = e
    BY AppendFacts
  <1>2. \A i \in Later(q, key, n) : i \in 1..Len(q) /\ i \in Later(a, key, n) /\ a[i] = q[i]
    BY <1>1 DEF Later
  <1>3. CASE e.kind \in {"press", "release"} /\ e.arg = key
    <2>1. \A i \in Later(a, key, n) : i = l \/ i \in Later(q, key, n)
      BY <1>1 DEF Later
    <2>2. l \in Later(a, key, n)
      BY <1>1, <1>3 DEF Later
    <2>3. ASSUME NEW i \in Later(a, key, n), \A j \in Later(a, key, n) : i <= j
          PROVE  a[i].kind = "release"
      <3>1. CASE i \in Later(q, key, n)
        BY <1>2, <2>3, <3>1 DEF HandledFrom
      <3>2. CASE i \notin Later(q, key, n)
        <4>1. i = l /\ Later(q, key, n) = {}
          BY <1>1, <1>2, <2>1, <2>3, <3>2
        <4>2. key \in held
          BY <4>1 DEF HandledFrom
        <4> QED
          BY <1>1, <1>3, <4>1, <4>2
      <3> QED
        BY <3>1, <3>2
    <2> QED
      BY <2>2, <2>3 DEF HandledFrom
  <1>4. CASE e.kind \notin {"press", "release"} \/ e.arg # key
    <2>1. Later(a, key, n) = Later(q, key, n)
      BY <1>1, <1>4 DEF Later
    <2> QED
      BY <1>2, <1>4, <2>1 DEF HandledFrom
  <1> QED
    BY <1>3, <1>4

LEMMA AppendAlternates ==
  ASSUME NEW q \in Seq(InputEvents), NEW e \in InputEvents, NEW held, NEW held2,
         Alternates(q, held),
         e.kind = "press" => e.arg \notin held /\ e.arg \in held2,
         \A key : e.kind \notin {"press", "release"} \/ e.arg # key
                    => (key \in held => key \in held2)
  PROVE  Alternates(Append(q, e), held2)
  <1> DEFINE a == Append(q, e)
  <1>1. /\ Len(q) \in Nat /\ DOMAIN q = 1..Len(q) /\ DOMAIN a = 1..Len(q) + 1
        /\ \A i \in DOMAIN q : a[i] = q[i]
        /\ a[Len(q) + 1] = e
    BY AppendFacts
  <1>2. SUFFICES ASSUME NEW i \in DOMAIN a, a[i].kind = "press"
                 PROVE  HandledFrom(a, held2, a[i].arg, i)
    BY DEF Alternates
  <1>3. CASE i \in DOMAIN q
    <2>1. i \in 0..Len(q) /\ HandledFrom(q, held, a[i].arg, i)
      BY <1>1, <1>2, <1>3 DEF Alternates
    <2> QED
      BY <2>1, AppendHandled
  <1>4. CASE i = Len(q) + 1
    <2>1. Later(a, a[i].arg, i) = {}
      BY <1>1, <1>4 DEF Later
    <2> QED
      BY <1>1, <1>2, <1>4, <2>1 DEF HandledFrom
  <1> QED
    BY <1>1, <1>3, <1>4

----------------------------------------------------------------------------
(* What is down once a handler's sends are made, from the keys down before.  *)

LEMMA FinallyReleased ==
  ASSUME NEW q \in Seq(Sends), NEW keys, NEW key,
         \E i \in 1..Len(q) :
           /\ q[i].to = "hid" /\ q[i].arg = key /\ q[i].kind = "release"
           /\ \A j \in 1..Len(q) : j > i => q[j].to # "hid" \/ q[j].arg # key
  PROVE  ~WillBeDown(q, keys, key)
  <1>1. PICK i \in 1..Len(q) :
           /\ q[i].to = "hid" /\ q[i].arg = key /\ q[i].kind = "release"
           /\ \A j \in 1..Len(q) : j > i => q[j].to # "hid" \/ q[j].arg # key
    OBVIOUS
  <1>2. DOMAIN q = 1..Len(q) /\ Len(q) \in Nat
    OBVIOUS
  <1>3. i \in About(q, key) /\ \A j \in About(q, key) : j <= i
    BY <1>1, <1>2 DEF About
  <1>4. ASSUME NEW k \in About(q, key), \A j \in About(q, key) : j <= k
        PROVE  k = i
    BY <1>2, <1>3, <1>4 DEF About
  <1> QED
    BY <1>1, <1>3, <1>4 DEF WillBeDown

LEMMA EnterEffect ==
  ASSUME NEW keys, NEW key \in KeyCodes, NEW on \in BOOLEAN
  PROVE  /\ WillBeDown(AppSwitchEnter, keys, key)
              <=> key = Gui \/ (key \in keys /\ key # Tab)
         /\ WillHear(AppSwitchEnter, on) <=> on
  <1> DEFINE q == AppSwitchEnter
  <1>1. /\ q \in Seq(Sends) /\ Len(q) = 3
        /\ q[1].to = "hid" /\ q[1].arg = Gui /\ q[1].kind = "press"
        /\ q[2].to = "hid" /\ q[2].arg = Tab
        /\ q[3].to = "hid" /\ q[3].arg = Tab /\ q[3].kind = "release"
    BY EnterSends, KeySends, Codes
  <1> HIDE DEF q
  <1>2. WillBeDown(q, keys, Gui)
    <2>1. /\ 1 \in 1..Len(q)
          /\ \A j \in 1..Len(q) : j > 1 => q[j].to # "hid" \/ q[j].arg # Gui
      BY <1>1, Distinct
    <2>2. WillBeDown(q, keys, Gui) <=> q[1].kind = "press"
      BY <1>1, <2>1, LastDecides, Zenon
    <2> QED
      BY <1>1, <2>2
  <1>3. ~WillBeDown(q, keys, Tab)
    <2>1. /\ 3 \in 1..Len(q)
          /\ \A j \in 1..Len(q) : j > 3 => q[j].to # "hid" \/ q[j].arg # Tab
      BY <1>1
    <2> QED
      BY <1>1, <2>1, FinallyReleased
  <1>4. \A k : k # Gui /\ k # Tab => (WillBeDown(q, keys, k) <=> k \in keys)
    <2>1. \A j \in 1..Len(q) : q[j].arg \in {Gui, Tab}
      BY <1>1
    <2> QED
      BY <1>1, <2>1, Untouched
  <1>5. WillHear(q, on) <=> on
    <2>1. \A j \in 1..Len(q) : q[j].to # "mic"
      BY <1>1
    <2> QED
      BY <1>1, <2>1, NoCommand
  <1> QED
    BY <1>2, <1>3, <1>4, <1>5, Distinct DEF q

LEMMA ExitEffect ==
  ASSUME NEW keys, NEW key \in KeyCodes, NEW on \in BOOLEAN
  PROVE  /\ WillBeDown(AppSwitchExit, keys, key)
              <=> key \in keys /\ key \notin {Tab, Shift, Gui}
         /\ WillHear(AppSwitchExit, on) <=> on
  <1> DEFINE q == AppSwitchExit
  <1>1. /\ q \in Seq(Sends) /\ Len(q) = 3
        /\ q[1].to = "hid" /\ q[1].arg = Tab /\ q[1].kind = "release"
        /\ q[2].to = "hid" /\ q[2].arg = Shift /\ q[2].kind = "release"
        /\ q[3].to = "hid" /\ q[3].arg = Gui /\ q[3].kind = "release"
    BY ExitSends, KeySends, Codes
  <1> HIDE DEF q
  <1>2. \A j \in 1..Len(q) : /\ q[j].to = "hid" /\ q[j].kind # "press"
                             /\ q[j].arg \in {Tab, Shift, Gui}
    BY <1>1
  <1>3. ASSUME key \in {Tab, Shift, Gui} PROVE ~WillBeDown(q, keys, key)
    <2>1. \E j \in 1..Len(q) : q[j].to = "hid" /\ q[j].arg = key
      BY <1>1, <1>3
    <2> QED
      BY <1>1, <1>2, <2>1, OnlyReleases
  <1>4. ASSUME key \notin {Tab, Shift, Gui}
        PROVE  WillBeDown(q, keys, key) <=> key \in keys
    <2>1. \A j \in 1..Len(q) : q[j].arg # key
      BY <1>2, <1>4
    <2> QED
      BY <1>1, <2>1, Untouched
  <1>5. WillHear(q, on) <=> on
    <2>1. \A j \in 1..Len(q) : q[j].to # "mic"
      BY <1>2
    <2> QED
      BY <1>1, <2>1, NoCommand
  <1> QED
    BY <1>3, <1>4, <1>5 DEF q

LEMMA StepEffect ==
  ASSUME NEW step \in {-1, 1}, NEW keys, NEW key \in KeyCodes, NEW on \in BOOLEAN
  PROVE  /\ WillBeDown(AppSwitchStep(step), keys, key) => key \in keys
         /\ WillBeDown(AppSwitchStep(step), keys, Gui) <=> Gui \in keys
         /\ WillHear(AppSwitchStep(step), on) <=> on
  <1>1. CASE step = 1
    <2> DEFINE q == AppSwitchStep(1)
    <2>1. /\ q \in Seq(Sends) /\ Len(q) = 2
          /\ q[1].to = "hid" /\ q[1].arg = Tab
          /\ q[2].to = "hid" /\ q[2].arg = Tab /\ q[2].kind = "release"
      BY ForwardSends, KeySends, Codes
    <2> HIDE DEF q
    <2>2. \A j \in 1..Len(q) : q[j].to = "hid" /\ q[j].arg = Tab
      BY <2>1
    <2>3. /\ 2 \in 1..Len(q)
          /\ \A j \in 1..Len(q) : j > 2 => q[j].to # "hid" \/ q[j].arg # Tab
      BY <2>1
    <2>4. ~WillBeDown(q, keys, Tab)
      BY <2>1, <2>3, FinallyReleased
    <2>5. \A k : k # Tab => (WillBeDown(q, keys, k) <=> k \in keys)
      BY <2>1, <2>2, Untouched
    <2>6. WillHear(q, on) <=> on
      BY <2>1, <2>2, NoCommand
    <2> QED
      BY <1>1, <2>4, <2>5, <2>6, Distinct DEF q
  <1>2. CASE step = -1
    <2> DEFINE q == AppSwitchStep(-1)
    <2>1. /\ q \in Seq(Sends) /\ Len(q) = 4
          /\ q[1].to = "hid" /\ q[1].arg = Shift
          /\ q[2].to = "hid" /\ q[2].arg = Tab
          /\ q[3].to = "hid" /\ q[3].arg = Tab /\ q[3].kind = "release"
          /\ q[4].to = "hid" /\ q[4].arg = Shift /\ q[4].kind = "release"
      BY BackwardSends, KeySends, Codes
    <2> HIDE DEF q
    <2>2. \A j \in 1..Len(q) : q[j].to = "hid" /\ q[j].arg \in {Tab, Shift}
      BY <2>1
    <2>3. /\ 3 \in 1..Len(q)
          /\ \A j \in 1..Len(q) : j > 3 => q[j].to # "hid" \/ q[j].arg # Tab
          /\ 4 \in 1..Len(q)
          /\ \A j \in 1..Len(q) : j > 4 => q[j].to # "hid" \/ q[j].arg # Shift
      BY <2>1, Distinct
    <2>4. ~WillBeDown(q, keys, Tab)
      BY <2>1, <2>3, FinallyReleased
    <2>5. ~WillBeDown(q, keys, Shift)
      BY <2>1, <2>3, FinallyReleased
    <2>6. \A k : k \notin {Tab, Shift} => (WillBeDown(q, keys, k) <=> k \in keys)
      BY <2>1, <2>2, Untouched
    <2>7. WillHear(q, on) <=> on
      BY <2>1, <2>2, NoCommand
    <2> QED
      BY <1>2, <2>4, <2>5, <2>6, <2>7, Distinct DEF q
  <1> QED
    BY <1>1, <1>2

LEMMA ShutdownEffect ==
  ASSUME NEW keys, NEW key \in KeyCodes,
         WillBeDown(ShutdownReleases, keys, key)
  PROVE  key \in keys /\ key \notin ButtonKeys
  <1> DEFINE r == ShutdownReleases
  <1>1. /\ r \in Seq(Sends)
        /\ \A i \in 1..Len(r) : r[i].to = "hid" /\ r[i].kind = "release"
        /\ \A k \in ButtonKeys : \E i \in 1..Len(r) : r[i].arg = k
    BY ShutdownSends
  <1>2. WillBeDown(r, keys, key)
    OBVIOUS
  <1> HIDE DEF r
  <1>3. \A i \in 1..Len(r) : r[i].kind # "press"
    BY <1>1
  <1>4. key \in keys /\ \A i \in 1..Len(r) : r[i].to # "hid" \/ r[i].arg # key
    BY <1>1, <1>2, <1>3, OnlyReleases
  <1> QED
    BY <1>1, <1>4

LEMMA LeaveEffect ==
  ASSUME NEW keys, NEW key \in KeyCodes,
         WillBeDown(AppSwitchExit \o ShutdownReleases, keys, key)
  PROVE  key \in keys /\ key \notin ButtonKeys /\ key # Gui
  <1> DEFINE r == ShutdownReleases
             x == AppSwitchExit
             q == x \o r
  <1>1. /\ r \in Seq(Sends) /\ Len(r) \in Nat
        /\ \A i \in 1..Len(r) : r[i].to = "hid" /\ r[i].kind = "release"
        /\ \A k \in ButtonKeys : \E i \in 1..Len(r) : r[i].arg = k
    BY ShutdownSends
  <1>2. /\ x \in Seq(Sends) /\ Len(x) = 3
        /\ x[1].to = "hid" /\ x[1].kind = "release"
        /\ x[2].to = "hid" /\ x[2].kind = "release"
        /\ x[3].to = "hid" /\ x[3].arg = Gui /\ x[3].kind = "release"
    BY ExitSends, KeySends, Codes
  <1>3. WillBeDown(q, keys, key)
    OBVIOUS
  <1> HIDE DEF r, x
  <1>4. q \in Seq(Sends) /\ Len(q) = 3 + Len(r)
        /\ \A i \in 1..Len(q) : q[i] = IF i <= 3 THEN x[i] ELSE r[i - 3]
    <2>1. x \in Seq(Sends) /\ r \in Seq(Sends)
      BY <1>1, <1>2
    <2>2. /\ q \in Seq(Sends) /\ Len(q) = Len(x) + Len(r)
          /\ \A i \in 1..Len(x) + Len(r) :
               q[i] = IF i <= Len(x) THEN x[i] ELSE r[i - Len(x)]
      BY <2>1, ConcatProperties, Zenon
    <2> HIDE DEF q
    <2> QED
      BY <1>2, <2>2
  <1> HIDE DEF q
  <1>5. ASSUME NEW i \in 1..Len(q) PROVE q[i].to = "hid" /\ q[i].kind = "release"
    <2>1. CASE i <= 3
      BY <1>2, <1>4, <2>1
    <2>2. CASE i > 3
      <3>1. i - 3 \in 1..Len(r) /\ q[i] = r[i - 3]
        BY <1>1, <1>4, <2>2
      <3> QED
        BY <1>1, <3>1
    <2> QED
      BY <2>1, <2>2
  <1>6. \A i \in 1..Len(q) : q[i].kind # "press"
    BY <1>5
  <1>7. key \in keys /\ \A i \in 1..Len(q) : q[i].to # "hid" \/ q[i].arg # key
    BY <1>3, <1>4, <1>6, OnlyReleases, Zenon
  <1>8. ASSUME NEW i \in 1..Len(r) PROVE r[i].arg # key
    <2>1. i + 3 \in 1..Len(q) /\ q[i + 3] = r[i]
      BY <1>1, <1>4
    <2> QED
      BY <1>5, <1>7, <2>1
  <1>9. key # Gui
    <2>1. 3 \in 1..Len(q) /\ q[3] = x[3]
      BY <1>1, <1>4
    <2> QED
      BY <1>2, <1>7, <2>1
  <1> QED
    BY <1>1, <1>7, <1>8, <1>9

(* The sends of the buttons: the first one is about the key read.            *)
LEMMA ButtonEffect ==
  ASSUME NEW button \in ButtonKeys, NEW q \in Seq(Sends),
         Len(q) \in {1, 2}, q[1].to = "hid", q[1].arg = button,
         Len(q) = 2 => q[2].to = "mic",
         NEW keys, NEW key \in KeyCodes
  PROVE  /\ key # button => (WillBeDown(q, keys, key) <=> key \in keys)
         /\ WillBeDown(q, keys, button) <=> q[1].kind = "press"
  <1>1. ASSUME key # button PROVE WillBeDown(q, keys, key) <=> key \in keys
    BY <1>1, Untouched
  <1>2. \A j \in 1..Len(q) : j > 1 => q[j].to # "hid" \/ q[j].arg # button
    OBVIOUS
  <1>3. WillBeDown(q, keys, button) <=> q[1].kind = "press"
    BY <1>2, LastDecides
  <1> QED
    BY <1>1, <1>3

LEMMA CommandDecides ==
  ASSUME NEW q \in Seq(Sends), NEW on \in BOOLEAN, Len(q) = 2,
         q[1].to # "mic", q[2].to = "mic"
  PROVE  WillHear(q, on) <=> q[2].kind = "start"
  <1>1. Commands(q) = {2}
    BY DEF Commands
  <1> QED
    BY <1>1 DEF WillHear

----------------------------------------------------------------------------
(* The keys left down, once everything pending has been sent: each one is a  *)
(* button's and handled as pressed, Command is down while the switcher is    *)
(* open, nothing is after a shutdown, and the microphone hears the dictation *)
(* key.                                                                      *)

DownNext(key) == WillBeDown(outbox, down, key)

Handled(key) == HandledFrom(input["buttons"], phys, key, 0)

PressesFollowed == Alternates(input["buttons"], phys)

NoStrayKeys ==
  \A key \in KeyCodes :
    key # Gui /\ DownNext(key) => key \in ButtonKeys /\ Handled(key)

CommandWhileActive == DownNext(Gui) <=> active

NothingLeftByStop == pc = "stopped" => \A key \in KeyCodes : ~DownNext(key)

DictationWillBeHeard == DownNext(Alt) => WillHear(outbox, micOn)

KeysInv ==
  /\ PressesFollowed
  /\ NoStrayKeys
  /\ CommandWhileActive
  /\ NothingLeftByStop
  /\ DictationWillBeHeard

LEMMA KeysInit == Init => KeysInv
  <1>1. SUFFICES ASSUME Init PROVE KeysInv
    OBVIOUS
  <1>2. outbox = <<>> /\ down = {} /\ micOn = FALSE /\ active = FALSE /\ pc = "select"
    BY <1>1 DEF Init
  <1>3. \A key : ~DownNext(key)
    BY <1>2 DEF DownNext, WillBeDown, About
  <1>4. input["buttons"] = <<>>
    BY <1>1 DEF Init, Devices
  <1>5. PressesFollowed
    BY <1>4 DEF PressesFollowed, Alternates
  <1> QED
    BY <1>2, <1>3, <1>5
       DEF KeysInv, NoStrayKeys, CommandWhileActive, NothingLeftByStop, DictationWillBeHeard

LEMMA NonePending ==
  ASSUME TypeOK, outbox = <<>>
  PROVE  /\ \A key : DownNext(key) <=> key \in down
         /\ WillHear(outbox, micOn) <=> micOn
  BY NothingToSend DEF DownNext, TypeOK

(* One more send is made. *)
LEMMA KeysSend ==
  ASSUME TypeOK, KeysInv, Send
  PROVE  KeysInv'
  <1>1. outbox \in Seq(Sends) /\ outbox # <<>> /\ outbox' = Tail(outbox) /\ micOn \in BOOLEAN
    BY DEF TypeOK, Send
  <1>2. Head(outbox) \in Sends
    BY <1>1, TailFacts
  <1>3. down' = KeysAfter(Head(outbox), down)
    BY <1>2 DEF Send, KeysAfter
  <1>4. micOn' = MicAfter(Head(outbox), micOn)
    BY <1>2 DEF Send, MicAfter
  <1>5. ASSUME NEW key PROVE DownNext(key) <=> DownNext(key)'
    <2>1. WillBeDown(outbox, down, key)
            <=> WillBeDown(Tail(outbox), KeysAfter(Head(outbox), down), key)
      BY <1>1, PeelKeys
    <2> QED
      BY <1>1, <1>3, <2>1, Zenon DEF DownNext
  <1>6. WillHear(outbox, micOn) <=> WillHear(outbox, micOn)'
    <2>1. WillHear(outbox, micOn)
            <=> WillHear(Tail(outbox), MicAfter(Head(outbox), micOn))
      BY <1>1, PeelCommands
    <2> QED
      BY <1>1, <1>4, <2>1, Zenon
  <1>7. UNCHANGED <<input, phys, active, pc>>
    BY DEF Send, local, user
  <1>8. PressesFollowed'
    BY <1>7 DEF KeysInv, PressesFollowed
  <1>9. \A key : Handled(key) <=> Handled(key)'
    BY <1>7 DEF Handled
  <1>10. NoStrayKeys'
    BY <1>5, <1>9, Zenon DEF KeysInv, NoStrayKeys
  <1>11. CommandWhileActive'
    BY <1>5, <1>7 DEF KeysInv, CommandWhileActive
  <1>12. NothingLeftByStop'
    BY <1>5, <1>7, Zenon DEF KeysInv, NothingLeftByStop
  <1>13. DictationWillBeHeard'
    BY <1>5, <1>6, Zenon DEF KeysInv, DictationWillBeHeard
  <1> QED
    BY <1>8, <1>10, <1>11, <1>12, <1>13 DEF KeysInv

(* A handler that presses no key but Command and forgets no release.         *)
LEMMA KeysQuiet ==
  ASSUME TypeOK, TypeOK', KeysInv, outbox = <<>>, down' = down, micOn' = micOn,
         \A key \in KeyCodes : key # Gui /\ DownNext(key)' => key \in down,
         DownNext(Gui)' <=> active',
         WillHear(outbox, micOn)' <=> micOn,
         pc' # "stopped",
         PressesFollowed',
         \A key \in ButtonKeys : Handled(key) => Handled(key)'
  PROVE  KeysInv'
  <1>1. (\A key : DownNext(key) <=> key \in down) /\ (WillHear(outbox, micOn) <=> micOn)
    BY NonePending
  <1>2. NoStrayKeys'
    BY <1>1 DEF KeysInv, NoStrayKeys
  <1>3. DictationWillBeHeard'
    BY <1>1, Codes, Distinct DEF KeysInv, DictationWillBeHeard
  <1> QED
    BY <1>2, <1>3 DEF KeysInv, CommandWhileActive, NothingLeftByStop

(* A handler that sends nothing. *)
LEMMA KeysSilent ==
  ASSUME TypeOK, KeysInv, UNCHANGED <<outbox, down, micOn, active>>,
         pc' = "stopped" => pc = "stopped",
         PressesFollowed',
         \A key \in ButtonKeys : Handled(key) => Handled(key)'
  PROVE  KeysInv'
  <1>1. \A key : DownNext(key) <=> DownNext(key)'
    BY DEF DownNext
  <1>2. WillHear(outbox, micOn) <=> WillHear(outbox, micOn)'
    OBVIOUS
  <1>3. NoStrayKeys'
    BY <1>1 DEF KeysInv, NoStrayKeys
  <1>4. CommandWhileActive'
    BY <1>1 DEF KeysInv, CommandWhileActive
  <1>5. NothingLeftByStop'
    BY <1>1 DEF KeysInv, NothingLeftByStop
  <1>6. DictationWillBeHeard'
    BY <1>1, <1>2, Zenon DEF KeysInv, DictationWillBeHeard
  <1> QED
    BY <1>3, <1>4, <1>5, <1>6 DEF KeysInv

LEMMA SameQueue ==
  ASSUME KeysInv, input'["buttons"] = input["buttons"], phys' = phys
  PROVE  PressesFollowed' /\ \A key : Handled(key) <=> Handled(key)'
  BY DEF KeysInv, PressesFollowed, Handled

(* Reading an event keeps what follows about every other button, and after a *)
(* press its release follows.                                                *)
LEMMA KeysRead ==
  ASSUME TypeOK, ReadyHasInput, KeysInv, NEW device \in Devices, NEW kinds,
         Reads(device, kinds), phys' = phys
  PROVE  /\ PressesFollowed'
         /\ \A key : device = "knob" \/ kinds \cap {"press", "release"} = {}
                       \/ Head(input["buttons"]).arg # key
                     => (Handled(key) => Handled(key)')
         /\ \A key : /\ device = "buttons"
                     /\ Head(input["buttons"]).kind = "press"
                     /\ Head(input["buttons"]).arg = key
                     => Handled(key)'
  <1>1. CASE device = "knob"
    <2>1. input'["buttons"] = input["buttons"]
      BY <1>1 DEF Reads, TypeOK, Devices
    <2> QED
      BY <1>1, <2>1, SameQueue
  <1>2. CASE device = "buttons"
    <2> DEFINE q == input["buttons"]
    <2>1. q \in Seq(InputEvents) /\ q # <<>> /\ Head(q).kind \in kinds
      BY <1>2 DEF Reads, TypeOK, ReadyHasInput
    <2>2. input'["buttons"] = Tail(q)
      BY <1>2 DEF Reads, TypeOK
    <2>3. Alternates(q, phys)
      BY DEF KeysInv, PressesFollowed
    <2> HIDE DEF q
    <2>4. Alternates(Tail(q), phys)
      BY <2>1, <2>3, TailAlternates
    <2>5. Head(q).kind = "press" => HandledFrom(Tail(q), phys, Head(q).arg, 0)
      BY <2>1, <2>3, PressHandled
    <2>6. ASSUME NEW key, HandledFrom(q, phys, key, 0),
                 kinds \cap {"press", "release"} = {} \/ Head(q).arg # key
          PROVE  HandledFrom(Tail(q), phys, key, 0)
      BY <2>1, <2>6, SkipHandled
    <2>7. PressesFollowed'
      BY <2>2, <2>4 DEF PressesFollowed
    <2>8. \A key : Handled(key) <=> HandledFrom(q, phys, key, 0)
      BY DEF Handled, q
    <2>9. \A key : Handled(key)' <=> HandledFrom(Tail(q), phys, key, 0)
      BY <2>2 DEF Handled
    <2>10. q = input["buttons"]
      BY DEF q
    <2>11. ASSUME NEW key, Handled(key),
                  \/ device = "knob"
                  \/ kinds \cap {"press", "release"} = {}
                  \/ Head(input["buttons"]).arg # key
           PROVE  Handled(key)'
      <3>1. kinds \cap {"press", "release"} = {} \/ Head(q).arg # key
        BY <1>2, <2>10, <2>11
      <3>2. HandledFrom(q, phys, key, 0)
        BY <2>8, <2>11
      <3>3. HandledFrom(Tail(q), phys, key, 0)
        BY <2>6, <3>1, <3>2
      <3> QED
        BY <2>9, <3>3
    <2>12. ASSUME NEW key, Head(q).kind = "press", Head(q).arg = key
           PROVE  Handled(key)'
      BY <2>5, <2>9, <2>12, Zenon
    <2> QED
      BY <2>7, <2>10, <2>11, <2>12
  <1> QED
    BY <1>1, <1>2 DEF Devices

(* A button's handler: its key follows it, every other key stays as it is.   *)
LEMMA KeysButton ==
  ASSUME TypeOK, TypeOK', ReadyHasInput, KeysInv, outbox = <<>>,
         Reads("buttons", {"press", "release"}), phys' = phys, down' = down,
         micOn' = micOn, active' = active, pc' # "stopped",
         NEW button \in ButtonKeys, Head(input["buttons"]).arg = button,
         Len(outbox') \in {1, 2}, outbox'[1].to = "hid", outbox'[1].arg = button,
         outbox'[1].kind = Head(input["buttons"]).kind,
         Len(outbox') = 2 => outbox'[2].to = "mic",
         button # Alt => (WillHear(outbox, micOn)' <=> micOn),
         button = Alt /\ Head(input["buttons"]).kind = "press" => WillHear(outbox, micOn)'
  PROVE  KeysInv'
  <1>0. outbox' \in Seq(Sends) /\ "buttons" \in Devices
    BY DEF TypeOK, Devices
  <1>1. /\ PressesFollowed'
        /\ \A key : key # button => (Handled(key) => Handled(key)')
        /\ Head(input["buttons"]).kind = "press" => Handled(button)'
    BY <1>0, KeysRead
  <1>2. /\ \A key \in KeyCodes : key # button => (DownNext(key)' <=> key \in down)
        /\ DownNext(button)' <=> Head(input["buttons"]).kind = "press"
    <2>1. \A key \in KeyCodes :
             /\ key # button => (WillBeDown(outbox', down, key) <=> key \in down)
             /\ WillBeDown(outbox', down, button) <=> outbox'[1].kind = "press"
      BY <1>0, ButtonEffect
    <2> QED
      BY <2>1, Codes DEF DownNext
  <1>3. (\A key : DownNext(key) <=> key \in down) /\ (WillHear(outbox, micOn) <=> micOn)
    BY NonePending
  <1>4. button # Gui
    BY Distinct DEF ButtonKeys
  <1>5. NoStrayKeys'
    <2>1. SUFFICES ASSUME NEW key \in KeyCodes, key # Gui, DownNext(key)'
                   PROVE  key \in ButtonKeys /\ Handled(key)'
      BY DEF NoStrayKeys
    <2>2. CASE key = button
      BY <1>1, <1>2, <2>1, <2>2
    <2>3. CASE key # button
      <3>1. DownNext(key)
        BY <1>2, <1>3, <2>1, <2>3
      <3>2. key \in ButtonKeys /\ Handled(key)
        BY <2>1, <3>1 DEF KeysInv, NoStrayKeys
      <3> QED
        BY <1>1, <2>3, <3>2
    <2> QED
      BY <2>2, <2>3
  <1>6. CommandWhileActive'
    <2>1. DownNext(Gui)' <=> DownNext(Gui)
      BY <1>2, <1>3, <1>4, Codes
    <2> QED
      BY <2>1 DEF KeysInv, CommandWhileActive
  <1>7. DictationWillBeHeard'
    <2>1. CASE button = Alt
      BY <1>2, <2>1, Zenon DEF DictationWillBeHeard
    <2>2. CASE button # Alt
      <3>1. DownNext(Alt)' <=> DownNext(Alt)
        BY <1>2, <1>3, <2>2, Codes
      <3>2. WillHear(outbox, micOn)' <=> WillHear(outbox, micOn)
        BY <1>3, <2>2
      <3> QED
        BY <3>1, <3>2, Zenon DEF KeysInv, DictationWillBeHeard
    <2> QED
      BY <2>1, <2>2
  <1> QED
    BY <1>1, <1>5, <1>6, <1>7 DEF KeysInv, NothingLeftByStop

LEMMA KeysRoundButton ==
  ASSUME TypeOK, TypeOK', ReadyHasInput, KeysInv, HandleRoundButton
  PROVE  KeysInv'
  <1> DEFINE k == Head(input["buttons"]).kind
  <1>1. /\ outbox = <<>> /\ pc' # "stopped"
        /\ UNCHANGED <<phys, down, micOn, active>>
        /\ Reads("buttons", {"press", "release"})
        /\ Head(input["buttons"]).arg = Alt
    BY DEF HandleRoundButton, Reads, At, AfterEvent, user, sent
  <1>2. k \in {"press", "release"}
    BY <1>1 DEF Reads
  <1>3. /\ Press(Alt) \in Sends /\ Press(Alt).to = "hid"
        /\ Press(Alt).kind = "press" /\ Press(Alt).arg = Alt
        /\ Release(Alt) \in Sends /\ Release(Alt).to = "hid"
        /\ Release(Alt).kind = "release" /\ Release(Alt).arg = Alt
    BY KeySends, Codes
  <1>4. /\ MicStart \in Sends /\ MicStart.to = "mic" /\ MicStart.kind = "start"
        /\ MicStop \in Sends /\ MicStop.to = "mic"
    BY OtherSends
  <1>5. /\ Len(outbox') = 2 /\ outbox'[1].to = "hid" /\ outbox'[1].arg = Alt
        /\ outbox'[1].kind = k /\ outbox'[2].to = "mic"
        /\ k = "press" => outbox'[2].kind = "start"
    <2>1. CASE k = "press"
      <3>1. outbox' = <<Press(Alt), MicStart>>
        BY <2>1 DEF HandleRoundButton
      <3> QED
        BY <1>3, <1>4, <2>1, <3>1
    <2>2. CASE k = "release"
      <3>1. outbox' = <<Release(Alt), MicStop>>
        BY <2>2 DEF HandleRoundButton
      <3> QED
        BY <1>3, <1>4, <2>2, <3>1
    <2> QED
      BY <1>2, <2>1, <2>2
  <1>6. k = "press" => WillHear(outbox, micOn)'
    <2>1. outbox' \in Seq(Sends) /\ micOn' \in BOOLEAN
      BY DEF TypeOK
    <2>2. WillHear(outbox', micOn') <=> outbox'[2].kind = "start"
      BY <1>5, <2>1, CommandDecides
    <2> QED
      BY <1>5, <2>2
  <1> HIDE DEF k
  <1>7. Alt \in ButtonKeys
    BY DEF ButtonKeys
  <1> QED
    BY <1>1, <1>5, <1>6, <1>7, KeysButton DEF k

LEMMA KeysPreset ==
  ASSUME TypeOK, TypeOK', ReadyHasInput, KeysInv, HandlePreset
  PROVE  KeysInv'
  <1> DEFINE k == Head(input["buttons"]).kind
             key == Head(input["buttons"]).arg
  <1>1. /\ outbox = <<>> /\ pc' # "stopped"
        /\ UNCHANGED <<phys, down, micOn, active>>
        /\ Reads("buttons", {"press", "release"})
        /\ key \in Presets
        /\ outbox' = IF k = "press" THEN <<Press(key)>> ELSE <<Release(key)>>
    BY DEF HandlePreset, Reads, At, AfterEvent, user, sent
  <1>2. k \in {"press", "release"}
    BY <1>1 DEF Reads
  <1>3. /\ Press(key).to = "hid" /\ Press(key).kind = "press" /\ Press(key).arg = key
        /\ Release(key).to = "hid" /\ Release(key).kind = "release" /\ Release(key).arg = key
    BY <1>1, KeySends, Codes
  <1> HIDE DEF k, key
  <1>4. /\ Len(outbox') = 1 /\ outbox'[1].to = "hid" /\ outbox'[1].arg = key
        /\ outbox'[1].kind = k
    BY <1>1, <1>2, <1>3
  <1>5. WillHear(outbox, micOn)' <=> micOn
    <2>1. outbox' \in Seq(Sends) /\ micOn \in BOOLEAN /\ micOn' = micOn
      BY <1>1 DEF TypeOK
    <2>2. \A j \in 1..Len(outbox') : outbox'[j].to # "mic"
      BY <1>4
    <2> QED
      BY <2>1, <2>2, NoCommand
  <1>6. key \in ButtonKeys /\ key # Alt
    BY <1>1, Distinct DEF ButtonKeys
  <1> QED
    BY <1>1, <1>4, <1>5, <1>6, KeysButton DEF k, key

(* The handlers of the wheel, of the timeout, of clicks and of the menu.     *)
LEMMA KeysLoop ==
  ASSUME TypeOK, TypeOK', ReadyHasInput, KeysInv, Loop
  PROVE  KeysInv'
  <1> USE DEF user, sent, session, local, At
  <1>0. outbox = <<>> => /\ \A key : DownNext(key) <=> key \in down
                         /\ WillHear(outbox, micOn) <=> micOn
    BY NonePending
  <1>00. active \in BOOLEAN /\ micOn \in BOOLEAN /\ outbox' \in Seq(Sends)
    BY DEF TypeOK
  <1>1. CASE Send
    BY <1>1, KeysSend
  <1>2. CASE Select \/ EmitNothing \/ TimeoutPasses \/ Entered
    <2>1. /\ UNCHANGED <<outbox, down, micOn, active, input, phys>>
          /\ pc' # "stopped"
      BY <1>2 DEF Select, EmitNothing, TimeoutPasses, Entered, AfterTimeout
    <2> QED
      BY <2>1, SameQueue, KeysSilent
  <1>3. CASE EmitStep
    <2>1. PICK step \in {-1, 1} : outbox' = AppSwitchStep(step)
      <3>1. StepOf(wheel, clock) \in {-1, 0, 1}
        BY AfterTryType DEF TypeOK
      <3> QED
        BY <1>3, <3>1 DEF EmitStep
    <2>2. /\ UNCHANGED <<down, micOn, active, input, phys>>
          /\ outbox = <<>> /\ pc' = "timeout"
      BY <1>3 DEF EmitStep
    <2>3. \A key \in KeyCodes : DownNext(key)' => key \in down
      BY <2>1, <2>2, StepEffect, <1>00 DEF DownNext
    <2>4. DownNext(Gui)' <=> Gui \in down
      BY <2>1, <2>2, StepEffect, Codes, <1>00 DEF DownNext
    <2>5. WillHear(outbox, micOn)' <=> micOn
      BY <2>1, <2>2, StepEffect, Codes, <1>00
    <2>6. DownNext(Gui)' <=> active'
      BY <1>0, <2>2, <2>4 DEF KeysInv, CommandWhileActive
    <2> QED
      BY <2>2, <2>3, <2>5, <2>6, SameQueue, KeysQuiet
  <1>4. ASSUME outbox' = AppSwitchExit, active' = FALSE, outbox = <<>>,
               down' = down, micOn' = micOn, pc' # "stopped", PressesFollowed',
               \A key \in ButtonKeys : Handled(key) => Handled(key)'
        PROVE  KeysInv'
    <2>1. \A key \in KeyCodes : DownNext(key)' <=> key \in down /\ key \notin {Tab, Shift, Gui}
      BY <1>4, ExitEffect, <1>00 DEF DownNext
    <2>2. WillHear(outbox, micOn)' <=> micOn
      BY <1>4, ExitEffect, Codes, <1>00
    <2>3. DownNext(Gui)' <=> active'
      BY <1>4, <2>1, Codes
    <2> QED
      BY <1>4, <2>1, <2>2, <2>3, KeysQuiet
  <1>5. CASE TimeoutExit
    <2>1. /\ UNCHANGED <<down, micOn, input, phys>> /\ outbox = <<>>
          /\ outbox' = AppSwitchExit /\ active' = FALSE /\ pc' # "stopped"
      BY <1>5 DEF TimeoutExit, AfterTimeout
    <2> QED
      BY <1>4, <2>1, SameQueue
  <1>6. CASE HandleRoundButton
    BY <1>6, KeysRoundButton
  <1>7. CASE HandlePreset
    BY <1>7, KeysPreset
  <1>8. CASE HandleMute
    <2>1. /\ UNCHANGED <<down, micOn, active, phys>> /\ outbox = <<>>
          /\ outbox' = <<MenuToggle>> /\ pc' # "stopped" /\ Reads("buttons", {"mute"})
      BY <1>8 DEF HandleMute, AfterEvent, Reads
    <2>2. PressesFollowed' /\ \A key : Handled(key) => Handled(key)'
      BY <2>1, KeysRead DEF Devices
    <2>3. \A j \in 1..Len(outbox') : outbox'[j].to = "menu"
      BY <2>1, OtherSends
    <2>4. \A key : DownNext(key)' <=> key \in down
      BY <1>00, <2>1, <2>3, Untouched DEF DownNext
    <2>5. WillHear(outbox, micOn)' <=> micOn
      BY <1>00, <2>1, <2>3, NoCommand
    <2>6. DownNext(Gui)' <=> active'
      BY <1>0, <2>1, <2>4 DEF KeysInv, CommandWhileActive
    <2> QED
      BY <2>1, <2>2, <2>4, <2>5, <2>6, KeysQuiet
  <1>9. CASE HandleTurn
    <2>1. /\ UNCHANGED <<outbox, down, micOn, active, phys>>
          /\ pc' # "stopped" /\ Reads("knob", {"turn"})
      BY <1>9 DEF HandleTurn, AfterEvent
    <2>2. PressesFollowed' /\ \A key : Handled(key) => Handled(key)'
      BY <2>1, KeysRead DEF Devices
    <2> QED
      BY <2>1, <2>2, KeysSilent
  <1>10. ASSUME NEW device \in Devices, NotReadable(device)
         PROVE  KeysInv'
    <2>1. /\ UNCHANGED <<outbox, down, micOn, active, input, phys>> /\ pc' # "stopped"
      BY <1>10 DEF NotReadable, AfterEvent
    <2> QED
      BY <2>1, SameQueue, KeysSilent
  <1>11. ASSUME NEW device \in Devices, Reads(device, {"click"}), phys' = phys
         PROVE  PressesFollowed' /\ \A key : Handled(key) => Handled(key)'
    BY <1>11, KeysRead
  <1>12. ASSUME NEW device \in Devices, HandleClickBounced(device)
         PROVE  KeysInv'
    <2>1. /\ UNCHANGED <<outbox, down, micOn, active, phys>>
          /\ pc' # "stopped" /\ Reads(device, {"click"})
      BY <1>12 DEF HandleClickBounced, AfterEvent
    <2> QED
      BY <1>11, <2>1, KeysSilent
  <1>13. ASSUME NEW device \in Devices, HandleClickEnter(device)
         PROVE  KeysInv'
    <2>1. /\ UNCHANGED <<down, micOn, phys>> /\ outbox = <<>> /\ active' = TRUE
          /\ pc' # "stopped" /\ Reads(device, {"click"}) /\ outbox' = AppSwitchEnter
      BY <1>13 DEF HandleClickEnter, Reads
    <2>2. \A key \in KeyCodes : DownNext(key)' <=> key = Gui \/ (key \in down /\ key # Tab)
      BY <2>1, EnterEffect, <1>00 DEF DownNext
    <2>3. WillHear(outbox, micOn)' <=> micOn
      BY <2>1, EnterEffect, Codes, <1>00
    <2>4. DownNext(Gui)' <=> active'
      BY <2>1, <2>2, Codes
    <2> QED
      BY <1>11, <2>1, <2>2, <2>3, <2>4, KeysQuiet
  <1>14. ASSUME NEW device \in Devices, HandleClickExit(device)
         PROVE  KeysInv'
    <2>1. /\ UNCHANGED <<down, micOn, phys>> /\ outbox = <<>> /\ active' = FALSE
          /\ pc' # "stopped" /\ Reads(device, {"click"}) /\ outbox' = AppSwitchExit
      BY <1>14 DEF HandleClickExit, AfterEvent, Reads
    <2> QED
      BY <1>4, <1>11, <2>1
  <1> QED
    BY <1>1, <1>2, <1>3, <1>5, <1>6, <1>7, <1>8, <1>9, <1>10, <1>12, <1>13, <1>14 DEF Loop

(* SIGTERM: what a button left down is released, and Command if it is down.  *)
LEMMA KeysStop ==
  ASSUME TypeOK, TypeOK', KeysInv, Stop
  PROVE  KeysInv'
  <1>1. /\ UNCHANGED <<down, micOn, input, phys>> /\ outbox = <<>>
        /\ active' = FALSE
        /\ outbox' = IF active THEN AppSwitchExit \o ShutdownReleases ELSE ShutdownReleases
    BY DEF Stop, At, user, sent
  <1>2. \A key : DownNext(key) <=> key \in down
    BY <1>1, NonePending
  <1>3. ASSUME NEW key \in KeyCodes PROVE ~DownNext(key)'
    <2>1. SUFFICES ASSUME DownNext(key)' PROVE FALSE
      OBVIOUS
    <2>2. CASE active
      <3>1. key \in down /\ key \notin ButtonKeys /\ key # Gui
        <4>1. WillBeDown(AppSwitchExit \o ShutdownReleases, down, key)
          BY <1>1, <2>1, <2>2 DEF DownNext
        <4> QED
          BY <4>1, LeaveEffect
      <3> QED
        BY <1>2, <3>1 DEF KeysInv, NoStrayKeys
    <2>3. CASE ~active
      <3>1. key \in down /\ key \notin ButtonKeys
        <4>1. WillBeDown(ShutdownReleases, down, key)
          BY <1>1, <2>1, <2>3 DEF DownNext
        <4> QED
          BY <4>1, ShutdownEffect
      <3> QED
        BY <1>2, <2>3, <3>1 DEF KeysInv, NoStrayKeys, CommandWhileActive
    <2> QED
      BY <2>2, <2>3
  <1>4. PressesFollowed'
    BY <1>1, SameQueue
  <1> QED
    BY <1>1, <1>3, <1>4, Codes
       DEF KeysInv, NoStrayKeys, CommandWhileActive, NothingLeftByStop, DictationWillBeHeard

(* The new process starts with empty queues and nothing down.                *)
LEMMA KeysStart ==
  ASSUME TypeOK, KeysInv, Start
  PROVE  KeysInv'
  <1>1. /\ UNCHANGED <<outbox, down, micOn, active>> /\ pc = "stopped"
        /\ pc' = "select" /\ input'["buttons"] = <<>>
    BY DEF Start, At, sent, Devices
  <1>2. \A key : DownNext(key) <=> DownNext(key)'
    BY <1>1 DEF DownNext
  <1>3. \A key \in KeyCodes : ~DownNext(key)'
    BY <1>1, <1>2 DEF KeysInv, NothingLeftByStop
  <1>4. PressesFollowed'
    BY <1>1 DEF PressesFollowed, Alternates
  <1>5. CommandWhileActive'
    BY <1>1, <1>2 DEF KeysInv, CommandWhileActive
  <1> QED
    BY <1>1, <1>3, <1>4, <1>5, Codes
       DEF KeysInv, NoStrayKeys, NothingLeftByStop, DictationWillBeHeard

(* The user's input is added behind what waits.                              *)
LEMMA KeysQueue ==
  ASSUME TypeOK, KeysInv, NEW devices, NEW event \in InputEvents, Queue(devices, event),
         event.kind = "press" => event.arg \notin phys /\ event.arg \in phys',
         \A key : event.kind \notin {"press", "release"} \/ event.arg # key
                    => (key \in phys => key \in phys'),
         "buttons" \in devices \/ phys' = phys
  PROVE  KeysInv'
  <1> DEFINE q == input["buttons"]
  <1>1. /\ UNCHANGED <<outbox, down, micOn, active, pc>>
        /\ "buttons" \in devices => input'["buttons"] = Append(q, event)
        /\ "buttons" \notin devices => input'["buttons"] = q
        /\ q \in Seq(InputEvents)
    BY DEF Queue, local, sent, Devices, TypeOK
  <1> HIDE DEF q
  <1>2. CASE "buttons" \in devices
    <2>1. Alternates(q, phys)
      BY DEF KeysInv, PressesFollowed, q
    <2>2. Alternates(Append(q, event), phys')
      BY <1>1, <2>1, AppendAlternates
    <2>3. ASSUME NEW key, HandledFrom(q, phys, key, 0)
          PROVE  HandledFrom(Append(q, event), phys', key, 0)
      <3>1. 0 \in 0..Len(q)
        BY <1>1
      <3> QED
        BY <1>1, <2>3, <3>1, AppendHandled
    <2>4. \A key : Handled(key) => Handled(key)'
      BY <1>1, <1>2, <2>3 DEF Handled, q
    <2>5. PressesFollowed'
      BY <1>1, <1>2, <2>2 DEF PressesFollowed
    <2> QED
      BY <1>1, <2>4, <2>5, KeysSilent
  <1>3. CASE "buttons" \notin devices
    <2>1. input'["buttons"] = input["buttons"] /\ phys' = phys
      BY <1>1, <1>3 DEF q
    <2> QED
      BY <1>1, <2>1, SameQueue, KeysSilent
  <1> QED
    BY <1>2, <1>3

LEMMA KeysStep ==
  ASSUME TypeOK, TypeOK', ReadyHasInput, KeysInv, [Next]_vars
  PROVE  KeysInv'
  <1>1. CASE Loop
    BY <1>1, KeysLoop
  <1>2. CASE Tick \/ HidReceives \/ HidRestarts \/ UNCHANGED vars
    <2>1. UNCHANGED <<outbox, down, micOn, active, input, phys, pc>>
      <3>1. CASE Tick
        BY <3>1 DEF Tick, local, user, sent
      <3>2. CASE HidReceives
        BY <3>2 DEF HidReceives, local, user, sent
      <3>3. CASE HidRestarts
        BY <3>3 DEF HidRestarts, local, user, sent
      <3>4. CASE UNCHANGED vars
        BY <3>4 DEF vars
      <3> QED
        BY <1>2, <3>1, <3>2, <3>3, <3>4
    <2> QED
      BY <2>1, SameQueue, KeysSilent
  <1>3. CASE Stop
    BY <1>3, KeysStop
  <1>4. CASE Start
    BY <1>4, KeysStart
  <1>5. CASE User
    <2>1. ASSUME NEW key \in {Alt} \cup Presets, PressButton(key)
          PROVE  KeysInv'
      <3>1. [kind |-> "press", arg |-> key] \in InputEvents
        BY DEF InputEvents
      <3> QED
        BY <2>1, <3>1, KeysQueue DEF PressButton
    <2>2. ASSUME NEW key \in {Alt} \cup Presets, ReleaseButton(key)
          PROVE  KeysInv'
      <3>1. [kind |-> "release", arg |-> key] \in InputEvents
        BY DEF InputEvents
      <3> QED
        BY <2>2, <3>1, KeysQueue DEF ReleaseButton
    <2>3. ASSUME NEW devices \in SUBSET Devices, ClickKnob(devices)
          PROVE  KeysInv'
      <3>1. [kind |-> "click", arg |-> NoArg] \in InputEvents
        BY DEF InputEvents
      <3> QED
        BY <2>3, <3>1, KeysQueue DEF ClickKnob
    <2>4. ASSUME NEW delta \in Turns, TurnKnob(delta)
          PROVE  KeysInv'
      <3>1. [kind |-> "turn", arg |-> delta] \in InputEvents
        BY DEF InputEvents
      <3> QED
        BY <2>4, <3>1, KeysQueue DEF TurnKnob
    <2>5. ASSUME PressMute PROVE KeysInv'
      <3>1. [kind |-> "mute", arg |-> NoArg] \in InputEvents
        BY DEF InputEvents
      <3> QED
        BY <2>5, <3>1, KeysQueue DEF PressMute
    <2> QED
      BY <1>5, <2>1, <2>2, <2>3, <2>4, <2>5 DEF User
  <1> QED
    BY <1>1, <1>2, <1>3, <1>4, <1>5 DEF Next, Listener

----------------------------------------------------------------------------
(* The wheel: no direction owes or has sent more than it was turned.         *)

Forward(n)  == IF n > 0 THEN n ELSE 0
Backward(n) == IF n < 0 THEN -n ELSE 0

StepsEarned ==
  /\ stepped.fwd + Forward(wheel.accum) <= turned.fwd
  /\ stepped.bwd + Backward(wheel.accum) <= turned.bwd

LEMMA OnDeltaEarned ==
  ASSUME NEW w \in WheelStates, NEW delta \in Int, NEW t \in Nat
  PROVE  /\ Forward(OnDelta(w, delta, t).accum) <= Forward(w.accum) + Forward(delta)
         /\ Backward(OnDelta(w, delta, t).accum) <= Backward(w.accum) + Backward(delta)
         /\ OnDelta(w, delta, t).emitAt = w.emitAt
  <1> DEFINE w2 == OnDelta(w, delta, t)
             d == Clamp(delta, DeltaMax)
  <1>1. w.accum \in Int /\ AccumMax \in Nat /\ DeltaMax \in Nat
    BY WheelAssumption DEF WheelStates
  <1>2. d \in Int /\ Forward(d) <= Forward(delta) /\ Backward(d) <= Backward(delta)
    BY <1>1 DEF Clamp, Forward, Backward
  <1>3. w2.accum \in {w.accum, Clamp(w.accum + d, AccumMax)} /\ w2.emitAt = w.emitAt
    BY DEF OnDelta, WheelStates
  <1> HIDE DEF w2, d
  <1>4. /\ Forward(Clamp(w.accum + d, AccumMax)) <= Forward(w.accum) + Forward(d)
        /\ Backward(Clamp(w.accum + d, AccumMax)) <= Backward(w.accum) + Backward(d)
    BY <1>1, <1>2 DEF Clamp, Forward, Backward
  <1>5. /\ Forward(w2.accum) <= Forward(w.accum) + Forward(delta)
        /\ Backward(w2.accum) <= Backward(w.accum) + Backward(delta)
    <2>1. CASE w2.accum = w.accum
      BY <1>1, <2>1 DEF Forward, Backward
    <2>2. CASE w2.accum = Clamp(w.accum + d, AccumMax)
      <3>1. Clamp(w.accum + d, AccumMax) \in Int
        BY <1>1, <1>2 DEF Clamp
      <3> QED
        BY <1>1, <1>2, <1>4, <2>2, <3>1 DEF Forward, Backward
    <2> QED
      BY <1>3, <2>1, <2>2
  <1> QED
    BY <1>3, <1>5 DEF w2

(* A step is one off what is owed, in the direction owed; against the        *)
(* direction of the last step it needs the threshold.                        *)
LEMMA StepFacts ==
  ASSUME NEW w \in WheelStates, NEW t \in Nat, StepOf(w, t) # 0
  PROVE  /\ AfterTry(w, t).emitAt = t
         /\ w.emitAt = 0 \/ t - w.emitAt >= EmitInterval
         /\ StepOf(w, t) > 0 =>
              /\ w.accum > 0 /\ AfterTry(w, t).accum = w.accum - 1
              /\ w.outDir = -1 => w.accum >= ReverseThreshold
         /\ StepOf(w, t) <= 0 =>
              /\ w.accum < 0 /\ AfterTry(w, t).accum = w.accum + 1
              /\ w.outDir = 1 => -w.accum >= ReverseThreshold
  <1>1. MayEmit(w, t) /\ StepOf(w, t) = Sign(w.accum)
    BY DEF StepOf
  <1>2. /\ w.accum \in Int /\ w.emitAt \in Nat
        /\ EmitInterval \in Nat /\ ReverseThreshold \in Nat
    BY WheelAssumption DEF WheelStates
  <1>3. AfterTry(w, t) = [w EXCEPT !.accum = @ - Sign(w.accum), !.emitAt = t,
                                   !.outDir = Sign(w.accum)]
    BY <1>1 DEF AfterTry
  <1>4. AfterTry(w, t).emitAt = t /\ AfterTry(w, t).accum = w.accum - Sign(w.accum)
    BY <1>3 DEF WheelStates
  <1>5. w.accum # 0 /\ (w.emitAt = 0 \/ t - w.emitAt >= EmitInterval)
    BY <1>1, <1>2 DEF MayEmit
  <1>6. w.outDir # 0 /\ Sign(w.accum) # w.outDir => Magnitude(w.accum) >= ReverseThreshold
    BY <1>1 DEF MayEmit, Threshold
  <1>7. CASE w.accum > 0
    <2>1. Sign(w.accum) = 1 /\ Magnitude(w.accum) = w.accum
      BY <1>2, <1>7 DEF Sign, Magnitude
    <2> QED
      BY <1>1, <1>4, <1>5, <1>6, <1>7, <2>1
  <1>8. CASE w.accum < 0
    <2>1. Sign(w.accum) = -1 /\ Magnitude(w.accum) = -w.accum
      BY <1>2, <1>8 DEF Sign, Magnitude
    <2>2. w.accum - (-1) = w.accum + 1
      BY <1>2
    <2> QED
      BY <1>1, <1>4, <1>5, <1>6, <1>8, <2>1, <2>2
  <1> QED
    BY <1>2, <1>5, <1>7, <1>8

LEMMA NoStepFacts ==
  ASSUME NEW w \in WheelStates, NEW t \in Nat, StepOf(w, t) = 0
  PROVE  AfterTry(w, t).accum = w.accum /\ AfterTry(w, t).emitAt = w.emitAt
  <1>1. ~MayEmit(w, t)
    BY DEF StepOf, MayEmit, Sign, WheelStates
  <1> QED
    BY <1>1 DEF AfterTry, WheelStates

LEMMA EarnedInit == Init => StepsEarned
  BY DEF Init, StepsEarned, WheelReset, NoSteps, Forward, Backward

LEMMA EarnedStep ==
  ASSUME TypeOK, ReadyHasInput, StepsEarned, [Next]_vars
  PROVE  StepsEarned'
  <1> USE DEF local, session, At
  <1>0. /\ wheel \in WheelStates /\ wheel.accum \in Int /\ clock \in Nat
        /\ turned \in Steps /\ stepped \in Steps
        /\ turned.fwd \in Nat /\ turned.bwd \in Nat
        /\ stepped.fwd \in Nat /\ stepped.bwd \in Nat
    BY DEF TypeOK, WheelStates, Steps
  <1>1. ASSUME UNCHANGED <<wheel, turned, stepped>> PROVE StepsEarned'
    BY <1>1 DEF StepsEarned
  <1>2. ASSUME wheel' = WheelReset, UNCHANGED <<turned, stepped>> PROVE StepsEarned'
    <2>1. wheel'.accum = 0
      BY <1>2 DEF WheelReset
    <2>2. stepped.fwd <= turned.fwd /\ stepped.bwd <= turned.bwd
      BY <1>0 DEF StepsEarned, Forward, Backward
    <2> QED
      BY <1>0, <1>2, <2>1, <2>2 DEF StepsEarned, Forward, Backward
  <1>3. CASE EmitStep
    <2>1. StepOf(wheel, clock) # 0 /\ wheel' = AfterTry(wheel, clock) /\ turned' = turned
      BY <1>3 DEF EmitStep
    <2>2. CASE StepOf(wheel, clock) > 0
      <3>1. wheel.accum > 0 /\ wheel'.accum = wheel.accum - 1
        BY <1>0, <2>1, <2>2, StepFacts
      <3>2. stepped'.fwd = stepped.fwd + 1 /\ stepped'.bwd = stepped.bwd
        BY <1>0, <1>3, <2>2 DEF EmitStep, Steps
      <3> QED
        BY <1>0, <2>1, <3>1, <3>2 DEF StepsEarned, Forward, Backward
    <2>3. CASE ~(StepOf(wheel, clock) > 0)
      <3>0. StepOf(wheel, clock) <= 0
        BY <1>0, <2>3, AfterTryType
      <3>1. wheel.accum < 0 /\ wheel'.accum = wheel.accum + 1
        BY <1>0, <2>1, <3>0, StepFacts
      <3>2. stepped'.bwd = stepped.bwd + 1 /\ stepped'.fwd = stepped.fwd
        BY <1>0, <1>3, <2>3 DEF EmitStep, Steps
      <3> QED
        BY <1>0, <2>1, <3>1, <3>2 DEF StepsEarned, Forward, Backward
    <2> QED
      BY <2>2, <2>3
  <1>4. CASE EmitNothing
    <2>1. wheel'.accum = wheel.accum /\ UNCHANGED <<turned, stepped>>
      BY <1>0, <1>4, NoStepFacts DEF EmitNothing
    <2> QED
      BY <2>1 DEF StepsEarned
  <1>5. CASE HandleTurn
    <2> DEFINE delta == Head(input["knob"]).arg
    <2>1. stepped' = stepped /\ Reads("knob", {"turn"})
      BY <1>5 DEF HandleTurn
    <2>2. delta \in Int
      <3>1. Head(input["knob"]) \in InputEvents /\ Head(input["knob"]).kind = "turn"
        BY <2>1, ReadTypes DEF Devices
      <3> QED
        BY <3>1, EventFacts, ListenerAssumption
    <2>3. CASE active
      <3>1. /\ wheel' = OnDelta(wheel, delta, clock)
            /\ turned'.fwd = turned.fwd + Forward(delta)
            /\ turned'.bwd = turned.bwd + Backward(delta)
        BY <1>5, <2>3 DEF HandleTurn, Forward, Backward
      <3>2. wheel'.accum \in Int
        BY <1>0, <2>2, <3>1, OnDeltaType DEF WheelStates
      <3>3. /\ Forward(wheel'.accum) <= Forward(wheel.accum) + Forward(delta)
            /\ Backward(wheel'.accum) <= Backward(wheel.accum) + Backward(delta)
        BY <1>0, <2>2, <3>1, OnDeltaEarned
      <3>4. /\ Forward(wheel.accum) \in Int /\ Forward(delta) \in Int
            /\ Backward(wheel.accum) \in Int /\ Backward(delta) \in Int
            /\ Forward(wheel'.accum) \in Int /\ Backward(wheel'.accum) \in Int
        BY <1>0, <2>2, <3>2 DEF Forward, Backward
      <3> QED
        BY <1>0, <2>1, <3>1, <3>3, <3>4 DEF StepsEarned
    <2>4. CASE ~active
      BY <1>1, <1>5, <2>4 DEF HandleTurn
    <2> QED
      BY <2>3, <2>4
  <1>6. CASE Entered \/ Start
    <2>1. wheel' = WheelReset /\ turned' = NoSteps /\ stepped' = NoSteps
      BY <1>6 DEF Entered, Start
    <2> QED
      BY <2>1 DEF StepsEarned, WheelReset, NoSteps, Forward, Backward
  <1>7. CASE TimeoutExit \/ \E device \in Devices : HandleClickExit(device)
    BY <1>2, <1>7 DEF TimeoutExit, HandleClickExit
  <1>8. CASE \/ Send \/ Select \/ TimeoutPasses
             \/ HandleRoundButton \/ HandlePreset \/ HandleMute
    BY <1>1, <1>8
       DEF Send, Select, TimeoutPasses, HandleRoundButton, HandlePreset, HandleMute
  <1>9. ASSUME NEW device \in Devices,
               NotReadable(device) \/ HandleClickBounced(device) \/ HandleClickEnter(device)
        PROVE  StepsEarned'
    BY <1>1, <1>9 DEF NotReadable, HandleClickBounced, HandleClickEnter
  <1>10. CASE Tick \/ Stop \/ HidReceives \/ HidRestarts \/ UNCHANGED vars
    <2>1. UNCHANGED <<wheel, turned, stepped>>
      BY <1>10 DEF Tick, Stop, HidReceives, HidRestarts, vars
    <2> QED
      BY <1>1, <2>1
  <1>11. CASE User
    BY <1>1, <1>11
       DEF User, PressButton, ReleaseButton, ClickKnob, TurnKnob, PressMute, Queue
  <1> QED
    BY <1>3, <1>4, <1>5, <1>6, <1>7, <1>8, <1>9, <1>10, <1>11 DEF Next, Listener, Loop

----------------------------------------------------------------------------
(* Times.  Once a round has been made since the clock moved, the switcher is *)
(* open only when the last activity is less than the timeout ago.            *)

TimesInOrder ==
  /\ clock >= 1 /\ now <= clock /\ activeAt <= clock /\ clickAt <= clock
  /\ stepAt <= activeAt

SwitcherPhases ==
  /\ pc \in {"wheel", "timeout", "entered"} => active
  /\ pc = "stopped" => ~active

TimeoutKept ==
  /\ polled /\ pc \in {"wheel", "timeout"} => now = clock
  /\ polled /\ active /\ pc \in {"select", "buttons", "knob"}
       => clock - activeAt < AppSwitchTimeout

(* The filter forgets the last step when the switcher is left; by the time   *)
(* it is open again, the emit interval is over.                              *)
LastStepKept ==
  /\ wheel.emitAt # 0 => wheel.emitAt = stepAt
  /\ ~active /\ pc # "stopped" => wheel.emitAt = 0
  /\ pc = "entered" => wheel.emitAt = 0
  /\ stepAt # 0 /\ wheel.emitAt = 0 =>
       \/ clock - stepAt >= EmitInterval
       \/ ~active /\ clickAt # 0 /\ stepAt <= clickAt

TimeInv == TimesInOrder /\ SwitcherPhases /\ TimeoutKept /\ LastStepKept

LEMMA TimeInit == Init => TimeInv
  BY DEF Init, TimeInv, TimesInOrder, SwitcherPhases, TimeoutKept, LastStepKept, WheelReset

LEMMA TimeTypes ==
  ASSUME TypeOK
  PROVE  /\ clock \in Nat /\ now \in Nat /\ activeAt \in Nat /\ clickAt \in Nat
         /\ stepAt \in Nat /\ wheel.emitAt \in Nat
         /\ active \in BOOLEAN /\ polled \in BOOLEAN
         /\ AppSwitchTimeout \in Nat \ {0} /\ ClickDebounce \in Nat /\ EmitInterval \in Nat
         /\ ClickDebounce >= EmitInterval /\ AppSwitchTimeout >= EmitInterval
  BY ListenerAssumption, WheelAssumption DEF TypeOK, WheelStates

(* A step that leaves times, filter and switcher alone and moves the loop    *)
(* only past the buttons.                                                    *)
LEMMA TimeSilent ==
  ASSUME TimeInv,
         UNCHANGED <<now, active, activeAt, clickAt, wheel, clock, polled, stepAt>>,
         \/ pc' = pc
         \/ pc \in {"buttons", "knob"} /\ pc' \in {"select", "knob"}
  PROVE  TimeInv'
  BY DEF TimeInv, TimesInOrder, SwitcherPhases, TimeoutKept, LastStepKept

LEMMA TimeLoop ==
  ASSUME TypeOK, ReadyHasInput, TimeInv, Loop
  PROVE  TimeInv'
  <1> USE TimeTypes DEF local, session, time, At
  <1>1. CASE Send
    BY <1>1, TimeSilent DEF Send
  <1>2. CASE Select
    BY <1>2
       DEF Select, TimeInv, TimesInOrder, SwitcherPhases, TimeoutKept, LastStepKept
  <1>3. CASE EmitStep
    <2>1. wheel'.emitAt = clock
      BY <1>3, StepFacts DEF EmitStep, TypeOK
    <2>2. /\ pc = "wheel" /\ pc' = "timeout"
          /\ UNCHANGED <<active, clickAt, clock, polled>>
          /\ activeAt' = clock /\ now' = clock /\ stepAt' = clock
      BY <1>3 DEF EmitStep
    <2> QED
      BY <2>1, <2>2
         DEF TimeInv, TimesInOrder, SwitcherPhases, TimeoutKept, LastStepKept
  <1>4. CASE EmitNothing
    <2>1. wheel'.emitAt = wheel.emitAt
      BY <1>4, NoStepFacts DEF EmitNothing, TypeOK
    <2>2. /\ pc = "wheel" /\ pc' = "timeout"
          /\ UNCHANGED <<active, activeAt, now, clickAt, stepAt, clock, polled>>
      BY <1>4 DEF EmitNothing
    <2> QED
      BY <2>1, <2>2
         DEF TimeInv, TimesInOrder, SwitcherPhases, TimeoutKept, LastStepKept
  <1>5. CASE TimeoutExit
    <2>1. /\ pc = "timeout" /\ pc' \in {"select", "buttons"}
          /\ now - activeAt >= AppSwitchTimeout
          /\ UNCHANGED <<activeAt, now, clickAt, stepAt, clock, polled>>
          /\ active' = FALSE /\ wheel'.emitAt = 0
      BY <1>5 DEF TimeoutExit, AfterTimeout, WheelReset
    <2>2. clock - stepAt >= EmitInterval
      BY <2>1 DEF TimeInv, TimesInOrder
    <2> QED
      BY <2>1, <2>2
         DEF TimeInv, TimesInOrder, SwitcherPhases, TimeoutKept, LastStepKept
  <1>6. CASE TimeoutPasses
    <2>1. /\ pc = "timeout" /\ pc' \in {"select", "buttons"}
          /\ now - activeAt < AppSwitchTimeout
          /\ UNCHANGED <<active, activeAt, now, clickAt, wheel, stepAt, clock, polled>>
      BY <1>6 DEF TimeoutPasses, AfterTimeout
    <2> QED
      BY <2>1
         DEF TimeInv, TimesInOrder, SwitcherPhases, TimeoutKept, LastStepKept
  <1>7. CASE HandleRoundButton \/ HandlePreset \/ HandleMute
    <2>1. /\ UNCHANGED <<now, active, activeAt, clickAt, wheel, clock, polled, stepAt>>
          /\ pc = "buttons" /\ pc' = "knob"
      BY <1>7 DEF HandleRoundButton, HandlePreset, HandleMute, Reads, AfterEvent
    <2> QED
      BY <2>1, TimeSilent
  <1>8. CASE HandleTurn
    <2>1. /\ pc = "knob" /\ pc' = "select"
          /\ UNCHANGED <<now, active, clickAt, stepAt, clock, polled>>
      BY <1>8 DEF HandleTurn, Reads, AfterEvent
    <2>2. CASE active
      <3>1. Head(input["knob"]).arg \in Int
        <4>1. /\ Head(input["knob"]) \in InputEvents
              /\ Head(input["knob"]).kind = "turn"
          BY <1>8, ReadTypes DEF HandleTurn, Devices
        <4> QED
          BY <4>1, EventFacts, ListenerAssumption
      <3>2. wheel'.emitAt = wheel.emitAt /\ activeAt' = clock
        BY <1>8, <2>2, <3>1, OnDeltaEarned DEF HandleTurn, TypeOK
      <3> QED
        BY <2>1, <2>2, <3>2
           DEF TimeInv, TimesInOrder, SwitcherPhases, TimeoutKept, LastStepKept
    <2>3. CASE ~active
      <3>1. UNCHANGED <<wheel, activeAt>>
        BY <1>8, <2>3 DEF HandleTurn
      <3> QED
        BY <2>1, <3>1, TimeSilent
    <2> QED
      BY <2>2, <2>3
  <1>9. CASE Entered
    <2>1. /\ pc = "entered" /\ pc' = "knob" /\ activeAt' = clock /\ wheel'.emitAt = 0
          /\ UNCHANGED <<now, active, clickAt, stepAt, clock, polled>>
      BY <1>9 DEF Entered, WheelReset
    <2> QED
      BY <2>1
         DEF TimeInv, TimesInOrder, SwitcherPhases, TimeoutKept, LastStepKept
  <1>10. ASSUME NEW device \in Devices, NotReadable(device) \/ HandleClickBounced(device)
         PROVE  TimeInv'
    <2>1. /\ UNCHANGED <<now, active, activeAt, clickAt, wheel, clock, polled, stepAt>>
          /\ pc = device /\ pc' = AfterEvent(device)
      BY <1>10 DEF NotReadable, HandleClickBounced, Reads
    <2>2. pc \in {"buttons", "knob"} /\ pc' \in {"select", "knob"}
      BY <2>1 DEF Devices, AfterEvent
    <2> QED
      BY <2>1, <2>2, TimeSilent
  <1>11. ASSUME NEW device \in Devices, HandleClickEnter(device)
         PROVE  TimeInv'
    <2>1. /\ pc \in {"buttons", "knob"} /\ pc' = "entered"
          /\ ~active /\ active' = TRUE /\ clickAt' = clock
          /\ clickAt # 0 => clock - clickAt >= ClickDebounce
          /\ UNCHANGED <<now, activeAt, wheel, stepAt, clock, polled>>
      BY <1>11 DEF HandleClickEnter, Reads, Devices, Bounced
    <2>2. stepAt # 0 => clock - stepAt >= EmitInterval
      BY <2>1 DEF TimeInv, TimesInOrder, LastStepKept
    <2> QED
      BY <2>1, <2>2
         DEF TimeInv, TimesInOrder, SwitcherPhases, TimeoutKept, LastStepKept
  <1>12. ASSUME NEW device \in Devices, HandleClickExit(device)
         PROVE  TimeInv'
    <2>1. /\ pc' \in {"select", "knob"} /\ active' = FALSE /\ clickAt' = clock
          /\ wheel'.emitAt = 0
          /\ UNCHANGED <<now, activeAt, stepAt, clock, polled>>
      BY <1>12 DEF HandleClickExit, WheelReset, AfterEvent
    <2> QED
      BY <2>1
         DEF TimeInv, TimesInOrder, SwitcherPhases, TimeoutKept, LastStepKept
  <1> QED
    BY <1>1, <1>2, <1>3, <1>4, <1>5, <1>6, <1>7, <1>8, <1>9, <1>10, <1>11, <1>12 DEF Loop

LEMMA TimeStep ==
  ASSUME TypeOK, ReadyHasInput, TimeInv, [Next]_vars
  PROVE  TimeInv'
  <1> USE TimeTypes DEF local, session, time
  <1>1. CASE Loop
    BY <1>1, TimeLoop
  <1>2. CASE Tick
    <2>1. /\ clock' = clock + 1 /\ polled' = FALSE
          /\ UNCHANGED <<pc, now, active, activeAt, clickAt, wheel, stepAt>>
      BY <1>2 DEF Tick
    <2> QED
      BY <2>1
         DEF TimeInv, TimesInOrder, SwitcherPhases, TimeoutKept, LastStepKept
  <1>3. CASE Stop
    <2>1. /\ pc' = "stopped" /\ active' = FALSE
          /\ UNCHANGED <<now, activeAt, clickAt, wheel, stepAt, clock, polled>>
      BY <1>3 DEF Stop
    <2> QED
      BY <2>1
         DEF TimeInv, TimesInOrder, SwitcherPhases, TimeoutKept, LastStepKept
  <1>4. CASE Start
    <2>1. /\ pc = "stopped" /\ pc' = "select" /\ activeAt' = 0 /\ clickAt' = 0
          /\ wheel'.emitAt = 0 /\ stepAt' = 0
          /\ UNCHANGED <<now, active, clock, polled>>
      BY <1>4 DEF Start, At, WheelReset
    <2> QED
      BY <2>1
         DEF TimeInv, TimesInOrder, SwitcherPhases, TimeoutKept, LastStepKept
  <1>5. CASE User \/ HidReceives \/ HidRestarts \/ UNCHANGED vars
    <2>1. UNCHANGED <<pc, now, active, activeAt, clickAt, wheel, clock, polled, stepAt>>
      BY <1>5 DEF User, PressButton, ReleaseButton, ClickKnob, TurnKnob, PressMute,
                  Queue, HidReceives, HidRestarts, vars
    <2> QED
      BY <2>1, TimeSilent
  <1> QED
    BY <1>1, <1>2, <1>3, <1>4, <1>5 DEF Next, Listener

----------------------------------------------------------------------------
(* The invariant of the specification and what follows from it.              *)

Inv == TypeOK /\ ReadyHasInput /\ KeysInv /\ StepsEarned /\ TimeInv

LEMMA InvHolds == Spec => []Inv
  <1>1. Init => Inv
    BY TypesInit, KeysInit, EarnedInit, TimeInit DEF Inv
  <1>2. Inv /\ [Next]_vars => Inv'
    BY TypesStep, KeysStep, EarnedStep, TimeStep DEF Inv
  <1> QED
    BY <1>1, <1>2, PTL DEF Spec

(* Every variable keeps its type, whatever the user does and whenever the    *)
(* daemons come and go.                                                      *)
THEOREM TypeCorrect == Spec => []TypeOK
  BY InvHolds, PTL DEF Inv

(* With no send pending only the keys of buttons handled as pressed are      *)
(* down, Command exactly while the switcher is open, and none after SIGTERM. *)
THEOREM OnlyHeldKeysLeftDown == Spec => []KeysLeftDown
  <1>1. ASSUME Inv PROVE KeysLeftDown
    <2>1. SUFFICES ASSUME outbox = <<>>
                   PROVE  /\ down \ {Gui} \subseteq {key \in {Alt} \cup Presets : HandledDown(key)}
                          /\ Gui \in down <=> active
                          /\ pc = "stopped" => down = {}
      BY DEF KeysLeftDown
    <2>2. \A key : DownNext(key) <=> key \in down
      BY <1>1, <2>1, NonePending DEF Inv
    <2>3. down \subseteq KeyCodes
      BY <1>1 DEF Inv, TypeOK
    <2>4. \A key : Handled(key) => HandledDown(key)
      <3>1. \A key : Later(input["buttons"], key, 0) = Waiting(key)
        <4>1. input["buttons"] \in Seq(InputEvents)
          BY <1>1 DEF Inv, TypeOK, Devices
        <4> QED
          BY <4>1 DEF Later, Waiting
      <3> QED
        BY <3>1 DEF Handled, HandledFrom, HandledDown
    <2>5. down \ {Gui} \subseteq {key \in {Alt} \cup Presets : HandledDown(key)}
      BY <1>1, <2>2, <2>3, <2>4 DEF Inv, KeysInv, NoStrayKeys, ButtonKeys
    <2>6. Gui \in down <=> active
      BY <1>1, <2>2 DEF Inv, KeysInv, CommandWhileActive
    <2>7. pc = "stopped" => down = {}
      BY <1>1, <2>2, <2>3 DEF Inv, KeysInv, NothingLeftByStop
    <2> QED
      BY <2>5, <2>6, <2>7
  <1> QED
    BY <1>1, InvHolds, PTL

(* While the dictation key is left down, the microphone was last told to     *)
(* start, also across a listener that stops in the middle.                   *)
THEOREM DictationKeyHeard == Spec => []DictationHeard
  <1>1. ASSUME Inv PROVE DictationHeard
    BY <1>1, NonePending DEF Inv, KeysInv, DictationWillBeHeard, DictationHeard
  <1> QED
    BY <1>1, InvHolds, PTL

(* After a round in which no send had to wait, Command is held only if the   *)
(* last step, turn or click is less than the timeout ago.                    *)
THEOREM CommandReleasedInTime == Spec => []CommandHoldBounded
  <1>1. ASSUME Inv PROVE CommandHoldBounded
    <2>1. SUFFICES ASSUME At("select"), polled, Gui \in down
                   PROVE  clock - activeAt < AppSwitchTimeout
      BY DEF CommandHoldBounded
    <2>2. pc = "select" /\ outbox = <<>>
      BY <2>1 DEF At
    <2>3. active
      BY <1>1, <2>1, <2>2, NonePending DEF Inv, KeysInv, CommandWhileActive
    <2> QED
      BY <1>1, <2>1, <2>2, <2>3 DEF Inv, TimeInv, TimeoutKept
  <1> QED
    BY <1>1, InvHolds, PTL

(* No session of the switcher gets more steps one way than the wheel was     *)
(* turned that way, for any thresholds and intervals of the filter.          *)
THEOREM StepsNeverInvented == Spec => []NoExtraSteps
  <1>1. ASSUME Inv PROVE NoExtraSteps
    <2>1. /\ turned.fwd \in Nat /\ turned.bwd \in Nat /\ wheel.accum \in Int
          /\ stepped.fwd \in Nat /\ stepped.bwd \in Nat
      BY <1>1 DEF Inv, TypeOK, Steps, WheelStates
    <2> QED
      BY <1>1, <2>1 DEF Inv, StepsEarned, NoExtraSteps, Forward, Backward
  <1> QED
    BY <1>1, InvHolds, PTL

(* Steps are the emit interval apart, also when the switcher was left and    *)
(* entered again between them and the filter has forgotten the first.        *)
THEOREM StepsKeepInterval == Spec => StepsSpaced
  <1>1. ASSUME Inv, [Next]_vars
        PROVE  [stepAt' # stepAt /\ stepAt # 0 /\ stepAt' # 0
                  => stepAt' - stepAt >= EmitInterval]_vars
    <2>1. SUFFICES ASSUME stepAt' # stepAt, stepAt # 0, stepAt' # 0
                   PROVE  stepAt' - stepAt >= EmitInterval
      OBVIOUS
    <2>2. CASE EmitStep
      <3>1. /\ StepOf(wheel, clock) # 0 /\ stepAt' = clock /\ pc = "wheel"
            /\ wheel \in WheelStates /\ clock \in Nat
        BY <1>1, <2>2 DEF EmitStep, At, Inv, TypeOK
      <3>2. wheel.emitAt = 0 \/ clock - wheel.emitAt >= EmitInterval
        BY <3>1, StepFacts
      <3> QED
        BY <1>1, <2>1, <3>1, <3>2 DEF Inv, TimeInv, SwitcherPhases, LastStepKept
    <2>3. CASE ~EmitStep
      <3>1. stepAt' \in {stepAt, 0}
        BY <1>1, <2>3
           DEF Next, Listener, Loop, User, Send, Select, EmitNothing, TimeoutExit,
               TimeoutPasses, HandleRoundButton, HandlePreset, HandleMute,
               HandleTurn, Entered, NotReadable, HandleClickBounced,
               HandleClickEnter, HandleClickExit, Tick, Stop, Start, PressButton,
               ReleaseButton, ClickKnob, TurnKnob, PressMute, Queue, HidReceives,
               HidRestarts, session, vars
      <3> QED
        BY <2>1, <3>1
    <2> QED
      BY <2>2, <2>3
  <1> QED
    BY <1>1, InvHolds, PTL DEF Spec, StepsSpaced

(* A step against the direction of the last one needs the threshold's amount *)
(* of movement that way in the session, however the ticks mix.               *)
THEOREM ReversalsNeedThreshold == Spec => ReversalsSustained
  <1>1. ASSUME Inv, [Next]_vars
        PROVE  [/\ stepped'.bwd > stepped.bwd /\ wheel.outDir = 1
                     => turned.bwd >= ReverseThreshold
                /\ stepped'.fwd > stepped.fwd /\ wheel.outDir = -1
                     => turned.fwd >= ReverseThreshold]_vars
    <2>1. /\ turned.fwd \in Nat /\ turned.bwd \in Nat /\ wheel.accum \in Int
          /\ stepped.fwd \in Nat /\ stepped.bwd \in Nat /\ stepped \in Steps
          /\ wheel \in WheelStates /\ clock \in Nat /\ ReverseThreshold \in Nat
      BY <1>1, WheelAssumption DEF Inv, TypeOK, Steps, WheelStates
    <2>2. CASE EmitStep
      <3>1. StepOf(wheel, clock) # 0 /\ StepOf(wheel, clock) \in {-1, 0, 1}
        BY <2>1, <2>2, AfterTryType DEF EmitStep
      <3>2. CASE StepOf(wheel, clock) > 0
        <4>1. stepped'.bwd = stepped.bwd
          BY <2>1, <2>2, <3>2 DEF EmitStep, Steps
        <4>2. wheel.accum > 0 /\ (wheel.outDir = -1 => wheel.accum >= ReverseThreshold)
          BY <2>1, <3>1, <3>2, StepFacts
        <4>3. stepped.fwd + wheel.accum <= turned.fwd
          BY <1>1, <2>1, <4>2 DEF Inv, StepsEarned, Forward
        <4> QED
          BY <2>1, <4>1, <4>2, <4>3
      <3>3. CASE StepOf(wheel, clock) <= 0
        <4>1. stepped'.fwd = stepped.fwd
          BY <2>1, <2>2, <3>1, <3>3 DEF EmitStep, Steps
        <4>2. wheel.accum < 0 /\ (wheel.outDir = 1 => -wheel.accum >= ReverseThreshold)
          BY <2>1, <3>1, <3>3, StepFacts
        <4>3. stepped.bwd + (-wheel.accum) <= turned.bwd
          BY <1>1, <2>1, <4>2 DEF Inv, StepsEarned, Backward
        <4> QED
          BY <2>1, <4>1, <4>2, <4>3
      <3> QED
        BY <3>1, <3>2, <3>3
    <2>3. CASE ~EmitStep
      <3>1. stepped' \in {stepped, NoSteps}
        BY <1>1, <2>3
           DEF Next, Listener, Loop, User, Send, Select, EmitNothing, TimeoutExit,
               TimeoutPasses, HandleRoundButton, HandlePreset, HandleMute,
               HandleTurn, Entered, NotReadable, HandleClickBounced,
               HandleClickEnter, HandleClickExit, Tick, Stop, Start, PressButton,
               ReleaseButton, ClickKnob, TurnKnob, PressMute, Queue, HidReceives,
               HidRestarts, session, vars
      <3>2. /\ stepped'.fwd = stepped.fwd \/ stepped'.fwd = 0
            /\ stepped'.bwd = stepped.bwd \/ stepped'.bwd = 0
        BY <3>1 DEF NoSteps
      <3> QED
        BY <2>1, <3>2
    <2> QED
      BY <2>2, <2>3
  <1> QED
    BY <1>1, InvHolds, PTL DEF Spec, ReversalsSustained

=============================================================================
