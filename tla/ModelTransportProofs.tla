------------------------ MODULE ModelTransportProofs ------------------------
(***************************************************************************)
(* Proofs about ModelTransport, for any number of clients of any kind: the *)
(* types, that a score answers the call it is returned for, that every     *)
(* call is counted once, and what the end of start and stop tells about    *)
(* the process.                                                            *)
(***************************************************************************)
EXTENDS ModelTransport, SequenceTheorems, FiniteSetTheorems, TLAPS

HeadOf(n, ok) == [call |-> n, part |-> "head", ok |-> ok]
BodyOf(n, ok) == [call |-> n, part |-> "body", ok |-> ok]

\* What may be on the connection of a thread that is at a place of its n-th
\* call: nothing of an earlier call, and of this one the parts not yet read.
Fits(w, place, n) ==
    \E ok \in BOOLEAN :
        \/ w.owed = <<>> /\ w.parts = <<>>
        \/ /\ place = "head"
           /\ \/ w.owed = <<HeadOf(n, ok), BodyOf(n, ok)>> /\ w.parts = <<>>
              \/ w.owed = <<BodyOf(n, ok)>> /\ w.parts = <<HeadOf(n, ok)>>
              \/ w.owed = <<>> /\ w.parts = <<HeadOf(n, ok), BodyOf(n, ok)>>
              \/ w.owed = <<>> /\ w.parts = <<HeadOf(n, ok)>>
        \/ /\ place = "body"
           /\ \/ w.owed = <<BodyOf(n, ok)>> /\ w.parts = <<>>
              \/ w.owed = <<>> /\ w.parts = <<BodyOf(n, ok)>>

Busy == {"connect", "send", "head", "body"}

TransportInv ==
    /\ AnswerBelongs
    /\ \A c \in Caller :
          /\ Fits(wire[c], at[c], calls[c])
          /\ local[c] <= calls[c]
          /\ at[c] \in Busy => local[c] < calls[c]

-----------------------------------------------------------------------------
\* Sequences of at most two parts.
LEMMA AppendSecond ==
    ASSUME NEW x, NEW y
    PROVE  Append(<<x>>, y) = <<x, y>>
<1> DEFINE S == {x, y}  a == Append(<<x>>, y)  b == <<x, y>>
<1>1. <<x>> \in Seq(S) /\ y \in S /\ Len(<<x>>) = 1 /\ <<x>>[1] = x
  OBVIOUS
<1>2. a \in Seq(S) /\ Len(a) = 2 /\ a[1] = x /\ a[2] = y
  BY <1>1, AppendProperties
<1>3. b \in Seq(S) /\ Len(b) = 2 /\ b[1] = x /\ b[2] = y
  OBVIOUS
<1> HIDE DEF S, a, b
<1>4. \A i \in 1 .. Len(a) : a[i] = b[i]
  BY <1>2, <1>3
<1>5. a = b
  BY <1>2, <1>3, <1>4, SeqEqual
<1> QED  BY <1>5 DEF a, b

LEMMA ShortSequences ==
    ASSUME NEW x, NEW y
    PROVE  /\ Head(<<x, y>>) = x /\ Tail(<<x, y>>) = <<y>>
           /\ Head(<<x>>) = x /\ Tail(<<x>>) = <<>>
           /\ Append(<<>>, x) = <<x>> /\ Append(<<x>>, y) = <<x, y>>
           /\ <<>> \o <<x, y>> = <<x, y>>
           /\ <<x>> # <<>> /\ <<x, y>> # <<>>
<1>1. Head(<<x, y>>) = x /\ Head(<<x>>) = x  OBVIOUS
<1>2. Tail(<<x, y>>) = <<y>>  OBVIOUS
<1>3. Tail(<<x>>) = <<>>  OBVIOUS
<1>4. Append(<<>>, x) = <<x>>  OBVIOUS
<1>5. <<>> \o <<x, y>> = <<x, y>>  OBVIOUS
<1>6. <<x>> # <<>> /\ <<x, y>> # <<>>  OBVIOUS
<1> QED  BY <1>1, <1>2, <1>3, <1>4, <1>5, <1>6, AppendSecond, Zenon

\* Cutting a connection loses what the server still owed.
LEMMA CutFits ==
    ASSUME NEW w, NEW v, NEW place, NEW n, Fits(w, place, n),
           v.owed = <<>>, v.parts = w.parts
    PROVE  Fits(v, place, n)
BY DEF Fits

\* The next part moves from what is owed to what can be read.
LEMMA ServeFits ==
    ASSUME NEW w, NEW v, NEW place, NEW n, Fits(w, place, n), w.owed # <<>>,
           v.owed = Tail(w.owed), v.parts = Append(w.parts, Head(w.owed))
    PROVE  Fits(v, place, n)
<1>1. PICK ok \in BOOLEAN :
        \/ /\ place = "head"
           /\ \/ w.owed = <<HeadOf(n, ok), BodyOf(n, ok)>> /\ w.parts = <<>>
              \/ w.owed = <<BodyOf(n, ok)>> /\ w.parts = <<HeadOf(n, ok)>>
        \/ /\ place = "body"
           /\ w.owed = <<BodyOf(n, ok)>> /\ w.parts = <<>>
  BY DEF Fits
<1> DEFINE h == HeadOf(n, ok)  b == BodyOf(n, ok)
<1> HIDE DEF h, b
<1>2. /\ Head(<<h, b>>) = h /\ Tail(<<h, b>>) = <<b>>
      /\ Head(<<b>>) = b /\ Tail(<<b>>) = <<>>
      /\ Append(<<>>, h) = <<h>> /\ Append(<<h>>, b) = <<h, b>>
      /\ Append(<<>>, b) = <<b>>
  BY ShortSequences, Zenon
<1>3. CASE place = "head" /\ w.owed = <<h, b>> /\ w.parts = <<>>
  <2>1. v.owed = <<b>>
    <3>1. Tail(w.owed) = Tail(<<h, b>>)  BY <1>3, Zenon
    <3> QED  BY <1>2, <3>1, Zenon
  <2>2. v.parts = <<h>>
    <3>1. Head(w.owed) = Head(<<h, b>>)  BY <1>3, Zenon
    <3>2. v.parts = Append(<<>>, h)  BY <1>2, <1>3, <3>1, Zenon
    <3> QED  BY <1>2, <3>2, Zenon
  <2> QED  BY <1>3, <2>1, <2>2, Zenon DEF Fits, h, b
<1>4. CASE place = "head" /\ w.owed = <<b>> /\ w.parts = <<h>>
  <2>1. v.owed = <<>>
    <3>1. Tail(w.owed) = Tail(<<b>>)  BY <1>4, Zenon
    <3> QED  BY <1>2, <3>1, Zenon
  <2>2. v.parts = <<h, b>>
    <3>1. Head(w.owed) = Head(<<b>>)  BY <1>4, Zenon
    <3>2. v.parts = Append(<<h>>, b)  BY <1>2, <1>4, <3>1, Zenon
    <3> QED  BY <1>2, <3>2, Zenon
  <2> QED  BY <1>4, <2>1, <2>2, Zenon DEF Fits, h, b
<1>5. CASE place = "body" /\ w.owed = <<b>> /\ w.parts = <<>>
  <2>1. v.owed = <<>>
    <3>1. Tail(w.owed) = Tail(<<b>>)  BY <1>5, Zenon
    <3> QED  BY <1>2, <3>1, Zenon
  <2>2. v.parts = <<b>>
    <3>1. Head(w.owed) = Head(<<b>>)  BY <1>5, Zenon
    <3>2. v.parts = Append(<<>>, b)  BY <1>2, <1>5, <3>1, Zenon
    <3> QED  BY <1>2, <3>2, Zenon
  <2> QED  BY <1>5, <2>1, <2>2, Zenon DEF Fits, h, b
<1> QED  BY <1>1, <1>3, <1>4, <1>5, Zenon DEF h, b

\* An error takes the place of an answer of which nothing was sent.
LEMMA ErrorFits ==
    ASSUME NEW w, NEW v, NEW place, NEW n, Fits(w, place, n), w.owed # <<>>,
           Head(w.owed).part = "head",
           v.owed = Answer(Head(w.owed).call, FALSE), v.parts = w.parts
    PROVE  Fits(v, place, n)
<1>1. \A x, y : Head(<<x, y>>) = x /\ Head(<<x>>) = x
  BY ShortSequences
<1>2. \A m, k : HeadOf(m, k).call = m /\ BodyOf(m, k).part = "body"
  BY DEF HeadOf, BodyOf
<1>3. PICK ok \in BOOLEAN :
        \/ /\ place = "head"
           /\ \/ w.owed = <<HeadOf(n, ok), BodyOf(n, ok)>> /\ w.parts = <<>>
              \/ w.owed = <<BodyOf(n, ok)>>
        \/ place = "body" /\ w.owed = <<BodyOf(n, ok)>>
  BY DEF Fits
<1> HIDE DEF HeadOf, BodyOf
<1>4. w.owed # <<BodyOf(n, ok)>>
  <2> SUFFICES ASSUME w.owed = <<BodyOf(n, ok)>> PROVE FALSE
    OBVIOUS
  <2>1. Head(w.owed) = BodyOf(n, ok)  BY <1>1, Zenon
  <2>2. Head(w.owed).part = "body"  BY <2>1, <1>2, Zenon
  <2> QED  BY <2>2
<1>5. place = "head" /\ Head(w.owed).call = n /\ w.parts = <<>>
  <2>1. /\ place = "head" /\ w.parts = <<>>
        /\ w.owed = <<HeadOf(n, ok), BodyOf(n, ok)>>
    BY <1>3, <1>4, Zenon
  <2>2. Head(w.owed) = HeadOf(n, ok)  BY <1>1, <2>1, Zenon
  <2> QED  BY <1>2, <2>1, <2>2, Zenon
<1>6. v.owed = <<HeadOf(n, FALSE), BodyOf(n, FALSE)>> /\ v.parts = <<>>
  BY <1>5 DEF Answer, HeadOf, BodyOf
<1> QED  BY <1>5, <1>6, Zenon DEF Fits

\* What is read first is of this call: the head, and then the body.
LEMMA ReadFits ==
    ASSUME NEW w, NEW v, NEW n, w.parts # <<>>,
           v.owed = w.owed, v.parts = Tail(w.parts)
    PROVE  /\ Fits(w, "head", n) => Fits(v, "body", n)
           /\ Fits(w, "body", n) => Fits(v, "idle", n) /\ Head(w.parts).call = n
<1>1. \A x, y : /\ Tail(<<x, y>>) = <<y>> /\ Tail(<<x>>) = <<>>
                /\ Head(<<x>>) = x
  BY ShortSequences
<1>2. \A m, k : BodyOf(m, k).call = m
  BY DEF BodyOf
<1>3. ASSUME Fits(w, "head", n)  PROVE Fits(v, "body", n)
  <2>1. PICK ok \in BOOLEAN :
          \/ w.owed = <<BodyOf(n, ok)>> /\ w.parts = <<HeadOf(n, ok)>>
          \/ w.owed = <<>> /\ w.parts = <<HeadOf(n, ok), BodyOf(n, ok)>>
          \/ w.owed = <<>> /\ w.parts = <<HeadOf(n, ok)>>
    BY <1>3 DEF Fits
  <2> DEFINE b == BodyOf(n, ok)
  <2>2. \/ v.owed = <<b>> /\ v.parts = <<>>
        \/ v.owed = <<>> /\ v.parts = <<b>>
        \/ v.owed = <<>> /\ v.parts = <<>>
    BY <1>1, <2>1, Zenon
  <2> QED  BY <2>2, Zenon DEF Fits
<1>4. ASSUME Fits(w, "body", n)
      PROVE  Fits(v, "idle", n) /\ Head(w.parts).call = n
  <2>1. PICK ok \in BOOLEAN : w.owed = <<>> /\ w.parts = <<BodyOf(n, ok)>>
    BY <1>4 DEF Fits
  <2>2. Head(w.parts) = BodyOf(n, ok) /\ v.owed = <<>> /\ v.parts = <<>>
    BY <1>1, <2>1, Zenon
  <2> QED  BY <1>2, <2>2, Zenon DEF Fits
<1> QED  BY <1>3, <1>4

-----------------------------------------------------------------------------
\* The types of what an action does to a connection.
LEMMA WireTypes ==
    /\ NoWire \in Wires
    /\ \A w \in Wires : Cut(w) \in Wires /\ [NoWire EXCEPT !.state = w.state] \in Wires
    /\ \A n \in Nat, ok \in BOOLEAN, w \in Wires :
          /\ Answer(n, ok) \in Seq(Part)
          /\ [w EXCEPT !.owed = @ \o Answer(n, ok)] \in Wires
          /\ [w EXCEPT !.owed = Answer(n, ok)] \in Wires
    /\ \A w \in Wires : w.parts # <<>> =>
          [w EXCEPT !.parts = Tail(@)] \in Wires /\ Head(w.parts) \in Part
    /\ \A w \in Wires : w.owed # <<>> =>
          /\ Head(w.owed) \in Part
          /\ [state |-> "open", owed |-> Tail(w.owed),
              parts |-> Append(w.parts, Head(w.owed))] \in Wires
<1>1. NoWire \in Wires  BY DEF NoWire, Wires
<1>2. \A w \in Wires : Cut(w) \in Wires  BY DEF Cut, Wires
<1>3. \A w \in Wires : [NoWire EXCEPT !.state = w.state] \in Wires
  <2> TAKE w \in Wires
  <2>1. w.state \in {"none", "open", "cut"}  BY DEF Wires
  <2>2. [NoWire EXCEPT !.state = w.state]
          = [state |-> w.state, owed |-> <<>>, parts |-> <<>>]
    BY DEF NoWire
  <2>3. [state |-> w.state, owed |-> <<>>, parts |-> <<>>] \in Wires
    BY <2>1 DEF Wires
  <2> QED  BY <2>2, <2>3, Zenon
<1>4. \A n \in Nat, ok \in BOOLEAN : Answer(n, ok) \in Seq(Part)
  <2> TAKE n \in Nat, ok \in BOOLEAN
  <2>1. [call |-> n, part |-> "head", ok |-> ok] \in Part  BY DEF Part
  <2>2. [call |-> n, part |-> "body", ok |-> ok] \in Part  BY DEF Part
  <2> QED  BY <2>1, <2>2 DEF Answer
<1>5. ASSUME NEW w \in Wires
      PROVE  /\ w.owed \in Seq(Part) /\ w.parts \in Seq(Part)
             /\ \A p \in Seq(Part) : [w EXCEPT !.owed = p] \in Wires
             /\ \A p \in Seq(Part) : [w EXCEPT !.parts = p] \in Wires
  BY DEF Wires
<1>6. \A w \in Wires, n \in Nat, ok \in BOOLEAN :
         /\ [w EXCEPT !.owed = @ \o Answer(n, ok)] \in Wires
         /\ [w EXCEPT !.owed = Answer(n, ok)] \in Wires
  <2> TAKE w \in Wires, n \in Nat, ok \in BOOLEAN
  <2>1. w.owed \o Answer(n, ok) \in Seq(Part)
    BY <1>4, <1>5, ConcatProperties
  <2> QED  BY <1>4, <1>5, <2>1
<1>7. \A w \in Wires : w.parts # <<>> =>
         [w EXCEPT !.parts = Tail(@)] \in Wires /\ Head(w.parts) \in Part
  <2> SUFFICES ASSUME NEW w \in Wires, w.parts # <<>>
               PROVE  [w EXCEPT !.parts = Tail(@)] \in Wires /\ Head(w.parts) \in Part
    OBVIOUS
  <2>1. Tail(w.parts) \in Seq(Part) /\ Head(w.parts) \in Part
    BY <1>5, HeadTailProperties
  <2> QED  BY <1>5, <2>1
<1>8. \A w \in Wires : w.owed # <<>> =>
         /\ Head(w.owed) \in Part
         /\ [state |-> "open", owed |-> Tail(w.owed),
             parts |-> Append(w.parts, Head(w.owed))] \in Wires
  <2> SUFFICES ASSUME NEW w \in Wires, w.owed # <<>>
               PROVE  /\ Head(w.owed) \in Part
                      /\ [state |-> "open", owed |-> Tail(w.owed),
                          parts |-> Append(w.parts, Head(w.owed))] \in Wires
    OBVIOUS
  <2>1. Tail(w.owed) \in Seq(Part) /\ Head(w.owed) \in Part
    BY <1>5, HeadTailProperties
  <2>2. Append(w.parts, Head(w.owed)) \in Seq(Part)
    BY <1>5, <2>1, AppendProperties
  <2> QED  BY <2>1, <2>2 DEF Wires
<1> QED  BY <1>1, <1>2, <1>3, <1>4, <1>6, <1>7, <1>8, Zenon

-----------------------------------------------------------------------------
\* The types are kept: those of the scores rest on what a thread may read.
LEMMA TypeStep ==
    ASSUME TypeOK, TransportInv, [Next]_vars
    PROVE  TypeOK'
<1> USE TransportAssumption DEF processVars, resultVars, Kinds
<1>1. \A c \in Caller : wire[c] \in Wires  BY DEF TypeOK
<1>2. ASSUME Gone, child = "up" \/ starter = "waiting" \/ starter = "ready"
      PROVE  /\ child' \in {"none", "up", "dead"} /\ ports' \subseteq Kinds
             /\ wire' \in [Caller -> Wires]
             /\ \A c \in Caller : wire'[c].state = "none" => wire'[c] = NoWire
  <2>1. \A c \in Caller : wire'[c] = IF wire[c].state = "open" THEN Cut(wire[c])
                                     ELSE wire[c]
    BY <1>2 DEF Gone
  <2>2. \A c \in Caller : wire'[c] \in Wires  BY <2>1, <1>1, WireTypes
  <2>3. wire' \in [Caller -> Wires]  BY <2>2, <1>2 DEF Gone
  <2>4. \A c \in Caller : wire'[c].state = "none" => wire'[c] = NoWire
    <3> TAKE c \in Caller
    <3>1. Cut(wire[c]).state = "cut"  BY DEF Cut
    <3> QED  BY <2>1, <3>1 DEF TypeOK
  <2> QED  BY <1>2, <2>3, <2>4 DEF Gone
<1>3. CASE Process
  <2>1. CASE Spawn  BY <2>1 DEF Spawn, TypeOK
  <2>2. ASSUME NEW p \in Kinds, Listen(p)  PROVE TypeOK'
    BY <2>2 DEF Listen, TypeOK
  <2>3. CASE Ready  BY <2>3 DEF Ready, TypeOK
  <2>4. CASE GiveUp  BY <2>4, <1>2 DEF GiveUp, TypeOK
  <2>5. CASE Stop  BY <2>5, <1>2 DEF Stop, TypeOK
  <2>6. CASE Die  BY <2>6, <1>2 DEF Die, TypeOK
  <2> QED  BY <1>3, <2>1, <2>2, <2>3, <2>4, <2>5, <2>6 DEF Process
<1>5. ASSUME NEW c \in Caller, NEW w \in Wires, wire' = [wire EXCEPT ![c] = w],
             w.state = "none" => w = NoWire
      PROVE  /\ wire' \in [Caller -> Wires]
             /\ \A d \in Caller : wire'[d].state = "none" => wire'[d] = NoWire
  <2>1. \A d \in Caller : wire'[d] = IF d = c THEN w ELSE wire[d]
    BY <1>5 DEF TypeOK
  <2>2. \A d \in Caller : wire[d].state = "none" => wire[d] = NoWire
    BY DEF TypeOK
  <2> QED  BY <1>5, <2>1, <2>2 DEF TypeOK
<1>6. ASSUME NEW c \in Caller, Fail(c), UNCHANGED <<processVars, calls>>
      PROVE  TypeOK'
  <2> DEFINE w == IF Kind[c] = "grpc" THEN [NoWire EXCEPT !.state = wire[c].state]
                  ELSE NoWire
  <2>1. w \in Wires  BY <1>1, WireTypes
  <2>2. w.state = "none" => w = NoWire  BY DEF NoWire
  <2>3. /\ wire' \in [Caller -> Wires]
        /\ \A d \in Caller : wire'[d].state = "none" => wire'[d] = NoWire
    BY <1>5, <1>6, <2>1, <2>2 DEF Fail
  <2> QED  BY <1>6, <2>3 DEF Fail, TypeOK
<1>7. ASSUME NEW c \in Caller, Client(c)  PROVE TypeOK'
  <2>1. CASE Call(c)  BY <2>1 DEF Call, GoTo, TypeOK
  <2>2. CASE Connect(c)
    <3>1. CASE Held(c)  BY <2>2, <3>1 DEF Connect, GoTo, TypeOK
    <3>2. CASE ~ Held(c) /\ Kind[c] \in ports
      <4> DEFINE w == [NoWire EXCEPT !.state = "open"]
      <4>1. w = [state |-> "open", owed |-> <<>>, parts |-> <<>>]  BY DEF NoWire
      <4>2. [state |-> "open", owed |-> <<>>, parts |-> <<>>] \in Wires
        BY DEF Wires
      <4>3. w \in Wires /\ w.state # "none"  BY <4>1, <4>2
      <4>4. /\ wire' \in [Caller -> Wires]
            /\ \A d \in Caller : wire'[d].state = "none" => wire'[d] = NoWire
        BY <1>5, <2>2, <3>2, <4>3 DEF Connect
      <4> QED  BY <2>2, <3>2, <4>4 DEF Connect, GoTo, TypeOK
    <3>3. CASE ~ Held(c) /\ Kind[c] \notin ports
      BY <1>6, <2>2, <3>3 DEF Connect
    <3> QED  BY <3>1, <3>2, <3>3
  <2>3. CASE Send(c)
    <3>1. CASE wire[c].state = "open"
      <4> DEFINE w == [wire[c] EXCEPT !.owed = @ \o Answer(calls[c], TRUE)]
      <4>1. calls[c] \in Nat  BY DEF TypeOK
      <4>2. w \in Wires  BY <1>1, <4>1, WireTypes
      <4>3. w.state # "none"  BY <1>1, <3>1 DEF Wires
      <4>4. wire' = [wire EXCEPT ![c] = w]  BY <2>3, <3>1 DEF Send
      <4>5. /\ wire' \in [Caller -> Wires]
            /\ \A d \in Caller : wire'[d].state = "none" => wire'[d] = NoWire
        BY <1>5, <4>2, <4>3, <4>4
      <4> QED  BY <2>3, <4>5 DEF Send, GoTo, TypeOK
    <3>2. CASE wire[c].state # "open"  BY <2>3, <3>2 DEF Send, GoTo, TypeOK
    <3> QED  BY <3>1, <3>2
  <2>4. ASSUME wire[c].parts # <<>>, wire' = [wire EXCEPT ![c].parts = Tail(@)]
        PROVE  /\ wire' \in [Caller -> Wires]
               /\ \A d \in Caller : wire'[d].state = "none" => wire'[d] = NoWire
    <3> DEFINE w == [wire[c] EXCEPT !.parts = Tail(@)]
    <3>1. w \in Wires /\ w.state = wire[c].state
      <4>1. w \in Wires  BY <1>1, <2>4, WireTypes
      <4>2. w.state = wire[c].state  BY <1>1 DEF Wires
      <4> QED  BY <4>1, <4>2
    <3>2. wire[c].state # "none"  BY <2>4 DEF TypeOK, NoWire
    <3> QED  BY <1>5, <2>4, <3>1, <3>2
  <2>5. CASE ReadHead(c)  BY <2>4, <2>5 DEF ReadHead, GoTo, TypeOK
  <2>6. CASE ReadBody(c)
    <3>1. /\ wire' \in [Caller -> Wires]
          /\ \A d \in Caller : wire'[d].state = "none" => wire'[d] = NoWire
      BY <2>4, <2>6 DEF ReadBody
    <3>2. /\ Head(wire[c].parts).call = calls[c]
          /\ local[c] < calls[c] /\ at[c] = "body"
      <4> DEFINE v == [wire[c] EXCEPT !.parts = Tail(@)]
      <4>1. v.owed = wire[c].owed /\ v.parts = Tail(wire[c].parts)
        BY <1>1 DEF Wires
      <4>2. /\ Fits(wire[c], "body", calls[c]) /\ at[c] = "body"
            /\ local[c] < calls[c] /\ wire[c].parts # <<>>
        BY <2>6 DEF ReadBody, TransportInv, GoTo, Busy
      <4> HIDE DEF v
      <4> QED  BY <4>1, <4>2, ReadFits
    <3>3. local[c] + 1 \in 0 .. MaxCalls /\ calls[c] \in 0 .. MaxCalls
      BY <3>2 DEF TypeOK
    <3>4. /\ got' \in [Caller -> 0 .. MaxCalls] /\ errors' \in Nat
          /\ local' \in [Caller -> 0 .. MaxCalls]
      <4>1. /\ got \in [Caller -> 0 .. MaxCalls] /\ errors \in Nat
            /\ local \in [Caller -> 0 .. MaxCalls]
        BY DEF TypeOK
      <4>2. CASE Head(wire[c].parts).ok
        <5>1. /\ got' = [got EXCEPT ![c] = calls[c]]
              /\ local' = [local EXCEPT ![c] = local[c] + 1] /\ errors' = errors
          BY <2>6, <3>2, <4>2 DEF ReadBody
        <5> QED  BY <3>3, <4>1, <5>1
      <4>3. CASE ~ Head(wire[c].parts).ok
        BY <2>6, <4>1, <4>3 DEF ReadBody
      <4> QED  BY <4>2, <4>3
    <3> QED  BY <2>6, <3>1, <3>4 DEF ReadBody, GoTo, TypeOK
  <2>7. CASE TimeOut(c)  BY <1>6, <2>7 DEF TimeOut
  <2>8. CASE Leave(c)
    <3>1. NoWire \in Wires  BY WireTypes
    <3>2. /\ wire' \in [Caller -> Wires]
          /\ \A d \in Caller : wire'[d].state = "none" => wire'[d] = NoWire
      BY <1>5, <2>8, <3>1 DEF Leave
    <3> QED  BY <2>8, <3>2 DEF Leave, GoTo, TypeOK
  <2> QED  BY <1>7, <2>1, <2>2, <2>3, <2>5, <2>6, <2>7, <2>8 DEF Client
<1>8. ASSUME NEW c \in Caller, Server(c)  PROVE TypeOK'
  <2>1. PICK w \in Wires : wire' = [wire EXCEPT ![c] = w] /\ w.state # "none"
    <3>1. CASE Serve(c)
      BY <1>1, <3>1, WireTypes DEF Serve
    <3>2. CASE ServeError(c)
      <4>1. Head(wire[c].owed) \in Part /\ Cut(wire[c]) \in Wires
        BY <1>1, <3>2, WireTypes DEF ServeError
      <4>2. [wire[c] EXCEPT !.owed = Answer(Head(wire[c].owed).call, FALSE)] \in Wires
        BY <1>1, <4>1, WireTypes DEF Part
      <4> QED  BY <1>1, <3>2, <4>1, <4>2 DEF ServeError, Cut, Wires
    <3> QED  BY <1>8, <3>1, <3>2 DEF Server
  <2>2. /\ wire' \in [Caller -> Wires]
        /\ \A d \in Caller : wire'[d].state = "none" => wire'[d] = NoWire
    BY <1>5, <2>1
  <2> QED  BY <1>8, <2>2 DEF Server, Serve, ServeError, TypeOK
<1>9. CASE UNCHANGED vars  BY <1>9 DEF vars, TypeOK
<1> QED  BY <1>3, <1>7, <1>8, <1>9 DEF Next

-----------------------------------------------------------------------------
\* What a thread may read is of its own call after every step.
LEMMA InvStep ==
    ASSUME TypeOK, TransportInv, [Next]_vars
    PROVE  TransportInv'
<1> USE TransportAssumption DEF processVars, resultVars, Kinds
<1>1. \A c \in Caller :
         /\ wire[c] \in Wires /\ calls[c] \in Nat /\ local[c] \in Nat
         /\ Fits(wire[c], at[c], calls[c]) /\ got[c] \in {0, calls[c]}
         /\ local[c] <= calls[c] /\ (at[c] \in Busy => local[c] < calls[c])
  BY DEF TypeOK, TransportInv, AnswerBelongs
\* A step of one thread leaves the others alone.
<1>2. ASSUME NEW c \in Caller,
             \A d \in Caller \ {c} : /\ wire'[d] = wire[d] /\ at'[d] = at[d]
                                     /\ calls'[d] = calls[d] /\ got'[d] = got[d]
                                     /\ local'[d] = local[d],
             Fits(wire'[c], at'[c], calls'[c]), got'[c] \in {0, calls'[c]},
             local'[c] <= calls'[c], at'[c] \in Busy => local'[c] < calls'[c]
      PROVE  TransportInv'
  <2>1. \A d \in Caller :
           /\ Fits(wire'[d], at'[d], calls'[d]) /\ got'[d] \in {0, calls'[d]}
           /\ local'[d] <= calls'[d] /\ (at'[d] \in Busy => local'[d] < calls'[d])
    <3> TAKE d \in Caller
    <3>1. CASE d = c  BY <1>2, <3>1
    <3>2. CASE d # c  BY <1>1, <1>2, <3>2
    <3> QED  BY <3>1, <3>2
  <2>2. \A d \in Caller : Fits(wire[d], at[d], calls[d])' <=> Fits(wire'[d], at'[d], calls'[d])
    BY DEF Fits, HeadOf, BodyOf
  <2> QED  BY <2>1, <2>2 DEF TransportInv, AnswerBelongs, Busy
\* A step of the process may cut connections.
<1>3. ASSUME UNCHANGED <<at, calls, got, local>>, Gone \/ UNCHANGED wire
      PROVE  TransportInv'
  <2>1. \A c \in Caller : Fits(wire'[c], at[c], calls[c])
    <3> TAKE c \in Caller
    <3>1. CASE wire'[c] = wire[c]  BY <1>1, <3>1
    <3>2. CASE wire'[c] = Cut(wire[c])
      <4>1. wire'[c].owed = <<>> /\ wire'[c].parts = wire[c].parts
        BY <3>2 DEF Cut
      <4> QED  BY <1>1, <4>1, CutFits
    <3> QED  BY <1>3, <3>1, <3>2 DEF Gone
  <2>2. \A c \in Caller : Fits(wire[c], at[c], calls[c])' <=> Fits(wire'[c], at'[c], calls'[c])
    BY DEF Fits, HeadOf, BodyOf
  <2> QED  BY <1>1, <1>3, <2>1, <2>2 DEF TransportInv, AnswerBelongs, Busy
<1>4. \A w, place, n : w.owed = <<>> /\ w.parts = <<>> => Fits(w, place, n)
  BY DEF Fits
<1>5. \A c \in Caller : at[c] \notin {"head", "body"} =>
         wire[c].owed = <<>> /\ wire[c].parts = <<>>
  BY <1>1 DEF Fits
<1>6. NoWire.owed = <<>> /\ NoWire.parts = <<>>  BY DEF NoWire
<1>7. CASE Process \/ UNCHANGED vars
  BY <1>3, <1>7 DEF Process, Spawn, Listen, Ready, GiveUp, Stop, Die, vars
<1>8. ASSUME NEW c \in Caller, Fail(c), UNCHANGED calls  PROVE TransportInv'
  <2>1. wire'[c].owed = <<>> /\ wire'[c].parts = <<>>
    BY <1>6, <1>8 DEF Fail, TypeOK, NoWire
  <2>2. Fits(wire'[c], at'[c], calls'[c])  BY <1>4, <2>1
  <2>3. at'[c] = "idle"  BY <1>8 DEF Fail, TypeOK
  <2> QED  BY <1>1, <1>2, <1>8, <2>2, <2>3 DEF Fail, TypeOK, Busy
<1>9. ASSUME NEW c \in Caller, Client(c)  PROVE TransportInv'
  <2>1. CASE Call(c)
    <3>1. Fits(wire'[c], at'[c], calls'[c])
      BY <1>4, <1>5, <2>1 DEF Call, GoTo
    <3>2. /\ calls'[c] = calls[c] + 1 /\ got'[c] = 0 /\ local'[c] = local[c]
          /\ \A d \in Caller \ {c} : /\ calls'[d] = calls[d] /\ got'[d] = got[d]
                                     /\ at'[d] = at[d]
      BY <2>1 DEF Call, GoTo, TypeOK
    <3> QED  BY <1>1, <1>2, <2>1, <3>1, <3>2 DEF Call
  <2>2. CASE Connect(c)
    <3>1. CASE at'[c] = "send" /\ at[c] = "connect"
      <4>1. wire'[c].owed = <<>> /\ wire'[c].parts = <<>>
        <5>1. wire[c].owed = <<>> /\ wire[c].parts = <<>>  BY <1>5, <3>1
        <5>2. wire' = wire \/ wire' = [wire EXCEPT ![c] = [NoWire EXCEPT !.state = "open"]]
          BY <2>2, <3>1 DEF Connect, Fail, TypeOK
        <5> QED  BY <5>1, <5>2 DEF NoWire, TypeOK
      <4>2. Fits(wire'[c], at'[c], calls'[c])  BY <1>4, <4>1
      <4> QED  BY <1>1, <1>2, <2>2, <3>1, <4>2 DEF Connect, GoTo, TypeOK, Busy, Fail
    <3>2. CASE Fail(c)  BY <1>8, <2>2, <3>2 DEF Connect
    <3> QED  BY <2>2, <3>1, <3>2 DEF Connect, GoTo, TypeOK
  <2>3. CASE Send(c)
    <3>1. at[c] = "send" /\ at'[c] = "head" /\ calls' = calls
      BY <2>3 DEF Send, GoTo, TypeOK
    <3>2. Fits(wire'[c], "head", calls[c])
      <4>1. CASE wire[c].state = "open"
        <5>1. /\ wire'[c].owed = <<>> \o Answer(calls[c], TRUE)
              /\ wire'[c].parts = <<>>
          BY <1>1, <1>5, <2>3, <3>1, <4>1 DEF Send, TypeOK, Wires
        <5>2. <<>> \o Answer(calls[c], TRUE)
                = <<HeadOf(calls[c], TRUE), BodyOf(calls[c], TRUE)>>
          BY DEF Answer, HeadOf, BodyOf
        <5> QED  BY <5>1, <5>2, Zenon DEF Fits
      <4>2. CASE wire[c].state # "open"
        BY <1>4, <1>5, <2>3, <3>1, <4>2 DEF Send
      <4> QED  BY <4>1, <4>2
    <3> QED  BY <1>1, <1>2, <2>3, <3>1, <3>2 DEF Send, GoTo, TypeOK, Busy
  <2>4. ASSUME wire[c].parts # <<>>, wire' = [wire EXCEPT ![c].parts = Tail(@)]
        PROVE  wire'[c].owed = wire[c].owed /\ wire'[c].parts = Tail(wire[c].parts)
    BY <1>1, <2>4 DEF TypeOK, Wires
  <2>5. CASE ReadHead(c)
    <3>1. at[c] = "head" /\ at'[c] = "body" /\ calls' = calls
      BY <2>5 DEF ReadHead, GoTo, TypeOK
    <3>2. Fits(wire'[c], "body", calls[c])
      <4>1. /\ wire[c].parts # <<>> /\ wire'[c].owed = wire[c].owed
            /\ wire'[c].parts = Tail(wire[c].parts)
        BY <2>4, <2>5 DEF ReadHead
      <4>2. Fits(wire[c], "head", calls[c])  BY <1>1, <3>1
      <4> QED  BY <4>1, <4>2, ReadFits
    <3> QED  BY <1>1, <1>2, <2>5, <3>1, <3>2 DEF ReadHead, GoTo, TypeOK, Busy
  <2>6. CASE ReadBody(c)
    <3>1. at[c] = "body" /\ at'[c] = "idle" /\ calls' = calls /\ wire[c].parts # <<>>
      BY <2>6 DEF ReadBody, GoTo, TypeOK
    <3>2. Fits(wire'[c], "idle", calls[c]) /\ Head(wire[c].parts).call = calls[c]
      <4>1. /\ wire[c].parts # <<>> /\ wire'[c].owed = wire[c].owed
            /\ wire'[c].parts = Tail(wire[c].parts)
        BY <2>4, <2>6 DEF ReadBody
      <4>2. Fits(wire[c], "body", calls[c])  BY <1>1, <3>1
      <4> QED  BY <4>1, <4>2, ReadFits
    <3>3. \A d \in Caller \ {c} : /\ wire'[d] = wire[d] /\ at'[d] = at[d]
                                  /\ got'[d] = got[d] /\ local'[d] = local[d]
      BY <2>6 DEF ReadBody, GoTo, TypeOK
    <3>4. got'[c] \in {0, calls[c]} /\ local'[c] \in {local[c], local[c] + 1}
      <4>1. CASE Head(wire[c].parts).ok
        BY <2>6, <3>2, <4>1 DEF ReadBody, TypeOK
      <4>2. CASE ~ Head(wire[c].parts).ok
        BY <1>1, <2>6, <4>2 DEF ReadBody
      <4> QED  BY <4>1, <4>2
    <3>5. local[c] < calls[c]  BY <1>1, <3>1 DEF Busy
    <3> QED  BY <1>1, <1>2, <3>1, <3>2, <3>3, <3>4, <3>5 DEF Busy
  <2>7. CASE TimeOut(c)  BY <1>8, <2>7 DEF TimeOut
  <2>8. CASE Leave(c)
    <3>1. at'[c] = "left" /\ wire'[c] = NoWire  BY <2>8 DEF Leave, GoTo, TypeOK
    <3>2. Fits(wire'[c], at'[c], calls'[c])  BY <1>4, <1>6, <3>1
    <3> QED  BY <1>1, <1>2, <2>8, <3>1, <3>2 DEF Leave, GoTo, TypeOK, Busy
  <2> QED  BY <1>9, <2>1, <2>2, <2>3, <2>5, <2>6, <2>7, <2>8 DEF Client
<1>10. ASSUME NEW c \in Caller, Server(c)  PROVE TransportInv'
  <2>1. Fits(wire'[c], at[c], calls[c])
    <3>1. CASE Serve(c)
      <4>1. /\ wire[c].owed # <<>> /\ wire'[c].owed = Tail(wire[c].owed)
            /\ wire'[c].parts = Append(wire[c].parts, Head(wire[c].owed))
        BY <3>1 DEF Serve, TypeOK
      <4> QED  BY <1>1, <4>1, ServeFits
    <3>2. CASE ServeError(c) /\ Kind[c] = "binary"
      <4>1. wire'[c].owed = <<>> /\ wire'[c].parts = wire[c].parts
        BY <3>2 DEF ServeError, TypeOK, Cut
      <4> QED  BY <1>1, <4>1, CutFits
    <3>3. CASE ServeError(c) /\ Kind[c] # "binary"
      <4>1. /\ wire[c].owed # <<>> /\ Head(wire[c].owed).part = "head"
            /\ wire'[c].owed = Answer(Head(wire[c].owed).call, FALSE)
            /\ wire'[c].parts = wire[c].parts
        BY <1>1, <3>3 DEF ServeError, TypeOK, Wires
      <4> QED  BY <1>1, <4>1, ErrorFits
    <3> QED  BY <1>10, <3>1, <3>2, <3>3 DEF Server
  <2>2. /\ \A d \in Caller \ {c} : wire'[d] = wire[d]
        /\ UNCHANGED <<at, calls, got, local>>
    BY <1>10 DEF Server, Serve, ServeError, TypeOK
  <2> QED  BY <1>1, <1>2, <2>1, <2>2
<1> QED  BY <1>7, <1>9, <1>10 DEF Next

-----------------------------------------------------------------------------
\* The transports keep their types, and whatever is on a connection is of the
\* call its client is making.
THEOREM TransportIsSound == Spec => [](TypeOK /\ TransportInv)
<1>1. Init => TypeOK /\ TransportInv
  <2> SUFFICES ASSUME Init PROVE TypeOK /\ TransportInv
    OBVIOUS
  <2>1. TypeOK
    <3>1. NoWire \in Wires  BY WireTypes
    <3> QED  BY <3>1, TransportAssumption DEF Init, TypeOK
  <2>2. \A c \in Caller : Fits(wire[c], at[c], calls[c])
    BY DEF Init, NoWire, Fits
  <2> QED  BY <2>1, <2>2 DEF Init, TransportInv, AnswerBelongs, Busy
<1>2. TypeOK /\ TransportInv /\ [Next]_vars => (TypeOK /\ TransportInv)'
  BY TypeStep, InvStep
<1> QED  BY <1>1, <1>2, PTL DEF Spec

\* A score is the answer to the call it is returned for.
THEOREM AnswersBelong == Spec => []AnswerBelongs
<1>1. TransportInv => AnswerBelongs  BY DEF TransportInv
<1> QED  BY <1>1, TransportIsSound, PTL

-----------------------------------------------------------------------------
\* What is counted per thread, as pairs of a thread and a place.
Places(f) == {l \in Caller \X (1 .. MaxCalls) : l[2] <= f[l[1]]}

\* The threads in the middle of a call.
Calling(place) == {c \in Caller : place[c] \in Busy}

\* Every call begun has its latency, is an error or is under way, and a thread
\* leaves when it has made its calls.
CountingInv ==
    /\ Cardinality(Places(local)) + errors + Cardinality(Calling(at))
         = Cardinality(Places(calls))
    /\ \A c \in Caller : at[c] = "left" => calls[c] = MaxCalls

LEMMA PlacesFinite ==
    ASSUME NEW f
    PROVE  IsFiniteSet(Places(f)) /\ Cardinality(Places(f)) \in Nat
<1>1. IsFiniteSet(Caller \X (1 .. MaxCalls))
  <2>1. IsFiniteSet(1 .. MaxCalls)  BY TransportAssumption, FS_Interval
  <2> QED  BY <2>1, TransportAssumption, FS_Product, Zenon
<1>2. Places(f) \subseteq Caller \X (1 .. MaxCalls)  BY DEF Places
<1> QED  BY <1>1, <1>2, FS_Subset, FS_CardinalityType

LEMMA CallingFinite ==
    ASSUME NEW place
    PROVE  IsFiniteSet(Calling(place)) /\ Cardinality(Calling(place)) \in Nat
<1>1. Calling(place) \subseteq Caller  BY DEF Calling
<1> QED  BY <1>1, TransportAssumption, FS_Subset, FS_CardinalityType

\* One more at one thread is one more.
LEMMA OneMorePlace ==
    ASSUME NEW f \in [Caller -> 0 .. MaxCalls], NEW c \in Caller, f[c] < MaxCalls
    PROVE  Cardinality(Places([f EXCEPT ![c] = @ + 1])) = Cardinality(Places(f)) + 1
<1> DEFINE g == [f EXCEPT ![c] = @ + 1]  new == <<c, f[c] + 1>>
<1>1. f[c] \in Nat /\ MaxCalls \in Nat /\ f[c] + 1 \in 1 .. MaxCalls
  BY TransportAssumption
<1>2. g[c] = f[c] + 1 /\ \A d \in Caller \ {c} : g[d] = f[d]
  OBVIOUS
<1> HIDE DEF g
<1>3. new \in Caller \X (1 .. MaxCalls) /\ new[1] = c /\ new[2] = f[c] + 1
  BY <1>1
<1>4. new \notin Places(f)  BY <1>1, <1>3 DEF Places
<1>5. Places(g) = Places(f) \cup {new}
  <2>1. ASSUME NEW l \in Caller \X (1 .. MaxCalls)
        PROVE  l[2] <= g[l[1]] <=> l[2] <= f[l[1]] \/ l = new
    <3>1. l = <<l[1], l[2]>> /\ l[1] \in Caller /\ l[2] \in 1 .. MaxCalls  BY <2>1
    <3>2. CASE l[1] = c
      <4>1. l = new <=> l[2] = f[c] + 1  BY <3>1, <3>2
      <4> QED  BY <1>1, <1>2, <3>1, <3>2, <4>1
    <3>3. CASE l[1] # c  BY <1>2, <1>3, <3>1, <3>3
    <3> QED  BY <3>2, <3>3
  <2> QED  BY <1>3, <2>1 DEF Places
<1> QED  BY <1>4, <1>5, PlacesFinite, FS_AddElement DEF g

\* A thread that begins a call, and one that ends it.
LEMMA CallingMoves ==
    ASSUME NEW f, NEW g, NEW c \in Caller, \A d \in Caller \ {c} : g[d] = f[d]
    PROVE  /\ (g[c] \in Busy <=> f[c] \in Busy) =>
                 Cardinality(Calling(g)) = Cardinality(Calling(f))
           /\ f[c] \notin Busy /\ g[c] \in Busy =>
                 Cardinality(Calling(g)) = Cardinality(Calling(f)) + 1
           /\ f[c] \in Busy /\ g[c] \notin Busy =>
                 Cardinality(Calling(g)) + 1 = Cardinality(Calling(f))
<1>1. ASSUME g[c] \in Busy <=> f[c] \in Busy
      PROVE  Cardinality(Calling(g)) = Cardinality(Calling(f))
  <2>1. Calling(g) = Calling(f)  BY <1>1 DEF Calling
  <2> QED  BY <2>1
<1>2. ASSUME f[c] \notin Busy, g[c] \in Busy
      PROVE  Cardinality(Calling(g)) = Cardinality(Calling(f)) + 1
  <2>1. Calling(g) = Calling(f) \cup {c} /\ c \notin Calling(f)
    BY <1>2 DEF Calling
  <2> QED  BY <2>1, CallingFinite, FS_AddElement
<1>3. ASSUME f[c] \in Busy, g[c] \notin Busy
      PROVE  Cardinality(Calling(g)) + 1 = Cardinality(Calling(f))
  <2>1. Calling(f) = Calling(g) \cup {c} /\ c \notin Calling(g)
    BY <1>3 DEF Calling
  <2> QED  BY <2>1, CallingFinite, FS_AddElement
<1> QED  BY <1>1, <1>2, <1>3

\* The fates of a call: what a step does to the counts.
Untouched == UNCHANGED <<calls, local, errors>>
OneError == errors' = errors + 1 /\ local' = local

CallFate(c) ==
    /\ \A d \in Caller \ {c} : at'[d] = at[d]
    /\ \/ Untouched /\ (at'[c] \in Busy <=> at[c] \in Busy)
       \/ /\ at[c] = "idle" /\ calls[c] < MaxCalls
          /\ calls' = [calls EXCEPT ![c] = @ + 1]
          /\ at'[c] \in Busy /\ UNCHANGED <<local, errors>>
       \/ /\ at[c] \in Busy /\ at'[c] = "idle" /\ calls' = calls
          /\ \/ OneError
             \/ local' = [local EXCEPT ![c] = @ + 1] /\ errors' = errors
    /\ at'[c] = "left" => calls[c] = MaxCalls \/ at[c] = "left"

LEMMA EveryStepIsAFate ==
    ASSUME TypeOK, [Next]_vars
    PROVE  UNCHANGED <<at, calls, local, errors>> \/ \E c \in Caller : CallFate(c)
<1>1. CASE Process \/ UNCHANGED vars
  BY <1>1 DEF Process, Spawn, Listen, Ready, GiveUp, Stop, Die, vars, resultVars
<1>2. ASSUME NEW c \in Caller, Server(c)
      PROVE  UNCHANGED <<at, calls, local, errors>>
  BY <1>2 DEF Server, Serve, ServeError, resultVars
<1>3. ASSUME NEW c \in Caller, Client(c)  PROVE CallFate(c)
  <2> USE DEF TypeOK, GoTo, Busy, CallFate, Untouched, OneError, resultVars
  <2>1. CASE Call(c)  BY <2>1 DEF Call
  <2>2. CASE Connect(c)  BY <2>2 DEF Connect, Fail
  <2>3. CASE Send(c)  BY <2>3 DEF Send
  <2>4. CASE ReadHead(c)  BY <2>4 DEF ReadHead
  <2>5. CASE ReadBody(c)
    <3>1. CASE Head(wire[c].parts).ok  BY <2>5, <3>1 DEF ReadBody
    <3>2. CASE ~ Head(wire[c].parts).ok  BY <2>5, <3>2 DEF ReadBody
    <3> QED  BY <3>1, <3>2
  <2>6. CASE TimeOut(c)  BY <2>6 DEF TimeOut, Fail
  <2>7. CASE Leave(c)  BY <2>7 DEF Leave
  <2> QED  BY <1>3, <2>1, <2>2, <2>3, <2>4, <2>5, <2>6, <2>7 DEF Client
<1> QED  BY <1>1, <1>2, <1>3 DEF Next

LEMMA CountingStep ==
    ASSUME TypeOK, TransportInv, CountingInv, [Next]_vars
    PROVE  CountingInv'
<1> DEFINE L == Cardinality(Places(local))  C == Cardinality(Places(calls))
           B == Cardinality(Calling(at))
           K == Cardinality(Places(local'))  D == Cardinality(Places(calls'))
           A == Cardinality(Calling(at'))
<1>1. /\ L \in Nat /\ C \in Nat /\ B \in Nat /\ errors \in Nat
      /\ L + errors + B = C
      /\ \A c \in Caller : at[c] = "left" => calls[c] = MaxCalls
  BY PlacesFinite, CallingFinite DEF CountingInv, TypeOK
<1>2. /\ Places(local)' = Places(local') /\ Places(calls)' = Places(calls')
      /\ Calling(at)' = Calling(at')
  BY DEF Places, Calling, Busy
<1>3. CASE UNCHANGED <<at, calls, local, errors>>
  BY <1>1, <1>2, <1>3 DEF CountingInv
<1>4. ASSUME NEW c \in Caller, CallFate(c)  PROVE CountingInv'
  <2>1. /\ (at'[c] \in Busy <=> at[c] \in Busy) => A = B
        /\ at[c] \notin Busy /\ at'[c] \in Busy => A = B + 1
        /\ at[c] \in Busy /\ at'[c] \notin Busy => A + 1 = B
    BY <1>4, CallingMoves DEF CallFate
  <2>2. "idle" \notin Busy /\ "left" \notin Busy  BY DEF Busy
  <2>3. K + errors' + A = D
    <3>1. CASE Untouched /\ (at'[c] \in Busy <=> at[c] \in Busy)
      BY <1>1, <2>1, <3>1 DEF Untouched
    <3>2. CASE /\ at[c] = "idle" /\ calls[c] < MaxCalls
               /\ calls' = [calls EXCEPT ![c] = @ + 1]
               /\ at'[c] \in Busy /\ UNCHANGED <<local, errors>>
      <4>1. D = C + 1  BY <3>2, OneMorePlace DEF TypeOK
      <4>2. A = B + 1 /\ K = L  BY <2>1, <2>2, <3>2
      <4> QED  BY <1>1, <3>2, <4>1, <4>2
    <3>3. CASE at[c] \in Busy /\ at'[c] = "idle" /\ calls' = calls /\ OneError
      <4>1. A + 1 = B /\ K = L /\ errors' = errors + 1 /\ D = C
        BY <2>1, <2>2, <3>3 DEF OneError
      <4> QED  BY <1>1, <4>1, CallingFinite
    <3>4. CASE /\ at[c] \in Busy /\ at'[c] = "idle" /\ calls' = calls
               /\ local' = [local EXCEPT ![c] = @ + 1] /\ errors' = errors
      <4>1. local[c] < MaxCalls
        <5>1. local[c] < calls[c]  BY <3>4 DEF TransportInv
        <5>2. local[c] \in Nat /\ calls[c] \in 0 .. MaxCalls /\ MaxCalls \in Nat
          BY TransportAssumption DEF TypeOK
        <5> QED  BY <5>1, <5>2
      <4>2. K = L + 1  BY <3>4, <4>1, OneMorePlace DEF TypeOK
      <4>3. A + 1 = B /\ D = C  BY <2>1, <2>2, <3>4
      <4> QED  BY <1>1, <3>4, <4>2, <4>3, CallingFinite
    <3> QED  BY <1>4, <3>1, <3>2, <3>3, <3>4 DEF CallFate
  <2>4. ASSUME NEW d \in Caller, at'[d] = "left"  PROVE calls'[d] = MaxCalls
    <3>1. CASE d = c
      <4>1. calls[c] = MaxCalls  BY <1>1, <1>4, <2>4, <3>1 DEF CallFate
      <4>2. calls[c] < MaxCalls => at'[c] \in Busy \/ calls' = calls
        BY <1>4 DEF CallFate, Untouched
      <4>3. ~ (calls[c] < MaxCalls)  BY <4>1, TransportAssumption
      <4>4. calls' = calls  BY <1>4, <4>3 DEF CallFate, Untouched
      <4> QED  BY <3>1, <4>1, <4>4
    <3>2. CASE d # c
      <4>1. calls'[d] = calls[d] /\ at[d] = "left"
        BY <1>4, <2>4, <3>2 DEF CallFate, Untouched, TypeOK
      <4> QED  BY <1>1, <4>1
    <3> QED  BY <3>1, <3>2
  <2> QED  BY <1>2, <2>3, <2>4 DEF CountingInv
<1> QED  BY <1>3, <1>4, EveryStepIsAFate

\* Every call a bench makes is in its table, as a latency or as an error,
\* whatever the server and the process did meanwhile.
THEOREM CallsAreCounted == Spec => []EveryCallCounted
<1>1. Init => CountingInv
  <2> SUFFICES ASSUME Init PROVE CountingInv  OBVIOUS
  <2>1. Places(local) = {} /\ Places(calls) = {}
    <3>1. \A l \in Caller \X (1 .. MaxCalls) : l[1] \in Caller /\ l[2] \in Nat /\ l[2] > 0
      BY TransportAssumption
    <3> QED  BY <3>1 DEF Init, Places
  <2>2. Calling(at) = {}  BY DEF Init, Calling, Busy
  <2> QED  BY <2>1, <2>2, FS_EmptySet DEF Init, CountingInv
<1>2. TypeOK /\ TransportInv /\ CountingInv /\ [Next]_vars => CountingInv'
  BY CountingStep
<1>3. TypeOK /\ CountingInv => EveryCallCounted
  <2> SUFFICES ASSUME TypeOK, CountingInv, \A c \in Caller : at[c] = "left"
               PROVE  Cardinality(Latencies) + errors = Cardinality(Caller) * MaxCalls
    BY DEF EveryCallCounted
  <2>1. Latencies = Places(local)  BY DEF Latencies, Places
  <2>2. Calling(at) = {}  BY DEF Calling, Busy
  <2>3. Places(calls) = Caller \X (1 .. MaxCalls)
    <3>1. \A c \in Caller : calls[c] = MaxCalls  BY DEF CountingInv
    <3> QED  BY <3>1, TransportAssumption DEF Places
  <2>4. /\ IsFiniteSet(1 .. MaxCalls) /\ Cardinality(1 .. MaxCalls) = MaxCalls
        /\ MaxCalls \in Nat
    BY TransportAssumption, FS_Interval
  <2>5. Cardinality(Places(calls)) = Cardinality(Caller) * MaxCalls
    BY <2>3, <2>4, TransportAssumption, FS_Product
  <2>6. Cardinality(Calling(at)) = 0  BY <2>2, FS_EmptySet
  <2>7. Cardinality(Places(local)) \in Nat /\ errors \in Nat
    BY PlacesFinite DEF TypeOK
  <2> QED  BY <2>1, <2>5, <2>6, <2>7 DEF CountingInv
<1> QED  BY <1>1, <1>2, <1>3, TransportIsSound, PTL DEF Spec

\* What start and stop leave behind is what they tell.
THEOREM StartIsTrue == Spec => []StartTells
<1>1. Init => StartTells
  BY DEF Init, StartTells
<1>2. StartTells /\ [Next]_vars => StartTells'
  <2> SUFFICES ASSUME StartTells, [Next]_vars PROVE StartTells'
    OBVIOUS
  <2>1. CASE Process
    BY <2>1 DEF Process, Spawn, Listen, Ready, GiveUp, Stop, Die, Gone, StartTells
  <2>2. CASE UNCHANGED processVars
    BY <2>2 DEF processVars, StartTells
  <2> QED
    BY <2>1, <2>2 DEF Next, Client, Call, Connect, Send, ReadHead, ReadBody,
                      TimeOut, Leave, Server, Serve, ServeError, vars
<1> QED  BY <1>1, <1>2, PTL DEF Spec
=============================================================================
