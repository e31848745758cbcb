--------------------------- MODULE Settings_proofs ---------------------------
(***************************************************************************)
(* What the JSON parsers make of a document, for every document that has   *)
(* room in the array, and what follows for the settings in the backends.   *)
(* A parse is the run of a machine over the tokens of the document         *)
(* (InductionLemmas); the tokens of a document are joined of those of its  *)
(* parts, so that its run is made of theirs.                               *)
(***************************************************************************)
EXTENDS SettingsParser, SettingsReload, InductionLemmas, SequenceTheorems

-----------------------------------------------------------------------------
(* Runs over pieces *)

Concatenation(T) == [joined \in Seq(T) |-> [piece \in Seq(T) |-> joined \o piece]]

\* Concatenation makes sequences of sequences.
LEMMA ConcatenationCloses == ASSUME NEW T PROVE Closed(Concatenation(T), Seq(T), Seq(T))
<1>1. ASSUME NEW s \in Seq(T), NEW t \in Seq(T)
      PROVE  Concatenation(T)[s][t] = s \o t /\ s \o t \in Seq(T)
  <2>1. Concatenation(T)[s] = [piece \in Seq(T) |-> s \o piece]
    BY DEF Concatenation
  <2>. QED
    BY <2>1
<1>. QED
  BY <1>1 DEF Closed

\* Joined is a run too: what it has joined is the state.
LEMMA JoinedIsRun ==
  ASSUME NEW T, NEW pieces \in Seq(Seq(T))
  PROVE  Joined(pieces) = Run(Concatenation(T), <<>>, pieces)
<1> DEFINE n == Len(pieces)
    H == Concatenation(T)
    G == [i \in 1..n |-> [joined \in Seq(T) |-> joined \o pieces[i]]]
    iter == CHOOSE iter : iter = [s \in SUBSET DOMAIN pieces |->
              IF s = {} THEN <<>> ELSE LET x == Max(s) IN iter[s \ {x}] \o pieces[x]]
<1>1. n \in Nat /\ DOMAIN pieces = 1..n /\ <<>> \in Seq(T) /\ \A i \in 1..n : pieces[i] \in Seq(T)
  OBVIOUS
<1>2. G \in [1..n -> [Seq(T) -> Seq(T)]]
  BY <1>1
<1>3. PICK f \in [SUBSET (1..n) -> Seq(T)] : FoldsOver(f, n, <<>>, G)
  <2> HIDE DEF n, G
  <2>. QED
    BY <1>1, <1>2, FoldExists
<1>4. \A s \in SUBSET (1..n) : s # {} => Max(s) \in 1..n
  BY <1>1, MaxOfSome
<1>5. f = [s \in SUBSET DOMAIN pieces |->
             IF s = {} THEN <<>> ELSE LET x == Max(s) IN f[s \ {x}] \o pieces[x]]
  <2>1. ASSUME NEW s \in SUBSET (1..n), s # {}
        PROVE  f[s] = f[s \ {Max(s)}] \o pieces[Max(s)]
    <3>1. f[s] = G[Max(s)][f[s \ {Max(s)}]] /\ f[s \ {Max(s)}] \in Seq(T)
      BY <1>3, <2>1 DEF FoldsOver
    <3>2. Max(s) \in 1..n
      BY <1>4, <2>1
    <3>. QED
      BY <3>1, <3>2
  <2>2. f[{}] = <<>>
    BY <1>3 DEF FoldsOver
  <2>3. f = [s \in SUBSET (1..n) |-> f[s]]
    OBVIOUS
  <2> HIDE DEF G
  <2>. QED
    BY <1>1, <2>1, <2>2, <2>3
<1>6. iter = [s \in SUBSET DOMAIN pieces |->
             IF s = {} THEN <<>> ELSE LET x == Max(s) IN iter[s \ {x}] \o pieces[x]]
  BY <1>5
<1>7. Joined(pieces) = iter[DOMAIN pieces]
  BY DEF Joined, FoldLeft, MapThenFoldSet
<1> HIDE DEF iter, G
<1>8. Accumulates(iter, Seq(T), H, <<>>, pieces)
  <2>1. iter[{}] = <<>>
    BY <1>1, <1>6
  <2>2. ASSUME NEW s \in SUBSET (1..n), s # {}, iter[s \ {Max(s)}] \in Seq(T)
        PROVE  iter[s] = H[iter[s \ {Max(s)}]][pieces[Max(s)]]
    <3>1. iter[s] = iter[s \ {Max(s)}] \o pieces[Max(s)]
      BY <1>1, <1>6, <2>2
    <3>2. pieces[Max(s)] \in Seq(T)
      BY <1>1, <1>4, <2>2
    <3>3. H[iter[s \ {Max(s)}]] = [piece \in Seq(T) |-> iter[s \ {Max(s)}] \o piece]
      BY <2>2 DEF Concatenation
    <3>. QED
      BY <3>1, <3>2, <3>3
  <2> HIDE DEF H
  <2>. QED
    BY <2>1, <2>2 DEF Accumulates
<1> DEFINE base == <<>>
    C == Seq(T)
<1>9. Closed(H, C, C) /\ base \in C /\ pieces \in Seq(C) /\ Accumulates(iter, C, H, base, pieces)
  BY <1>8, ConcatenationCloses
<1> HIDE DEF H, base, C
<1>10. iter[DOMAIN pieces] = Run(H, base, pieces)
  BY <1>9, FoldIsRun
<1>. QED
  BY <1>7, <1>10 DEF H, base

\* What is joined of sequences of tokens is one.
LEMMA JoinedType ==
  ASSUME NEW T, NEW pieces \in Seq(Seq(T))
  PROVE  Joined(pieces) \in Seq(T)
<1> DEFINE H == Concatenation(T)
<1>1. Closed(H, Seq(T), Seq(T)) /\ <<>> \in Seq(T)
  BY ConcatenationCloses
<1>2. Joined(pieces) = Run(H, <<>>, pieces)
  BY JoinedIsRun
<1> HIDE DEF H
<1>3. Run(H, <<>>, pieces) \in Seq(T)
  BY <1>1, RunType
<1>. QED
  BY <1>2, <1>3

\* h[k] is the state after the first k pieces, q the one after all of them.
PathOfPieces(h, H, c, pieces, q) ==
  /\ h[0] = c
  /\ \A k \in 1..Len(pieces) : h[k] = Run(H, h[k - 1], pieces[k])
  /\ q = h[Len(pieces)]

\* A run over what has been joined goes through the pieces.
LEMMA RunJoined ==
  ASSUME NEW C, NEW T, NEW H, Closed(H, C, T), NEW c \in C, NEW pieces \in Seq(Seq(T))
  PROVE  \E h \in [0..Len(pieces) -> C] :
           PathOfPieces(h, H, c, pieces, Run(H, c, Joined(pieces)))
<1> DEFINE J == Concatenation(T)
    n == Len(pieces)
<1>1. Closed(J, Seq(T), Seq(T)) /\ <<>> \in Seq(T)
  BY ConcatenationCloses
<1>2. Joined(pieces) = Run(J, <<>>, pieces)
  BY JoinedIsRun
<1>3. n \in Nat /\ \A k \in 1..n : pieces[k] \in Seq(T) /\ k - 1 \in 0..n
  OBVIOUS
<1> HIDE DEF J
<1>4. PICK j \in [0..n -> Seq(T)] : PathOfRun(j, J, <<>>, pieces)
  BY <1>1, RunSteps
<1> DEFINE h == [k \in 0..n |-> Run(H, c, j[k])]
<1>5. h \in [0..n -> C]
  BY RunType
<1>6. h[0] = c
  <2>1. h[0] = Run(H, c, <<>>)
    BY <1>3, <1>4 DEF Path, PathOfRun
  <2>. QED
    BY <2>1, RunNone
<1>7. ASSUME NEW k \in 1..n
      PROVE  h[k] = Run(H, h[k - 1], pieces[k])
  <2>1. j[k] = j[k - 1] \o pieces[k]
    <3>1. j[k] = J[j[k - 1]][pieces[k]] /\ j[k - 1] \in Seq(T) /\ pieces[k] \in Seq(T)
      BY <1>3, <1>4 DEF Path, PathOfRun
    <3>2. J[j[k - 1]] = [piece \in Seq(T) |-> j[k - 1] \o piece]
      BY <3>1 DEF J, Concatenation
    <3>. QED
      BY <3>1, <3>2
  <2> DEFINE before == j[k - 1]
      piece == pieces[k]
  <2>2. before \in Seq(T) /\ piece \in Seq(T)
    BY <1>3
  <2>3. h[k] = Run(H, c, before \o piece) /\ h[k - 1] = Run(H, c, before)
    <3>1. h[k] = Run(H, c, j[k]) /\ h[k - 1] = Run(H, c, j[k - 1])
      BY <1>3
    <3>. QED
      BY <2>1, <3>1
  <2> HIDE DEF before, piece, h
  <2>4. Run(H, c, before \o piece) = Run(H, Run(H, c, before), piece)
    BY <2>2, RunBoth
  <2>. QED
    BY <2>3, <2>4 DEF piece
<1>8. h[n] = Run(H, c, Joined(pieces))
  BY <1>2, <1>3, <1>4 DEF PathOfRun
<1> HIDE DEF h
<1>. QED
  BY <1>5, <1>6, <1>7, <1>8 DEF PathOfPieces

\* A run over the pieces inside, with a token before and one after them.
LEMMA RunWrapped ==
  ASSUME NEW C, NEW T, NEW H, Closed(H, C, T), NEW c \in C,
         NEW first \in T, NEW s \in Seq(T), NEW last \in T
  PROVE  /\ H[c][first] \in C
         /\ Run(H, H[c][first], s) \in C
         /\ Run(H, c, <<first>> \o s) = Run(H, H[c][first], s)
         /\ Run(H, c, <<first>> \o s \o <<last>>) = H[Run(H, H[c][first], s)][last]
<1> DEFINE one == <<first>>
    end == <<last>>
    most == one \o s
<1>1. one \in Seq(T) /\ end \in Seq(T) /\ most \in Seq(T)
  OBVIOUS
<1>2. Run(H, c, one) = H[c][first] /\ H[c][first] \in C
  BY RunOne DEF Closed
<1>3. Run(H, H[c][first], s) \in C
  BY <1>2, RunType
<1>4. Run(H, Run(H, H[c][first], s), end) = H[Run(H, H[c][first], s)][last]
  BY <1>3, RunOne
<1> HIDE DEF one, end
<1>5. Run(H, c, one \o s) = Run(H, Run(H, c, one), s)
  BY <1>1, RunBoth
<1> HIDE DEF most
<1>6. Run(H, c, most \o end) = Run(H, Run(H, c, most), end)
  BY <1>1, RunBoth
<1>. QED
  BY <1>2, <1>3, <1>4, <1>5, <1>6 DEF one, end, most

\* A run that has reached q when all is as it should be, and is in S otherwise.
Outcome(p, ok, q, S) == IF ok THEN p = q ELSE p \in S

\* From g[k - 1] the piece k leads to g[k] when it is a good one, and to S when
\* it is not.
Expected(g, H, pieces, good, S) ==
  \A k \in 1..Len(pieces) :
    Outcome(Run(H, g[k - 1], pieces[k]), k \in good, g[k], S)

\* S is never left: one piece that is not good decides.
LEMMA RunOverPieces ==
  ASSUME NEW C, NEW T, NEW H, Closed(H, C, T), NEW S, S \subseteq C, Closed(H, S, T),
         NEW pieces \in Seq(Seq(T)), NEW g \in [0..Len(pieces) -> C],
         NEW good \in SUBSET (1..Len(pieces)), Expected(g, H, pieces, good, S)
  PROVE  Outcome(Run(H, g[0], Joined(pieces)), good = 1..Len(pieces), g[Len(pieces)], S)
<1> DEFINE n == Len(pieces)
    q == Run(H, g[0], Joined(pieces))
<1>1. n \in Nat /\ g[0] \in C /\ \A k \in 1..n : pieces[k] \in Seq(T) /\ k - 1 \in 0..n
  OBVIOUS
<1>2. PICK h \in [0..n -> C] : PathOfPieces(h, H, g[0], pieces, q)
  BY <1>1, RunJoined
<1> HIDE DEF n, q
<1> DEFINE reached == {k \in Nat : Outcome(h[k], 1..k \subseteq good, g[k], S)}
<1>3. 0 \in reached
  <2>1. 1..0 = {} /\ h[0] = g[0]
    BY <1>2 DEF PathOfPieces
  <2>. QED
    BY <2>1 DEF Outcome
<1>4. ASSUME NEW k \in 0..n - 1, Outcome(h[k], 1..k \subseteq good, g[k], S)
      PROVE  Outcome(h[k + 1], 1..k + 1 \subseteq good, g[k + 1], S)
  <2>1. k + 1 \in 1..n /\ (k + 1) - 1 = k /\ 1..k + 1 = (1..k) \cup {k + 1}
    BY <1>1
  <2>2. h[k + 1] = Run(H, h[k], pieces[k + 1])
    BY <1>2, <2>1 DEF PathOfPieces, n
  <2>3. CASE 1..k \subseteq good
    <3>1. h[k] = g[k]
      BY <1>4, <2>3 DEF Outcome
    <3>2. Outcome(Run(H, g[k], pieces[k + 1]), k + 1 \in good, g[k + 1], S)
      BY <2>1 DEF Expected, n
    <3>. QED
      BY <2>1, <2>2, <2>3, <3>1, <3>2 DEF Outcome
  <2>4. CASE ~(1..k \subseteq good)
    <3>1. h[k] \in S /\ pieces[k + 1] \in Seq(T)
      BY <1>1, <1>4, <2>1, <2>4 DEF Outcome
    <3>2. h[k + 1] \in S
      BY <2>2, <3>1, RunType
    <3>. QED
      BY <2>1, <2>4, <3>2 DEF Outcome
  <2>. QED
    BY <2>3, <2>4
<1>5. ASSUME NEW k \in 0..n - 1, k \in reached
      PROVE  k + 1 \in reached
  <2>1. k + 1 \in Nat /\ Outcome(h[k], 1..k \subseteq good, g[k], S)
    BY <1>1, <1>5
  <2>2. Outcome(h[k + 1], 1..k + 1 \subseteq good, g[k + 1], S)
    BY <1>4, <2>1
  <2>. QED
    BY <2>1, <2>2
<1> HIDE DEF reached
<1>6. \A k \in 0..n : k \in reached
  BY <1>1, <1>3, <1>5, InductionUpTo
<1>7. Outcome(h[n], 1..n \subseteq good, g[n], S)
  BY <1>1, <1>6 DEF reached
<1>8. h[n] = q /\ (1..n \subseteq good <=> good = 1..n)
  BY <1>2 DEF PathOfPieces, n
<1>. QED
  BY <1>7, <1>8 DEF Outcome, n, q

\* A run that is in S after the first token stays there.
LEMMA DecidedAtOnce ==
  ASSUME NEW C, NEW T, NEW H, Closed(H, C, T), NEW S, Closed(H, S, T), NEW c \in C,
         NEW t \in T, NEW s \in Seq(T), H[c][t] \in S
  PROVE  Run(H, c, <<t>> \o s) \in S
<1>1. Run(H, c, <<t>> \o s) = Run(H, H[c][t], s)
  BY RunWrapped
<1>2. Run(H, H[c][t], s) \in S
  BY RunType
<1>. QED
  BY <1>1, <1>2

-----------------------------------------------------------------------------
(* Documents *)

FirstToken(val) ==
  CASE val.kind = "array"  -> Token("array_start", Unset)
    [] val.kind = "object" -> Token("object_start", Unset)
    [] OTHER                 -> Token(val.kind, val.text)

\* s are tokens of which the first is t.
Starts(s, t) == \E others \in Seq(TokenSet) : s = <<t>> \o others

Fields(S) == [name : Texts, value : S]

\* What a value may look like.
LEMMA NestedKinds ==
  ASSUME NEW S, NEW val \in Nested(S)
  PROVE  /\ val.kind \in {"string", "number", "array", "object"}
         /\ val.text \in Strings
         /\ Len(val.parts) \in Nat
         /\ DOMAIN val.parts = 1..Len(val.parts)
         /\ val.kind = "array" => val.parts \in Seq(S)
         /\ val.kind = "object" => val.parts \in Seq(Fields(S))
         /\ \A i \in DOMAIN val.parts : Inner(val, i) \in S
<1>1. CASE val \in [kind : {"string"}, text : Texts \cup {Unset}, parts : {<<>>}]
  BY <1>1 DEF Strings
<1>2. CASE val \in [kind : {"number"}, text : Texts, parts : {<<>>}]
  BY <1>2 DEF Strings
<1>3. CASE val \in [kind : {"array"}, text : {Unset}, parts : Seq(S)]
  BY <1>3 DEF Strings, Inner
<1>4. CASE val \in [kind : {"object"}, text : {Unset}, parts : Seq(Fields(S))]
  <2>1. val.parts \in Seq(Fields(S)) /\ val.kind = "object" /\ val.text = Unset
    BY <1>4
  <2>2. DOMAIN val.parts = 1..Len(val.parts) /\ Len(val.parts) \in Nat
    BY <2>1
  <2>3. ASSUME NEW i \in DOMAIN val.parts PROVE Inner(val, i) \in S
    <3>1. val.parts[i] \in Fields(S)
      BY <2>1, <2>2
    <3>. QED
      BY <2>1, <3>1 DEF Inner, Fields
  <2>. QED
    BY <2>1, <2>2, <2>3 DEF Strings
<1>. QED
  BY <1>1, <1>2, <1>3, <1>4 DEF Nested, Fields

\* The tokens of a value begin with the token of its kind.
LEMMA TokensBegin ==
  ASSUME NEW S, NEW val \in Nested(S), NEW inside \in Seq(Seq(TokenSet)),
         Len(inside) = Len(val.parts)
  PROVE  /\ TokensWith(val, inside) \in Seq(TokenSet)
         /\ FirstToken(val) \in TokenSet
         /\ Starts(TokensWith(val, inside), FirstToken(val))
<1>1. /\ val.kind \in {"string", "number", "array", "object"} /\ val.text \in Strings
      /\ DOMAIN inside = DOMAIN val.parts
      /\ val.kind = "object" => val.parts \in Seq(Fields(S))
  BY NestedKinds
<1>2. FirstToken(val) \in TokenSet
  BY <1>1 DEF FirstToken, Token, TokenSet, TokenKinds, Strings
<1>3. ASSUME NEW t \in TokenSet, NEW u \in TokenSet, NEW s \in Seq(TokenSet)
      PROVE  <<t>> \o s \o <<u>> \in Seq(TokenSet) /\ Starts(<<t>> \o s \o <<u>>, t)
  <2> DEFINE first == <<t>>
      others == s \o <<u>>
  <2>1. others \in Seq(TokenSet) /\ first \in Seq(TokenSet) /\ first \o s \o <<u>> = first \o others
    OBVIOUS
  <2> HIDE DEF others, first
  <2>2. first \o others \in Seq(TokenSet)
    BY <2>1
  <2>. QED
    BY <2>1, <2>2 DEF Starts, first
<1>4. Token("array_end", Unset) \in TokenSet /\ Token("object_end", Unset) \in TokenSet
  BY DEF Token, TokenSet, TokenKinds, Strings
<1>5. CASE val.kind = "array"
  <2>1. Joined(inside) \in Seq(TokenSet)
    BY JoinedType
  <2>2. TokensWith(val, inside)
          = <<Token("array_start", Unset)>> \o Joined(inside) \o <<Token("array_end", Unset)>>
    BY <1>5 DEF TokensWith
  <2>3. FirstToken(val) = Token("array_start", Unset)
    BY <1>5 DEF FirstToken
  <2>. QED
    BY <1>2, <1>3, <1>4, <2>1, <2>2, <2>3
<1>6. CASE val.kind = "object"
  <2> DEFINE pieces == [i \in DOMAIN inside |-> <<Token("field", val.parts[i].name)>> \o inside[i]]
  <2>1. ASSUME NEW i \in DOMAIN inside
        PROVE  <<Token("field", val.parts[i].name)>> \o inside[i] \in Seq(TokenSet)
    <3>1. val.parts[i] \in Fields(S) /\ inside[i] \in Seq(TokenSet)
      BY <1>1, <1>6
    <3>2. Token("field", val.parts[i].name) \in TokenSet
      BY <3>1 DEF Fields, Token, TokenSet, TokenKinds, Strings
    <3> DEFINE t == Token("field", val.parts[i].name)
        s == inside[i]
    <3> HIDE DEF t, s
    <3>3. t \in TokenSet /\ s \in Seq(TokenSet)
      BY <3>1, <3>2 DEF t, s
    <3>4. <<t>> \o s \in Seq(TokenSet)
      BY <3>3
    <3>. QED
      BY <3>4 DEF t, s
  <2>2. DOMAIN inside = 1..Len(inside) /\ Len(inside) \in Nat
    OBVIOUS
  <2>3. pieces \in Seq(Seq(TokenSet))
    BY <2>1, <2>2
  <2>4. TokensWith(val, inside)
          = <<Token("object_start", Unset)>> \o Joined(pieces) \o <<Token("object_end", Unset)>>
    BY <1>6 DEF TokensWith
  <2> HIDE DEF pieces
  <2>5. Joined(pieces) \in Seq(TokenSet)
    BY <2>3, JoinedType
  <2>6. FirstToken(val) = Token("object_start", Unset)
    BY <1>6 DEF FirstToken
  <2>. QED
    BY <1>2, <1>3, <1>4, <2>4, <2>5, <2>6
<1>7. CASE val.kind \in {"string", "number"}
  <2> DEFINE t == Token(val.kind, val.text)
  <2>1. FirstToken(val) = t
    BY <1>7 DEF FirstToken
  <2>2. TokensWith(val, inside) = <<t>>
    BY <1>7 DEF TokensWith
  <2> HIDE DEF t
  <2>3. <<t>> \o <<>> = <<t>> /\ <<t>> \in Seq(TokenSet) /\ <<>> \in Seq(TokenSet)
    BY <1>2, <2>1
  <2>4. Starts(<<t>>, t)
    BY <2>3 DEF Starts
  <2>. QED
    BY <1>2, <2>1, <2>2, <2>3, <2>4
<1>. QED
  BY <1>1, <1>5, <1>6, <1>7

\* The values that are read to the end by Tokens0, Tokens1 and Tokens2.
Level0 == Nested({})
Level1 == Nested(Level0)
Level2 == Nested(Level1)

\* Values of every level are read as tokens, the first of which tells the kind.
LEMMA LevelTokens ==
  /\ \A val \in Level1 :
       Tokens1(val) \in Seq(TokenSet) /\ Starts(Tokens1(val), FirstToken(val))
  /\ \A val \in Level2 :
       /\ [i \in DOMAIN val.parts |-> Tokens1(Inner(val, i))] \in Seq(Seq(TokenSet))
       /\ Tokens2(val) \in Seq(TokenSet) /\ Starts(Tokens2(val), FirstToken(val))
  /\ \A doc \in Documents :
       /\ [i \in DOMAIN doc.parts |-> Tokens2(Inner(doc, i))] \in Seq(Seq(TokenSet))
       /\ Tokens(doc) \in Seq(TokenSet) /\ Starts(Tokens(doc), FirstToken(doc))
<1>1. ASSUME NEW val \in Level0
      PROVE  Tokens0(val) \in Seq(TokenSet)
  <2>1. val.parts = <<>> /\ Len(val.parts) = 0
    <3>1. val.kind \in {"array", "object"} => Len(val.parts) = 0
      BY NestedKinds DEF Level0, Nested
    <3>. QED
      BY <3>1 DEF Level0, Nested
  <2> DEFINE inside == <<>>
  <2>2. inside \in Seq(Seq(TokenSet)) /\ Len(inside) = Len(val.parts)
    BY <2>1
  <2> HIDE DEF inside
  <2>3. TokensWith(val, inside) \in Seq(TokenSet)
    BY <2>2, TokensBegin DEF Level0
  <2>. QED
    BY <2>3 DEF Tokens0, inside
<1>2. ASSUME NEW val \in Level1
      PROVE  Tokens1(val) \in Seq(TokenSet) /\ Starts(Tokens1(val), FirstToken(val))
  <2> DEFINE inside == [i \in DOMAIN val.parts |-> Tokens0(Inner(val, i))]
  <2>1. inside \in Seq(Seq(TokenSet)) /\ Len(inside) = Len(val.parts)
    BY <1>1, NestedKinds DEF Level1
  <2> HIDE DEF inside
  <2>2. TokensWith(val, inside) \in Seq(TokenSet) /\ Starts(TokensWith(val, inside), FirstToken(val))
    BY <2>1, TokensBegin DEF Level1
  <2>. QED
    BY <2>2 DEF Tokens1, inside
<1>3. ASSUME NEW val \in Level2
      PROVE  /\ [i \in DOMAIN val.parts |-> Tokens1(Inner(val, i))] \in Seq(Seq(TokenSet))
             /\ Tokens2(val) \in Seq(TokenSet) /\ Starts(Tokens2(val), FirstToken(val))
  <2> DEFINE inside == [i \in DOMAIN val.parts |-> Tokens1(Inner(val, i))]
  <2>1. inside \in Seq(Seq(TokenSet)) /\ Len(inside) = Len(val.parts)
    BY <1>2, NestedKinds DEF Level2
  <2> HIDE DEF inside
  <2>2. TokensWith(val, inside) \in Seq(TokenSet) /\ Starts(TokensWith(val, inside), FirstToken(val))
    BY <2>1, TokensBegin DEF Level2
  <2>. QED
    BY <2>1, <2>2 DEF Tokens2, inside
<1>4. ASSUME NEW doc \in Documents
      PROVE  /\ [i \in DOMAIN doc.parts |-> Tokens2(Inner(doc, i))] \in Seq(Seq(TokenSet))
             /\ Tokens(doc) \in Seq(TokenSet) /\ Starts(Tokens(doc), FirstToken(doc))
  <2> DEFINE inside == [i \in DOMAIN doc.parts |-> Tokens2(Inner(doc, i))]
  <2>0. doc \in Nested(Level2)
    BY DEF Documents, Level0, Level1, Level2
  <2>1. inside \in Seq(Seq(TokenSet)) /\ Len(inside) = Len(doc.parts)
    <3>1. /\ Len(doc.parts) \in Nat /\ DOMAIN doc.parts = 1..Len(doc.parts)
          /\ \A i \in DOMAIN doc.parts : Inner(doc, i) \in Level2
      BY <2>0, NestedKinds
    <3>2. ASSUME NEW i \in DOMAIN doc.parts
          PROVE  Tokens2(Inner(doc, i)) \in Seq(TokenSet)
      <4>1. Inner(doc, i) \in Level2
        BY <3>1
      <4>. QED
        BY <1>3, <4>1
    <3>. QED
      BY <3>1, <3>2
  <2> HIDE DEF inside
  <2>2. TokensWith(doc, inside) \in Seq(TokenSet) /\ Starts(TokensWith(doc, inside), FirstToken(doc))
    BY <2>0, <2>1, TokensBegin
  <2>. QED
    BY <2>1, <2>2 DEF Tokens, inside
<1>. QED
  BY <1>2, <1>3, <1>4

\* The field k of an object leads from g[k - 1] to g[k] when it is a good one,
\* and to S when it is not.
ExpectedFields(g, H, val, inside, good, S) ==
  \A k \in 1..Len(val.parts) :
    Outcome(Run(H, g[k - 1], <<Token("field", val.parts[k].name)>> \o inside[k]),
            k \in good, g[k], S)

\* What a run makes of an object follows from what it makes of its fields.
LEMMA RunOverObject ==
  ASSUME NEW C, NEW H, Closed(H, C, TokenSet), NEW S, S \subseteq C, Closed(H, S, TokenSet),
         NEW V, NEW val \in Nested(V), val.kind = "object",
         NEW inside \in Seq(Seq(TokenSet)), Len(inside) = Len(val.parts),
         NEW g \in [0..Len(val.parts) -> C], NEW c \in C,
         H[c][Token("object_start", Unset)] = g[0],
         NEW good \in SUBSET (1..Len(val.parts)), ExpectedFields(g, H, val, inside, good, S)
  PROVE  Outcome(Run(H, c, TokensWith(val, inside)), good = 1..Len(val.parts),
                 H[g[Len(val.parts)]][Token("object_end", Unset)], S)
<1> DEFINE n == Len(val.parts)
    start == Token("object_start", Unset)
    end == Token("object_end", Unset)
    pieces == [i \in DOMAIN inside |-> <<Token("field", val.parts[i].name)>> \o inside[i]]
    tokens == Joined(pieces)
    q == Run(H, g[0], tokens)
<1>1. n \in Nat /\ DOMAIN inside = 1..n /\ val.parts \in Seq(Fields(V)) /\ g[0] \in C
  BY NestedKinds
<1>2. ASSUME NEW i \in 1..n
      PROVE  /\ pieces[i] = <<Token("field", val.parts[i].name)>> \o inside[i]
             /\ pieces[i] \in Seq(TokenSet)
  <2> DEFINE f == Token("field", val.parts[i].name)
      s == inside[i]
  <2>1. pieces[i] = <<f>> \o s
    BY <1>1
  <2>2. val.parts[i] \in Fields(V)
    BY <1>1
  <2>3. f \in TokenSet /\ s \in Seq(TokenSet)
    BY <1>1, <2>2 DEF Fields, Token, TokenSet, TokenKinds, Strings
  <2> HIDE DEF f, s, pieces
  <2>4. <<f>> \o s \in Seq(TokenSet)
    BY <2>3
  <2>. QED
    BY <2>1, <2>4 DEF f, s
<1>3. pieces \in Seq(Seq(TokenSet)) /\ Len(pieces) = n
  <2> DEFINE T == Seq(TokenSet)
  <2>1. \A i \in 1..n : pieces[i] \in T
    BY <1>2
  <2>2. pieces = [i \in 1..n |-> <<Token("field", val.parts[i].name)>> \o inside[i]]
    BY <1>1
  <2> HIDE DEF pieces, T, n
  <2>3. pieces \in [1..n -> T]
    BY <2>1, <2>2
  <2>4. pieces \in Seq(T) /\ Len(pieces) = n
    BY <1>1, <2>3
  <2>. QED
    BY <2>4 DEF T
<1>4. TokensWith(val, inside) = <<start>> \o tokens \o <<end>>
  BY DEF TokensWith
<1> HIDE DEF pieces
<1>5. Outcome(q, good = 1..n, g[n], S)
  <2>1. Expected(g, H, pieces, good, S)
    BY <1>2, <1>3 DEF Expected, ExpectedFields
  <2>2. good \in SUBSET (1..Len(pieces)) /\ g \in [0..Len(pieces) -> C]
    BY <1>3
  <2>3. Outcome(Run(H, g[0], Joined(pieces)), good = 1..Len(pieces), g[Len(pieces)], S)
    BY <1>3, <2>1, <2>2, RunOverPieces
  <2>. QED
    BY <1>3, <2>3
<1>6. start \in TokenSet /\ end \in TokenSet /\ tokens \in Seq(TokenSet)
  BY <1>3, JoinedType DEF Token, TokenSet, TokenKinds, Strings
<1>7. Run(H, c, TokensWith(val, inside)) = H[q][end]
  <2> HIDE DEF start, end, tokens
  <2>1. Run(H, c, <<start>> \o tokens \o <<end>>) = H[Run(H, H[c][start], tokens)][end]
    BY <1>6, RunWrapped
  <2>. QED
    BY <1>4, <2>1 DEF start
<1>8. q \in S => H[q][end] \in S
  BY <1>6 DEF Closed
<1> HIDE DEF q
<1>. QED
  BY <1>5, <1>7, <1>8 DEF Outcome

-----------------------------------------------------------------------------
(* The handlers as machines *)

Parses(E) == [state : States, error : BOOLEAN, total : Nat, entries : [Slots -> E]]

\* A parse that has noticed a token out of place, with at most n entries.
Stuck(E, n) == {p \in Parses(E) : p.state = "unexpected" /\ p.error /\ p.total <= n}

AtLeast(E, n) == {p \in Parses(E) : p.total >= n}

\* A parse that has not noticed any.
Fine(state, total, entries) ==
  [state |-> state, error |-> FALSE, total |-> total, entries |-> entries]

\* What is true of the three machines, n being a number of entries.
Machine(H, E, n) ==
  /\ Closed(H, Parses(E), TokenSet)
  /\ Closed(H, Stuck(E, n), TokenSet)
  /\ Closed(H, AtLeast(E, n), TokenSet)

\* The entries of the three arrays.
G == GrantsEntries

O == OverridesEntries

L == ConstraintsEntries

GrantsMachine == [p \in Parses(G) |-> [t \in TokenSet |-> GrantsToken(p, t)]]

OverridesMachine == [p \in Parses(O) |-> [t \in TokenSet |-> OverridesToken(p, t)]]

ConstraintsMachine == [p \in Parses(L) |-> [t \in TokenSet |-> ConstrainedToken(p, t)]]

\* An error is noted and no entry is touched.
LEMMA RejectType ==
  ASSUME NEW E, NEW p \in Parses(E)
  PROVE  Reject(p) \in Parses(E) /\ Reject(p).total = p.total
         /\ Reject(p).error /\ Reject(p).state = "unexpected"
BY DEF Reject, Parses, States

\* A handler keeps the types, never lowers the total, and leads nowhere from an
\* error.
LEMMA GrantsType ==
  ASSUME NEW p \in Parses(G), NEW t \in TokenSet
  PROVE  /\ GrantsToken(p, t) \in Parses(G)
         /\ GrantsToken(p, t).total >= p.total
         /\ p.state = "unexpected" =>
              /\ GrantsToken(p, t).state = "unexpected" /\ GrantsToken(p, t).total = p.total
              /\ p.error => GrantsToken(p, t).error
<1> DEFINE r == GrantsToken(p, t)
<1>1. t.kind \in TokenKinds /\ t.text \in Strings
  BY DEF TokenSet
<1>2. /\ p.state \in States /\ p.error \in BOOLEAN /\ p.total \in Nat /\ p.entries \in [Slots -> G]
      /\ p = [state |-> p.state, error |-> p.error, total |-> p.total, entries |-> p.entries]
  BY DEF Parses
<1>3. Reject(p) \in Parses(G) /\ Reject(p).total = p.total
  BY RejectType
<1>4. CASE t.kind = "array_start"
  <2>1. r = GrantsArrayStart(p)
    BY <1>4 DEF GrantsToken
  <2>2. p.state = "unexpected" => r = p
    BY <2>1 DEF GrantsArrayStart
  <2>3. [p EXCEPT !.state = "table"] \in Parses(G) /\ [p EXCEPT !.state = "table"].total = p.total
    BY DEF Parses, States
  <2>. QED
    BY <1>2, <1>3, <1>4, <2>1, <2>2, <2>3 DEF GrantsArrayStart
<1>5. CASE t.kind = "array_end"
  <2>1. r = GrantsArrayEnd(p)
    BY <1>5 DEF GrantsToken
  <2>2. p.state = "unexpected" => r = p
    BY <2>1 DEF GrantsArrayEnd
  <2>3. p.state = "table" => r \in Parses(G) /\ r.total = p.total + 1
    <3>1. p.state = "table" =>
            r = [state |-> "toplevel_field", error |-> p.error, total |-> p.total + 1, entries |-> p.entries]
      BY <1>2, <2>1 DEF GrantsArrayEnd
    <3>. QED
      BY <1>2, <3>1 DEF Parses, States
  <2>. QED
    BY <1>2, <1>5, <2>1, <2>2, <2>3 DEF GrantsArrayEnd
<1>6. CASE t.kind = "object_start"
  <2>1. r = GrantsObjectStart(p)
    BY <1>6 DEF GrantsToken
  <2>2. p.state = "unexpected" => r = p
    BY <2>1 DEF GrantsObjectStart
  <2>3. p.state = "toplevel_start" => r \in Parses(G) /\ r.total = p.total
    BY <2>1 DEF Parses, States, GrantsObjectStart
  <2>. QED
    BY <1>2, <1>3, <1>6, <2>1, <2>2, <2>3 DEF GrantsObjectStart
<1>7. CASE t.kind = "field"
  <2>1. r = GrantsFieldStart(p, t.text)
    BY <1>7 DEF GrantsToken
  <2>2. p.state # "toplevel_field" => r = p
    BY <2>1 DEF GrantsFieldStart
  <2>3. p.state = "toplevel_field" => r \in Parses(G) /\ r.total = p.total
    <3> DEFINE entries == [p.entries EXCEPT ![p.total].role = t.text]
    <3>1. entries \in [Slots -> G]
      BY <1>1, <1>2 DEF G, GrantsEntries
    <3>2. p.state = "toplevel_field" =>
            r = [state |-> "tables_start", error |-> p.error, total |-> p.total, entries |-> entries]
      BY <1>2, <2>1 DEF GrantsFieldStart
    <3> HIDE DEF entries
    <3>. QED
      BY <1>2, <3>1, <3>2 DEF Parses, States
  <2>. QED
    BY <1>2, <1>7, <2>2, <2>3
<1>8. CASE t.kind \in {"string", "number"}
  <2>1. r = GrantsScalar(p, t.kind, t.text)
    BY <1>8 DEF GrantsToken
  <2>2. p.state = "unexpected" => r = p
    BY <2>1 DEF GrantsScalar
  <2>3. p.state = "table" /\ t.kind = "string" => r \in Parses(G) /\ r.total = p.total
    <3> DEFINE entries == [p.entries EXCEPT ![p.total].tables = Append(@, t.text)]
    <3>1. entries \in [Slots -> G]
      <4>1. ASSUME p.total \in Slots PROVE [p.entries[p.total] EXCEPT !.tables = Append(@, t.text)] \in G
        <5>1. p.entries[p.total] \in G
          BY <1>2, <4>1
        <5>2. Append(p.entries[p.total].tables, t.text) \in Seq(Strings)
          BY <1>1, <5>1 DEF G, GrantsEntries
        <5>. QED
          BY <5>1, <5>2 DEF G, GrantsEntries
      <4>. QED
        BY <1>2, <4>1
    <3>2. p.state = "table" /\ t.kind = "string" =>
            r = [state |-> p.state, error |-> p.error, total |-> p.total, entries |-> entries]
      BY <1>2, <2>1 DEF GrantsScalar
    <3> HIDE DEF entries
    <3>. QED
      BY <1>2, <3>1, <3>2 DEF Parses, States
  <2>. QED
    BY <1>2, <1>3, <1>8, <2>1, <2>2, <2>3 DEF GrantsScalar
<1>9. CASE t.kind = "syntax_error"
  <2>1. r = [p EXCEPT !.error = TRUE]
    BY <1>9 DEF GrantsToken
  <2>2. r = [state |-> p.state, error |-> TRUE, total |-> p.total, entries |-> p.entries]
    BY <1>2, <2>1
  <2> HIDE DEF r
  <2>3. r \in Parses(G) /\ r.state = p.state /\ r.total = p.total /\ r.error = TRUE
    BY <1>2, <2>2 DEF Parses
  <2>. QED
    BY <1>2, <1>9, <2>3 DEF r
<1>10. CASE t.kind = "object_end"
  <2>1. r = p
    BY <1>10 DEF GrantsToken
  <2>. QED
    BY <1>2, <1>10, <2>1
<1>. QED
  BY <1>1, <1>4, <1>5, <1>6, <1>7, <1>8, <1>9, <1>10 DEF TokenKinds

\* So the handlers make a machine.
LEMMA GrantsClose ==
  /\ \A p \in Parses(G), t \in TokenSet : GrantsMachine[p][t] = GrantsToken(p, t)
  /\ \A n \in Nat : Machine(GrantsMachine, G, n)
<1>1. ASSUME NEW p \in Parses(G), NEW t \in TokenSet PROVE GrantsMachine[p][t] = GrantsToken(p, t)
  <2>1. GrantsMachine[p] = [u \in TokenSet |-> GrantsToken(p, u)]
    BY DEF GrantsMachine
  <2>. QED
    BY <2>1
<1>2. ASSUME NEW n \in Nat, NEW p \in Parses(G), NEW t \in TokenSet
      PROVE  /\ GrantsMachine[p][t] \in Parses(G)
             /\ p \in Stuck(G, n) => GrantsMachine[p][t] \in Stuck(G, n)
             /\ p \in AtLeast(G, n) => GrantsMachine[p][t] \in AtLeast(G, n)
  <2>1. p.total \in Nat /\ GrantsMachine[p][t] \in Parses(G) /\ GrantsMachine[p][t].total \in Nat
    BY <1>1, GrantsType DEF Parses
  <2>. QED
    BY <1>1, <2>1, GrantsType DEF Stuck, AtLeast
<1>. QED
  BY <1>1, <1>2 DEF Machine, Closed, Stuck, AtLeast

\* The same of the handlers of extensions_parameter_overrides.
LEMMA OverridesType ==
  ASSUME NEW p \in Parses(O), NEW t \in TokenSet
  PROVE  /\ OverridesToken(p, t) \in Parses(O)
         /\ OverridesToken(p, t).total >= p.total
         /\ p.state = "unexpected" =>
              /\ OverridesToken(p, t).state = "unexpected" /\ OverridesToken(p, t).total = p.total
              /\ p.error => OverridesToken(p, t).error
<1> DEFINE r == OverridesToken(p, t)
<1>1. t.kind \in TokenKinds /\ t.text \in Strings
  BY DEF TokenSet
<1>2. /\ p.state \in States /\ p.error \in BOOLEAN /\ p.total \in Nat /\ p.entries \in [Slots -> O]
      /\ p = [state |-> p.state, error |-> p.error, total |-> p.total, entries |-> p.entries]
  BY DEF Parses
<1>3. /\ Reject(p) \in Parses(O) /\ Reject(p).total = p.total
      /\ Reject(p).state = "unexpected" /\ Reject(p).error
  BY RejectType
<1>4. CASE t.kind = "array_start"
  <2>1. r = Reject(p)
    BY <1>4 DEF OverridesToken
  <2>. QED
    BY <1>2, <1>3, <2>1
<1>5. CASE t.kind = "object_end"
  <2>1. r = OverridesObjectEnd(p)
    BY <1>5 DEF OverridesToken
  <2>2. p.state # "overrides_start" => r = p
    BY <2>1 DEF OverridesObjectEnd
  <2>3. p.state = "overrides_start" => r \in Parses(O) /\ r.total = p.total + 1
    <3>1. p.state = "overrides_start" =>
            r = [state |-> "toplevel_field", error |-> p.error, total |-> p.total + 1, entries |-> p.entries]
      BY <1>2, <2>1 DEF OverridesObjectEnd
    <3>. QED
      BY <1>2, <3>1 DEF Parses, States
  <2>. QED
    BY <1>2, <2>2, <2>3
<1>6. CASE t.kind = "object_start"
  <2>1. r = OverridesObjectStart(p)
    BY <1>6 DEF OverridesToken
  <2>2. p.state \notin {"toplevel_start", "schema"} => r = p
    BY <2>1 DEF OverridesObjectStart
  <2>3. p.state = "toplevel_start" => r \in Parses(O) /\ r.total = p.total
    BY <2>1 DEF Parses, States, OverridesObjectStart
  <2>4. p.state = "schema" => r = Reject(p)
    BY <2>1 DEF OverridesObjectStart
  <2>. QED
    BY <1>2, <1>3, <2>2, <2>3, <2>4
<1>7. CASE t.kind = "field"
  <2>1. r = OverridesFieldStart(p, t.text)
    BY <1>7 DEF OverridesToken
  <2>2. p.state \notin {"toplevel_field", "overrides_start"} => r = p
    BY <2>1 DEF OverridesFieldStart
  <2>3. p.state = "toplevel_field" => r \in Parses(O) /\ r.total = p.total
    <3> DEFINE entries == [p.entries EXCEPT ![p.total].name = t.text]
    <3>1. entries \in [Slots -> O]
      BY <1>1, <1>2 DEF O, OverridesEntries
    <3>2. p.state = "toplevel_field" =>
            r = [state |-> "overrides_start", error |-> p.error, total |-> p.total, entries |-> entries]
      BY <1>2, <2>1 DEF OverridesFieldStart
    <3> HIDE DEF entries
    <3>. QED
      BY <1>2, <3>1, <3>2 DEF Parses, States
  <2>4. p.state = "overrides_start" /\ t.text = "schema" => r \in Parses(O) /\ r.total = p.total
    <3>1. p.state = "overrides_start" /\ t.text = "schema" =>
            r = [state |-> "schema", error |-> p.error, total |-> p.total, entries |-> p.entries]
      BY <1>2, <2>1 DEF OverridesFieldStart
    <3>. QED
      BY <1>2, <3>1 DEF Parses, States
  <2>5. p.state = "overrides_start" /\ t.text # "schema" => r = Reject(p)
    BY <2>1 DEF OverridesFieldStart
  <2>. QED
    BY <1>2, <1>3, <2>2, <2>3, <2>4, <2>5
<1>8. CASE t.kind \in {"string", "number"}
  <2>1. r = OverridesScalar(p, t.kind, t.text)
    BY <1>8 DEF OverridesToken
  <2>2. p.state \notin {"schema", "toplevel_start", "overrides_start"} => r = p
    BY <2>1 DEF OverridesScalar
  <2>3. p.state = "schema" /\ t.kind = "string" => r \in Parses(O) /\ r.total = p.total
    <3> DEFINE entries == [p.entries EXCEPT ![p.total].schema = t.text]
    <3>1. entries \in [Slots -> O]
      BY <1>1, <1>2 DEF O, OverridesEntries
    <3>2. p.state = "schema" /\ t.kind = "string" =>
            r = [state |-> "overrides_start", error |-> p.error, total |-> p.total, entries |-> entries]
      BY <1>2, <2>1 DEF OverridesScalar
    <3> HIDE DEF entries
    <3>. QED
      BY <1>2, <3>1, <3>2 DEF Parses, States
  <2>4. p.state \in {"toplevel_start", "overrides_start"} \/ (p.state = "schema" /\ t.kind # "string")
          => r = Reject(p)
    BY <2>1 DEF OverridesScalar
  <2>. QED
    BY <1>2, <1>3, <2>2, <2>3, <2>4
<1>9. CASE t.kind = "syntax_error"
  <2>1. r = [p EXCEPT !.error = TRUE]
    BY <1>9 DEF OverridesToken
  <2>2. r = [state |-> p.state, error |-> TRUE, total |-> p.total, entries |-> p.entries]
    BY <1>2, <2>1
  <2> HIDE DEF r
  <2>3. r \in Parses(O) /\ r.state = p.state /\ r.total = p.total /\ r.error = TRUE
    BY <1>2, <2>2 DEF Parses
  <2>. QED
    BY <1>2, <2>3 DEF r
<1>10. CASE t.kind = "array_end"
  <2>1. r = p
    BY <1>10 DEF OverridesToken
  <2>. QED
    BY <1>2, <2>1
<1>. QED
  BY <1>1, <1>4, <1>5, <1>6, <1>7, <1>8, <1>9, <1>10 DEF TokenKinds

\* So they make a machine.
LEMMA OverridesClose ==
  /\ \A p \in Parses(O), t \in TokenSet : OverridesMachine[p][t] = OverridesToken(p, t)
  /\ \A n \in Nat : Machine(OverridesMachine, O, n)
<1>1. ASSUME NEW p \in Parses(O), NEW t \in TokenSet PROVE OverridesMachine[p][t] = OverridesToken(p, t)
  <2>1. OverridesMachine[p] = [u \in TokenSet |-> OverridesToken(p, u)]
    BY DEF OverridesMachine
  <2>. QED
    BY <2>1
<1>2. ASSUME NEW n \in Nat, NEW p \in Parses(O), NEW t \in TokenSet
      PROVE  /\ OverridesMachine[p][t] \in Parses(O)
             /\ p \in Stuck(O, n) => OverridesMachine[p][t] \in Stuck(O, n)
             /\ p \in AtLeast(O, n) => OverridesMachine[p][t] \in AtLeast(O, n)
  <2>1. p.total \in Nat /\ OverridesMachine[p][t] \in Parses(O) /\ OverridesMachine[p][t].total \in Nat
    BY <1>1, OverridesType DEF Parses
  <2>. QED
    BY <1>1, <2>1, OverridesType DEF Stuck, AtLeast
<1>. QED
  BY <1>1, <1>2 DEF Machine, Closed, Stuck, AtLeast

\* The same of the handlers of constrained_extensions.
LEMMA ConstraintsType ==
  ASSUME NEW p \in Parses(L), NEW t \in TokenSet
  PROVE  /\ ConstrainedToken(p, t) \in Parses(L)
         /\ ConstrainedToken(p, t).total >= p.total
         /\ p.state = "unexpected" =>
              /\ ConstrainedToken(p, t).state = "unexpected" /\ ConstrainedToken(p, t).total = p.total
              /\ p.error => ConstrainedToken(p, t).error
<1> DEFINE r == ConstrainedToken(p, t)
<1>1. t.kind \in TokenKinds /\ t.text \in Strings
  BY DEF TokenSet
<1>2. /\ p.state \in States /\ p.error \in BOOLEAN /\ p.total \in Nat /\ p.entries \in [Slots -> L]
      /\ p = [state |-> p.state, error |-> p.error, total |-> p.total, entries |-> p.entries]
      /\ {"toplevel_start", "toplevel_field", "constraints_start", "unexpected"} \cap Resources = {}
  BY DEF Parses, Resources
<1>3. /\ Reject(p) \in Parses(L) /\ Reject(p).total = p.total
      /\ Reject(p).state = "unexpected" /\ Reject(p).error
  BY RejectType
<1>4. CASE t.kind = "array_start"
  <2>1. r = Reject(p)
    BY <1>4 DEF ConstrainedToken
  <2>. QED
    BY <1>2, <1>3, <2>1
<1>5. CASE t.kind = "object_end"
  <2>1. r = ConstrainedObjectEnd(p)
    BY <1>5 DEF ConstrainedToken
  <2>2. p.state # "constraints_start" => r = p
    BY <2>1 DEF ConstrainedObjectEnd
  <2>3. p.state = "constraints_start" => r \in Parses(L) /\ r.total = p.total + 1
    <3>1. p.state = "constraints_start" =>
            r = [state |-> "toplevel_field", error |-> p.error, total |-> p.total + 1, entries |-> p.entries]
      BY <1>2, <2>1 DEF ConstrainedObjectEnd
    <3>. QED
      BY <1>2, <3>1 DEF Parses, States
  <2>. QED
    BY <1>2, <2>2, <2>3
<1>6. CASE t.kind = "object_start"
  <2>1. r = ConstrainedObjectStart(p)
    BY <1>6 DEF ConstrainedToken
  <2>2. p.state \notin {"toplevel_start"} \cup Resources => r = p
    BY <2>1 DEF ConstrainedObjectStart
  <2>3. p.state = "toplevel_start" => r \in Parses(L) /\ r.total = p.total
    <3>1. p.state = "toplevel_start" =>
            r = [state |-> "toplevel_field", error |-> p.error, total |-> p.total, entries |-> p.entries]
      BY <1>2, <2>1 DEF ConstrainedObjectStart
    <3>. QED
      BY <1>2, <3>1 DEF Parses, States
  <2>4. p.state \in Resources => r = Reject(p)
    BY <1>2, <2>1 DEF ConstrainedObjectStart
  <2>. QED
    BY <1>2, <1>3, <2>2, <2>3, <2>4
<1>7. CASE t.kind = "field"
  <2>1. r = ConstrainedFieldStart(p, t.text)
    BY <1>7 DEF ConstrainedToken
  <2>2. p.state \notin {"toplevel_field", "constraints_start"} => r = p
    BY <2>1 DEF ConstrainedFieldStart
  <2>3. p.state = "toplevel_field" => r \in Parses(L) /\ r.total = p.total
    <3> DEFINE entries == [p.entries EXCEPT ![p.total].name = t.text]
    <3>1. entries \in [Slots -> L]
      BY <1>1, <1>2 DEF L, ConstraintsEntries
    <3>2. p.state = "toplevel_field" =>
            r = [state |-> "constraints_start", error |-> p.error, total |-> p.total, entries |-> entries]
      BY <1>2, <2>1 DEF ConstrainedFieldStart
    <3> HIDE DEF entries
    <3>. QED
      BY <1>2, <3>1, <3>2 DEF Parses, States
  <2>4. p.state = "constraints_start" /\ t.text \in Resources => r \in Parses(L) /\ r.total = p.total
    <3>1. p.state = "constraints_start" /\ t.text \in Resources =>
            r = [state |-> t.text, error |-> p.error, total |-> p.total, entries |-> p.entries]
      BY <1>2, <2>1 DEF ConstrainedFieldStart
    <3>. QED
      BY <1>2, <3>1 DEF Parses, States
  <2>5. p.state = "constraints_start" /\ t.text \notin Resources => r = Reject(p)
    BY <2>1 DEF ConstrainedFieldStart
  <2>. QED
    BY <1>2, <1>3, <2>2, <2>3, <2>4, <2>5
<1>8. CASE t.kind \in {"string", "number"}
  <2> DEFINE taken == t.kind = (IF p.state = "cpu" THEN "number" ELSE "string") /\ t.text # Unset
  <2>1. r = ConstrainedScalar(p, t.kind, t.text)
    BY <1>8 DEF ConstrainedToken
  <2>2. p.state \notin {"toplevel_start", "constraints_start"} \cup Resources => r = p
    BY <2>1 DEF ConstrainedScalar
  <2>3. p.state \in Resources /\ taken => r \in Parses(L) /\ r.total = p.total
    <3> DEFINE entries == [p.entries EXCEPT ![p.total].limits[p.state] = t.text]
    <3>1. entries \in [Slots -> L]
      <4>1. ASSUME p.total \in Slots
            PROVE  [p.entries[p.total] EXCEPT !.limits[p.state] = t.text] \in L
        <5>1. p.entries[p.total] \in L
          BY <1>2, <4>1
        <5>2. [p.entries[p.total].limits EXCEPT ![p.state] = t.text] \in [Resources -> Strings \cup {"0"}]
          BY <1>1, <5>1 DEF L, ConstraintsEntries
        <5>. QED
          BY <5>1, <5>2 DEF L, ConstraintsEntries
      <4>. QED
        BY <1>2, <4>1
    <3>2. p.state \in Resources /\ taken =>
            r = [state |-> "constraints_start", error |-> p.error, total |-> p.total, entries |-> entries]
      BY <1>2, <2>1 DEF ConstrainedScalar
    <3> HIDE DEF entries
    <3>. QED
      BY <1>2, <3>1, <3>2 DEF Parses, States
  <2>4. p.state \in {"toplevel_start", "constraints_start"} \/ (p.state \in Resources /\ ~taken)
          => r = Reject(p)
    BY <1>2, <2>1 DEF ConstrainedScalar
  <2>. QED
    BY <1>2, <1>3, <2>2, <2>3, <2>4
<1>9. CASE t.kind = "syntax_error"
  <2>1. r = [p EXCEPT !.error = TRUE]
    BY <1>9 DEF ConstrainedToken
  <2>2. r = [state |-> p.state, error |-> TRUE, total |-> p.total, entries |-> p.entries]
    BY <1>2, <2>1
  <2> HIDE DEF r
  <2>3. r \in Parses(L) /\ r.state = p.state /\ r.total = p.total /\ r.error = TRUE
    BY <1>2, <2>2 DEF Parses
  <2>. QED
    BY <1>2, <2>3 DEF r
<1>10. CASE t.kind = "array_end"
  <2>1. r = p
    BY <1>10 DEF ConstrainedToken
  <2>. QED
    BY <1>2, <2>1
<1>. QED
  BY <1>1, <1>4, <1>5, <1>6, <1>7, <1>8, <1>9, <1>10 DEF TokenKinds

\* So they make a machine.
LEMMA ConstraintsClose ==
  /\ \A p \in Parses(L), t \in TokenSet : ConstraintsMachine[p][t] = ConstrainedToken(p, t)
  /\ \A n \in Nat : Machine(ConstraintsMachine, L, n)
<1>1. ASSUME NEW p \in Parses(L), NEW t \in TokenSet
      PROVE  ConstraintsMachine[p][t] = ConstrainedToken(p, t)
  <2>1. ConstraintsMachine[p] = [u \in TokenSet |-> ConstrainedToken(p, u)]
    BY DEF ConstraintsMachine
  <2>. QED
    BY <2>1
<1>2. ASSUME NEW n \in Nat, NEW p \in Parses(L), NEW t \in TokenSet
      PROVE  /\ ConstraintsMachine[p][t] \in Parses(L)
             /\ p \in Stuck(L, n) => ConstraintsMachine[p][t] \in Stuck(L, n)
             /\ p \in AtLeast(L, n) => ConstraintsMachine[p][t] \in AtLeast(L, n)
  <2>1. p.total \in Nat /\ ConstraintsMachine[p][t] \in Parses(L) /\ ConstraintsMachine[p][t].total \in Nat
    BY <1>1, ConstraintsType DEF Parses
  <2>. QED
    BY <1>1, <2>1, ConstraintsType DEF Stuck, AtLeast
<1>. QED
  BY <1>1, <1>2 DEF Machine, Closed, Stuck, AtLeast

\* A parse without an error is a parse, and a rejected token sticks it.
LEMMA FineType ==
  ASSUME NEW E, NEW state \in States, NEW n \in Nat, NEW e \in [Slots -> E]
  PROVE  /\ Fine(state, n, e) \in Parses(E)
         /\ \A m \in Nat : n <= m => Reject(Fine(state, n, e)) \in Stuck(E, m)
<1>1. Fine(state, n, e) \in Parses(E)
  BY DEF Fine, Parses
<1>2. Reject(Fine(state, n, e)) \in Parses(E) /\ Reject(Fine(state, n, e)).total = n
      /\ Reject(Fine(state, n, e)).error /\ Reject(Fine(state, n, e)).state = "unexpected"
  BY <1>1, RejectType DEF Fine
<1>. QED
  BY <1>1, <1>2 DEF Stuck

\* The tokens a value may begin with, by its kind.
LEMMA FirstTokens ==
  ASSUME NEW S, NEW val \in Nested(S)
  PROVE  /\ FirstToken(val) \in TokenSet
         /\ val.kind = "array" => FirstToken(val) = Token("array_start", Unset)
         /\ val.kind = "object" => FirstToken(val) = Token("object_start", Unset)
         /\ val.kind \in {"string", "number"} =>
              FirstToken(val) = Token(val.kind, val.text) /\ val.text \in Strings
         /\ val.kind \in {"string", "number", "array", "object"}
<1>1. val.kind \in {"string", "number", "array", "object"} /\ val.text \in Strings
  BY NestedKinds
<1>. QED
  BY <1>1 DEF FirstToken, Token, TokenSet, TokenKinds, Strings

\* The document is an object whose field k leads from the array read[k - 1] to
\* read[k] when it is a good one.
ReadsFields(H, E, doc, read, good) ==
  /\ H[Fine("toplevel_start", 0, read[0])][Token("object_start", Unset)]
       = Fine("toplevel_field", 0, read[0])
  /\ doc.kind # "object" =>
       H[Fine("toplevel_start", 0, read[0])][FirstToken(doc)] \in Stuck(E, Len(doc.parts))
  /\ H[Fine("toplevel_field", Len(doc.parts), read[Len(doc.parts)])][Token("object_end", Unset)]
       = Fine("toplevel_field", Len(doc.parts), read[Len(doc.parts)])
  /\ doc.kind = "object" => \A k \in 1..Len(doc.parts) :
       Outcome(Run(H, Fine("toplevel_field", k - 1, read[k - 1]),
                   <<Token("field", doc.parts[k].name)>> \o Tokens2(doc.parts[k].value)),
               k \in good,
               Fine("toplevel_field", k, read[k]),
               Stuck(E, Len(doc.parts)))

\* A machine that reads every field as read and good say reads the document so.
LEMMA RunOverDocument ==
  ASSUME NEW E, NEW H, NEW doc \in Documents, Machine(H, E, Len(doc.parts)),
         NEW read \in [0..Len(doc.parts) -> [Slots -> E]],
         NEW good \in SUBSET (1..Len(doc.parts)), ReadsFields(H, E, doc, read, good)
  PROVE  Outcome(Run(H, StartParse(read[0]), Tokens(doc)),
                 doc.kind = "object" /\ good = 1..Len(doc.parts),
                 Fine("toplevel_field", Len(doc.parts), read[Len(doc.parts)]),
                 Stuck(E, Len(doc.parts)))
<1> DEFINE n == Len(doc.parts)
    c == Fine("toplevel_start", 0, read[0])
    t == FirstToken(doc)
    S == Stuck(E, n)
    inside == [i \in DOMAIN doc.parts |-> Tokens2(Inner(doc, i))]
    g == [k \in 0..n |-> Fine("toplevel_field", k, read[k])]
<1>1. /\ n \in Nat /\ DOMAIN doc.parts = 1..n
      /\ doc.kind = "object" => doc.parts \in Seq(Fields(Level2))
      /\ {"toplevel_start", "toplevel_field"} \subseteq States
  BY NestedKinds DEF Documents, Level0, Level1, Level2, States
<1>2. Closed(H, Parses(E), TokenSet) /\ Closed(H, S, TokenSet) /\ S \subseteq Parses(E)
  BY DEF Machine, Stuck
<1>3. c = StartParse(read[0]) /\ c \in Parses(E)
  BY <1>1, FineType DEF Fine, StartParse
<1>4. g \in [0..n -> Parses(E)] /\ g[0] = Fine("toplevel_field", 0, read[0])
      /\ g[n] = Fine("toplevel_field", n, read[n])
  BY <1>1, FineType
<1>5. CASE doc.kind # "object"
  <2>1. H[c][t] \in S /\ t \in TokenSet
    BY <1>5, FirstTokens DEF ReadsFields, Documents
  <2>2. PICK others \in Seq(TokenSet) : Tokens(doc) = <<t>> \o others
    BY LevelTokens DEF Starts
  <2> HIDE DEF c, t, S
  <2>3. Run(H, c, <<t>> \o others) \in S
    BY <1>2, <1>3, <2>1, DecidedAtOnce
  <2>. QED
    BY <1>3, <1>5, <2>2, <2>3 DEF Outcome, S
<1>6. CASE doc.kind = "object"
  <2>1. inside \in Seq(Seq(TokenSet)) /\ Len(inside) = n /\ Tokens(doc) = TokensWith(doc, inside)
    <3>1. inside \in Seq(Seq(TokenSet))
      BY LevelTokens
    <3>. QED
      BY <1>1, <3>1 DEF Tokens
  <2>2. \A k \in 1..n : inside[k] = Tokens2(doc.parts[k].value)
    BY <1>1, <1>6 DEF Inner
  <2> HIDE DEF inside
  <2>3. ExpectedFields(g, H, doc, inside, good, S)
    <3>1. ASSUME NEW k \in 1..n
          PROVE  Outcome(Run(H, g[k - 1], <<Token("field", doc.parts[k].name)>> \o inside[k]),
                         k \in good, g[k], S)
      <4>1. k - 1 \in 0..n /\ k \in 0..n
        BY <1>1
      <4>2. g[k - 1] = Fine("toplevel_field", k - 1, read[k - 1]) /\ g[k] = Fine("toplevel_field", k, read[k])
        BY <4>1
      <4> HIDE DEF g
      <4>. QED
        BY <1>6, <2>2, <4>2 DEF ReadsFields
    <3>. QED
      BY <3>1 DEF ExpectedFields
  <2>4. H[c][Token("object_start", Unset)] = g[0]
    BY <1>4 DEF ReadsFields
  <2> HIDE DEF g, S, c
  <2>5. Outcome(Run(H, c, TokensWith(doc, inside)), good = 1..Len(doc.parts),
                H[g[Len(doc.parts)]][Token("object_end", Unset)], S)
    BY <1>2, <1>3, <1>4, <1>6, <2>1, <2>3, <2>4, RunOverObject DEF Documents
  <2>6. H[g[n]][Token("object_end", Unset)] = g[n]
    BY <1>4 DEF ReadsFields
  <2>. QED
    BY <1>3, <1>4, <1>6, <2>1, <2>5, <2>6 DEF S
<1>. QED
  BY <1>5, <1>6

-----------------------------------------------------------------------------
(* policy_grants *)

\* What a field and the name of a table make of the entry n.
WithRole(e, n, name) == [e EXCEPT ![n].role = name]

WithTable(e, n, table) == [e EXCEPT ![n].tables = Append(@, table)]

\* The tokens in place, one by one.
LEMMA GrantsSteps ==
  ASSUME NEW n \in Nat, NEW e \in [Slots -> G]
  PROVE  /\ GrantsMachine[Fine("toplevel_start", n, e)][Token("object_start", Unset)]
              = Fine("toplevel_field", n, e)
         /\ \A name \in Texts :
              GrantsMachine[Fine("toplevel_field", n, e)][Token("field", name)]
                = Fine("tables_start", n, WithRole(e, n, name))
         /\ GrantsMachine[Fine("tables_start", n, e)][Token("array_start", Unset)]
              = Fine("table", n, e)
         /\ \A text \in Strings :
              GrantsMachine[Fine("table", n, e)][Token("string", text)]
                = Fine("table", n, WithTable(e, n, text))
         /\ GrantsMachine[Fine("table", n, e)][Token("array_end", Unset)]
              = Fine("toplevel_field", n + 1, e)
         /\ GrantsMachine[Fine("toplevel_field", n, e)][Token("object_end", Unset)]
              = Fine("toplevel_field", n, e)
<1>1. ASSUME NEW state \in States, NEW kind \in TokenKinds, NEW text \in Strings
      PROVE  GrantsMachine[Fine(state, n, e)][Token(kind, text)]
               = GrantsToken(Fine(state, n, e), Token(kind, text))
  <2>1. Fine(state, n, e) \in Parses(G)
    BY FineType
  <2>2. Token(kind, text) \in TokenSet
    BY DEF Token, TokenSet
  <2>. QED
    BY <2>1, <2>2, GrantsClose
<1>2. {"toplevel_start", "toplevel_field", "tables_start", "table"} \subseteq States
  BY DEF States
<1>3. /\ {"object_start", "field", "array_start", "string", "array_end", "object_end"} \subseteq TokenKinds
      /\ Unset \in Strings /\ \A name \in Texts : name \in Strings
  BY DEF TokenKinds, Strings
<1>4. GrantsToken(Fine("toplevel_start", n, e), Token("object_start", Unset)) = Fine("toplevel_field", n, e)
  BY DEF GrantsToken, GrantsObjectStart, Fine, Token
<1>5. ASSUME NEW name \in Texts
      PROVE  GrantsToken(Fine("toplevel_field", n, e), Token("field", name))
               = Fine("tables_start", n, WithRole(e, n, name))
  BY DEF GrantsToken, GrantsFieldStart, Fine, Token, WithRole
<1>6. GrantsToken(Fine("tables_start", n, e), Token("array_start", Unset)) = Fine("table", n, e)
  BY DEF GrantsToken, GrantsArrayStart, Fine, Token
<1>7. ASSUME NEW text \in Strings
      PROVE  GrantsToken(Fine("table", n, e), Token("string", text))
               = Fine("table", n, WithTable(e, n, text))
  BY DEF GrantsToken, GrantsScalar, Fine, Token, WithTable
<1>8. GrantsToken(Fine("table", n, e), Token("array_end", Unset)) = Fine("toplevel_field", n + 1, e)
  BY DEF GrantsToken, GrantsArrayEnd, Fine, Token
<1>9. GrantsToken(Fine("toplevel_field", n, e), Token("object_end", Unset)) = Fine("toplevel_field", n, e)
  BY DEF GrantsToken, Fine, Token
<1>. QED
  BY <1>1, <1>2, <1>3, <1>4, <1>5, <1>6, <1>7, <1>8, <1>9

\* The kinds of values that are out of place.
LEMMA GrantsRejects ==
  ASSUME NEW n \in Nat, NEW m \in Nat, n <= m, NEW e \in [Slots -> G],
         NEW S, NEW val \in Nested(S)
  PROVE  /\ val.kind # "object" =>
              GrantsMachine[Fine("toplevel_start", n, e)][FirstToken(val)] \in Stuck(G, m)
         /\ val.kind # "array" =>
              GrantsMachine[Fine("tables_start", n, e)][FirstToken(val)] \in Stuck(G, m)
         /\ val.kind # "string" =>
              GrantsMachine[Fine("table", n, e)][FirstToken(val)] \in Stuck(G, m)
<1> DEFINE t == FirstToken(val)
<1>1. /\ t \in TokenSet
      /\ val.kind = "array" => t.kind = "array_start"
      /\ val.kind = "object" => t.kind = "object_start"
      /\ val.kind \in {"string", "number"} => t.kind = val.kind
      /\ val.kind \in {"string", "number", "array", "object"}
  BY FirstTokens DEF Token
<1> HIDE DEF t
<1>2. ASSUME NEW state \in {"toplevel_start", "tables_start", "table"}
      PROVE  /\ GrantsMachine[Fine(state, n, e)][t] = GrantsToken(Fine(state, n, e), t)
             /\ Reject(Fine(state, n, e)) \in Stuck(G, m)
             /\ Fine(state, n, e).state = state
  <2>1. state \in States
    BY DEF States
  <2>2. Fine(state, n, e) \in Parses(G) /\ Reject(Fine(state, n, e)) \in Stuck(G, m)
    BY <2>1, FineType
  <2>. QED
    BY <1>1, <2>2, GrantsClose DEF Fine
<1>3. val.kind # "object" =>
        GrantsToken(Fine("toplevel_start", n, e), t) = Reject(Fine("toplevel_start", n, e))
  BY <1>1, <1>2 DEF GrantsToken, GrantsArrayStart, GrantsScalar
<1>4. val.kind # "array" =>
        GrantsToken(Fine("tables_start", n, e), t) = Reject(Fine("tables_start", n, e))
  BY <1>1, <1>2 DEF GrantsToken, GrantsObjectStart, GrantsScalar
<1>5. val.kind # "string" =>
        GrantsToken(Fine("table", n, e), t) = Reject(Fine("table", n, e))
  BY <1>1, <1>2 DEF GrantsToken, GrantsArrayStart, GrantsObjectStart, GrantsScalar
<1>. QED
  BY <1>2, <1>3, <1>4, <1>5 DEF t

\* The texts of the values inside a value, and of the first k of them.
TextsUpTo(val, k) == [i \in 1..k |-> Inner(val, i).text]

\* One more text is appended to those before it.
LEMMA TextsType ==
  ASSUME NEW S, NEW val \in Nested(Nested(S)), NEW k \in 0..Len(val.parts)
  PROVE  /\ TextsUpTo(val, k) \in Seq(Strings)
         /\ \A old \in Seq(Strings) :
              /\ old \o TextsUpTo(val, k) \in Seq(Strings)
              /\ k = 0 => old \o TextsUpTo(val, k) = old
              /\ k # 0 => old \o TextsUpTo(val, k)
                            = Append(old \o TextsUpTo(val, k - 1), Inner(val, k).text)
<1>1. k \in Nat /\ \A i \in 1..k : Inner(val, i) \in Nested(S)
  BY NestedKinds
<1>2. \A i \in 1..k : Inner(val, i).text \in Strings
  BY <1>1, NestedKinds
<1>3. TextsUpTo(val, k) \in Seq(Strings) /\ Len(TextsUpTo(val, k)) = k
  BY <1>1, <1>2 DEF TextsUpTo
<1>4. ASSUME NEW old \in Seq(Strings), k # 0
      PROVE  old \o TextsUpTo(val, k) = Append(old \o TextsUpTo(val, k - 1), Inner(val, k).text)
  <2>1. k - 1 \in Nat /\ k \in 1..k
    BY <1>1, <1>4
  <2>2. TextsUpTo(val, k - 1) \in Seq(Strings) /\ Len(TextsUpTo(val, k - 1)) = k - 1
    BY <1>2, <2>1 DEF TextsUpTo
  <2>3. TextsUpTo(val, k) = Append(TextsUpTo(val, k - 1), Inner(val, k).text)
    <3>1. \A i \in 1..k - 1 : TextsUpTo(val, k)[i] = TextsUpTo(val, k - 1)[i]
      BY <2>1 DEF TextsUpTo
    <3>2. TextsUpTo(val, k)[k] = Inner(val, k).text
      BY <2>1 DEF TextsUpTo
    <3>. QED
      BY <1>3, <2>1, <2>2, <3>1, <3>2
  <2> DEFINE s == TextsUpTo(val, k - 1)
      text == Inner(val, k).text
  <2>4. s \in Seq(Strings) /\ text \in Strings
    BY <1>2, <2>1, <2>2
  <2> HIDE DEF s, text
  <2>5. old \o Append(s, text) = Append(old \o s, text)
    BY <2>4
  <2>. QED
    BY <2>3, <2>5 DEF s, text
<1>5. ASSUME NEW old \in Seq(Strings), k = 0
      PROVE  old \o TextsUpTo(val, k) = old
  <2>1. TextsUpTo(val, k) = <<>>
    BY <1>3, <1>5
  <2>. QED
    BY <2>1
<1>. QED
  BY <1>3, <1>4, <1>5

\* The parts whose kind is as it should be.
Strung(val) == {i \in DOMAIN val.parts : Inner(val, i).kind = "string"}

\* Reading the items of an array adds the names of tables to the entry n.
LEMMA GrantsItems ==
  ASSUME NEW val \in Level2, NEW n \in Slots, NEW m \in Nat, n <= m, NEW e \in [Slots -> G],
         NEW inside, inside = [i \in DOMAIN val.parts |-> Tokens1(Inner(val, i))]
  PROVE  Outcome(Run(GrantsMachine, Fine("table", n, e), Joined(inside)),
                 Strung(val) = DOMAIN val.parts,
                 Fine("table", n, [e EXCEPT ![n].tables = @ \o TextsUpTo(val, Len(val.parts))]),
                 Stuck(G, m))
<1> DEFINE M == GrantsMachine
    E(k) == [e EXCEPT ![n].tables = @ \o TextsUpTo(val, k)]
    g == [k \in 0..Len(val.parts) |-> Fine("table", n, E(k))]
    good == Strung(val)
<1>1. /\ Len(val.parts) \in Nat /\ DOMAIN val.parts = 1..Len(val.parts)
      /\ \A i \in 1..Len(val.parts) : Inner(val, i) \in Level1
      /\ n \in Nat /\ "table" \in States
  BY NestedKinds, SlotsAssumption DEF Level2, States
<1>2. inside \in Seq(Seq(TokenSet)) /\ Len(inside) = Len(val.parts)
      /\ \A i \in 1..Len(val.parts) : inside[i] = Tokens1(Inner(val, i))
  BY <1>1, LevelTokens
<1>3. Closed(M, Parses(G), TokenSet) /\ Closed(M, Stuck(G, m), TokenSet) /\ Stuck(G, m) \subseteq Parses(G)
  BY GrantsClose DEF Machine, Stuck
<1>4. \A k \in 0..Len(val.parts) : E(k) \in [Slots -> G] /\ E(k)[n].tables = e[n].tables \o TextsUpTo(val, k)
  <2>1. ASSUME NEW k \in 0..Len(val.parts)
        PROVE  E(k) \in [Slots -> G] /\ E(k)[n].tables = e[n].tables \o TextsUpTo(val, k)
    <3>1. e[n] \in G /\ e[n].tables \in Seq(Strings)
      BY DEF G, GrantsEntries
    <3>2. e[n].tables \o TextsUpTo(val, k) \in Seq(Strings)
      BY <3>1, TextsType DEF Level1, Level2
    <3>3. [e[n] EXCEPT !.tables = @ \o TextsUpTo(val, k)] \in G
      BY <3>1, <3>2 DEF G, GrantsEntries
    <3>. QED
      BY <3>1, <3>3 DEF G, GrantsEntries
  <2>. QED
    BY <2>1
<1>5. g \in [0..Len(val.parts) -> Parses(G)]
  BY <1>1, <1>4, FineType
<1>6. E(0) = e
  <2>1. e[n].tables \o TextsUpTo(val, 0) = e[n].tables
    <3>1. e[n] \in G /\ e[n].tables \in Seq(Strings) /\ 0 \in 0..Len(val.parts)
      BY <1>1 DEF G, GrantsEntries
    <3>. QED
      BY <3>1, TextsType DEF Level1, Level2
  <2>2. [e[n] EXCEPT !.tables = @ \o TextsUpTo(val, 0)] = e[n]
    BY <2>1 DEF G, GrantsEntries
  <2>. QED
    BY <2>2
<1>7. ASSUME NEW k \in 1..Len(val.parts)
      PROVE  Outcome(Run(M, g[k - 1], inside[k]), k \in good, g[k], Stuck(G, m))
  <2> DEFINE v == Inner(val, k)
      t == FirstToken(v)
  <2>1. /\ v \in Level1 /\ inside[k] = Tokens1(v) /\ k - 1 \in 0..Len(val.parts) /\ t \in TokenSet
        /\ k \in good <=> v.kind = "string"
    BY <1>1, <1>2, FirstTokens DEF Level1, Strung
  <2>2. g[k - 1] = Fine("table", n, E(k - 1)) /\ g[k - 1] \in Parses(G) /\ g[k] = Fine("table", n, E(k))
    <3>1. k \in 0..Len(val.parts) /\ k - 1 \in 0..Len(val.parts)
      BY <1>1
    <3>2. g[k - 1] = Fine("table", n, E(k - 1)) /\ g[k] = Fine("table", n, E(k))
      BY <3>1
    <3>. QED
      BY <1>5, <3>1, <3>2
  <2>3. PICK others \in Seq(TokenSet) : inside[k] = <<t>> \o others
    BY <2>1, LevelTokens DEF Starts
  <2>4. CASE v.kind = "string"
    <3>1. inside[k] = <<t>> /\ t = Token("string", v.text) /\ v.text \in Strings
      BY <2>1, <2>4, FirstTokens DEF Tokens1, TokensWith, Level1
    <3>2. Run(M, g[k - 1], <<t>>) = M[g[k - 1]][t]
      BY <1>3, <2>1, <2>2, RunOne
    <3>3. M[g[k - 1]][t] = Fine("table", n, WithTable(E(k - 1), n, v.text))
      <4> DEFINE before == E(k - 1)
      <4>1. before \in [Slots -> G] /\ g[k - 1] = Fine("table", n, before)
        BY <1>4, <2>1, <2>2
      <4> HIDE DEF before, g, v, t, E
      <4>2. M[Fine("table", n, before)][Token("string", v.text)]
              = Fine("table", n, WithTable(before, n, v.text))
        BY <1>1, <3>1, <4>1, GrantsSteps
      <4>. QED
        BY <3>1, <4>1, <4>2 DEF before
    <3>4. Append(e[n].tables \o TextsUpTo(val, k - 1), v.text) = e[n].tables \o TextsUpTo(val, k)
      <4>1. e[n] \in G /\ e[n].tables \in Seq(Strings) /\ k \in 0..Len(val.parts) /\ k # 0
        BY DEF G, GrantsEntries
      <4>. QED
        BY <4>1, TextsType DEF Level1, Level2
    <3>5. WithTable(E(k - 1), n, v.text) = E(k)
      BY <3>4 DEF WithTable
    <3>. QED
      BY <2>1, <2>2, <2>4, <3>1, <3>2, <3>3, <3>5 DEF Outcome
  <2>5. CASE v.kind # "string"
    <3>1. M[g[k - 1]][t] \in Stuck(G, m)
      BY <1>1, <1>4, <2>1, <2>2, <2>5, GrantsRejects DEF Level1
    <3> HIDE DEF g, t
    <3>2. Run(M, g[k - 1], <<t>> \o others) \in Stuck(G, m)
      BY <1>3, <2>1, <2>2, <3>1, DecidedAtOnce
    <3>. QED
      BY <2>1, <2>3, <2>5, <3>2 DEF Outcome
  <2>. QED
    BY <2>4, <2>5
<1> HIDE DEF E, M
<1>8. Outcome(Run(M, g[0], Joined(inside)), good = 1..Len(inside), g[Len(inside)], Stuck(G, m))
  <2>1. Expected(g, M, inside, good, Stuck(G, m)) /\ g \in [0..Len(inside) -> Parses(G)]
    BY <1>2, <1>5, <1>7 DEF Expected
  <2>2. good \in SUBSET (1..Len(inside))
    BY <1>1, <1>2 DEF Strung
  <2> HIDE DEF g, good
  <2>. QED
    BY <1>2, <1>3, <2>1, <2>2, RunOverPieces
<1>9. g[0] = Fine("table", n, e) /\ g[Len(inside)] = Fine("table", n, E(Len(val.parts)))
  BY <1>1, <1>2, <1>6
<1>. QED
  BY <1>1, <1>2, <1>8, <1>9 DEF E, M

GoodRole(val) == val.kind = "array" /\ Strung(val) = DOMAIN val.parts

\* What a field makes of the entry n.
WithGrants(e, n, name, val) ==
  [e EXCEPT ![n] = GrantsEntry(name, @.tables \o TextsUpTo(val, Len(val.parts)))]

\* A field of policy_grants: the role and its tables, or an error.
LEMMA GrantsField ==
  ASSUME NEW name \in Texts, NEW val \in Level2, NEW n \in Slots, NEW m \in Nat, n <= m,
         NEW e \in [Slots -> G]
  PROVE  /\ Outcome(Run(GrantsMachine, Fine("toplevel_field", n, e),
                        <<Token("field", name)>> \o Tokens2(val)),
                    GoodRole(val),
                    Fine("toplevel_field", n + 1, WithGrants(e, n, name, val)),
                    Stuck(G, m))
         /\ WithGrants(e, n, name, val) \in [Slots -> G]
<1> DEFINE M == GrantsMachine
    c == Fine("toplevel_field", n, e)
    f == Token("field", name)
    s == Tokens2(val)
    e1 == WithRole(e, n, name)
    c1 == Fine("tables_start", n, e1)
    t == FirstToken(val)
    start == Token("array_start", Unset)
    end == Token("array_end", Unset)
    inside == [i \in DOMAIN val.parts |-> Tokens1(Inner(val, i))]
    e2 == [e1 EXCEPT ![n].tables = @ \o TextsUpTo(val, Len(val.parts))]
    q == Run(M, Fine("table", n, e1), Joined(inside))
<1>1. n \in Nat /\ {"toplevel_field", "tables_start", "table"} \subseteq States /\ name \in Strings
  BY SlotsAssumption DEF States, Strings
<1>2. e1 \in [Slots -> G] /\ e1[n].tables = e[n].tables /\ e1[n].role = name
  BY <1>1 DEF WithRole, G, GrantsEntries
<1>3. e2 \in [Slots -> G] /\ e2 = WithGrants(e, n, name, val)
  <2>1. e[n] \in G /\ e[n].tables \in Seq(Strings) /\ Len(val.parts) \in 0..Len(val.parts)
    BY NestedKinds DEF G, GrantsEntries, Level2
  <2>2. e[n].tables \o TextsUpTo(val, Len(val.parts)) \in Seq(Strings)
    BY <2>1, TextsType DEF Level1, Level2
  <2>3. e1 = [e EXCEPT ![n] = [role |-> name, tables |-> e[n].tables]]
    <3>1. [e[n] EXCEPT !.role = name] = [role |-> name, tables |-> e[n].tables]
      BY <2>1 DEF G, GrantsEntries
    <3>. QED
      BY <3>1 DEF WithRole
  <2>4. e2 = [e EXCEPT ![n] = [role   |-> name,
                               tables |-> e[n].tables \o TextsUpTo(val, Len(val.parts))]]
    <3> DEFINE tables == e[n].tables \o TextsUpTo(val, Len(val.parts))
    <3>1. e1[n] = [role |-> name, tables |-> e[n].tables]
      BY <2>3
    <3>2. e2 = [e1 EXCEPT ![n] = [e1[n] EXCEPT !.tables = tables]]
      BY <1>2
    <3> HIDE DEF e2, e1, tables
    <3>3. [e1[n] EXCEPT !.tables = tables] = [role |-> name, tables |-> tables]
      BY <3>1
    <3>4. e2 = [e1 EXCEPT ![n] = [role |-> name, tables |-> tables]]
      BY <3>2, <3>3
    <3>. QED
      BY <2>3, <3>4 DEF tables
  <2> HIDE DEF e2
  <2>5. e2 \in [Slots -> G]
    BY <1>1, <2>2, <2>4 DEF G, GrantsEntries
  <2>. QED
    BY <2>4, <2>5 DEF WithGrants, GrantsEntry
<1>4. Closed(M, Parses(G), TokenSet) /\ Closed(M, Stuck(G, m), TokenSet) /\ Stuck(G, m) \subseteq Parses(G)
  BY GrantsClose DEF Machine, Stuck
<1>5. c \in Parses(G) /\ c1 \in Parses(G)
  BY <1>1, <1>2, FineType
<1>6. M[c][f] = c1 /\ f \in TokenSet /\ start \in TokenSet /\ end \in TokenSet
  BY <1>1, GrantsSteps DEF Token, TokenSet, TokenKinds, Strings
<1>7. s \in Seq(TokenSet) /\ inside \in Seq(Seq(TokenSet)) /\ Joined(inside) \in Seq(TokenSet)
  BY LevelTokens, JoinedType
<1>8. Run(M, c, <<f>> \o s) = Run(M, c1, s)
  <2> HIDE DEF M, c, f, s, c1
  <2>. QED
    BY <1>4, <1>5, <1>6, <1>7, RunWrapped
<1>9. CASE val.kind # "array"
  <2>1. M[c1][t] \in Stuck(G, m) /\ t \in TokenSet
    BY <1>1, <1>2, <1>9, GrantsRejects, FirstTokens DEF Level2
  <2>2. PICK others \in Seq(TokenSet) : s = <<t>> \o others
    BY LevelTokens DEF Starts
  <2> HIDE DEF M, c1, t
  <2>3. Run(M, c1, <<t>> \o others) \in Stuck(G, m)
    BY <1>4, <1>5, <2>1, DecidedAtOnce
  <2>. QED
    BY <1>3, <1>8, <1>9, <2>2, <2>3 DEF Outcome, GoodRole, M
<1>10. CASE val.kind = "array"
  <2>1. s = <<start>> \o Joined(inside) \o <<end>>
    BY <1>10 DEF Tokens2, TokensWith
  <2>2. M[c1][start] = Fine("table", n, e1)
    BY <1>1, <1>2, GrantsSteps
  <2>3. Run(M, c1, s) = M[q][end]
    <3> DEFINE tokens == Joined(inside)
    <3>1. tokens \in Seq(TokenSet)
      BY <1>7
    <3> HIDE DEF M, c1, start, end, tokens
    <3>2. Run(M, c1, <<start>> \o tokens \o <<end>>) = M[Run(M, M[c1][start], tokens)][end]
      BY <1>4, <1>5, <1>6, <3>1, RunWrapped
    <3>. QED
      BY <2>1, <2>2, <3>2 DEF tokens
  <2>4. Outcome(q, Strung(val) = DOMAIN val.parts, Fine("table", n, e2), Stuck(G, m))
    <3> HIDE DEF inside, e1, M
    <3>1. inside = [i \in DOMAIN val.parts |-> Tokens1(Inner(val, i))]
      BY DEF inside
    <3>. QED
      BY <1>2, <3>1, GrantsItems DEF M
  <2>5. M[Fine("table", n, e2)][end] = Fine("toplevel_field", n + 1, e2)
    <3> HIDE DEF e2
    <3>. QED
      BY <1>1, <1>3, GrantsSteps
  <2>6. q \in Stuck(G, m) => M[q][end] \in Stuck(G, m)
    BY <1>4, <1>6 DEF Closed
  <2> HIDE DEF q, M, e2
  <2>. QED
    BY <1>3, <1>8, <1>10, <2>3, <2>4, <2>5, <2>6 DEF Outcome, GoodRole, M
<1>. QED
  BY <1>9, <1>10

\* The array after the first k fields of a document.
GrantsRead(doc, e, k) ==
  [i \in Slots |->
     IF i < k
       THEN GrantsEntry(doc.parts[i + 1].name,
              e[i].tables \o TextsUpTo(doc.parts[i + 1].value, Len(doc.parts[i + 1].value.parts)))
       ELSE e[i]]

\* A document of policy_grants: all its fields are read, or an error is noted.
LEMMA GrantsDocument ==
  ASSUME NEW doc \in Documents, 0..Len(doc.parts) \subseteq Slots, NEW e \in [Slots -> G]
  PROVE  /\ Outcome(Run(GrantsMachine, StartParse(e), Tokens(doc)),
                    WellFormedGrants(doc),
                    Fine("toplevel_field", Len(doc.parts), GrantsRead(doc, e, Len(doc.parts))),
                    Stuck(G, Len(doc.parts)))
         /\ doc.kind = "object" => GrantsRead(doc, e, Len(doc.parts)) \in [Slots -> G]
<1> DEFINE M == GrantsMachine
    n == Len(doc.parts)
    read == [k \in 0..n |-> IF doc.kind = "object" THEN GrantsRead(doc, e, k) ELSE e]
    good == {i \in 1..n : GoodRole(doc.parts[i].value)}
<1>1. /\ n \in Nat /\ DOMAIN doc.parts = 1..n
      /\ doc.kind = "object" => doc.parts \in Seq(Fields(Level2))
      /\ doc \in Nested(Level2)
  BY NestedKinds DEF Documents, Level0, Level1, Level2
<1>2. ASSUME NEW i \in 1..n, doc.kind = "object"
      PROVE  doc.parts[i].name \in Texts /\ doc.parts[i].value \in Level2
  <2>1. doc.parts[i] \in Fields(Level2)
    BY <1>1, <1>2
  <2>. QED
    BY <2>1 DEF Fields
<1>3. ASSUME NEW k \in 0..n, doc.kind = "object"
      PROVE  GrantsRead(doc, e, k) \in [Slots -> G]
  <2>1. ASSUME NEW i \in Slots, i < k
        PROVE  GrantsEntry(doc.parts[i + 1].name,
                 e[i].tables \o TextsUpTo(doc.parts[i + 1].value, Len(doc.parts[i + 1].value.parts))) \in G
    <3> DEFINE name == doc.parts[i + 1].name
        val == doc.parts[i + 1].value
    <3>1. i + 1 \in 1..n
      BY <1>1, <2>1, SlotsAssumption
    <3>2. name \in Strings /\ val \in Level2 /\ e[i] \in G /\ e[i].tables \in Seq(Strings)
      BY <1>2, <1>3, <3>1 DEF Strings, G, GrantsEntries
    <3> HIDE DEF name, val
    <3>3. e[i].tables \o TextsUpTo(val, Len(val.parts)) \in Seq(Strings)
      <4>1. Len(val.parts) \in 0..Len(val.parts)
        BY <3>2, NestedKinds DEF Level2
      <4>. QED
        BY <3>2, <4>1, TextsType DEF Level1, Level2
    <3>4. GrantsEntry(name, e[i].tables \o TextsUpTo(val, Len(val.parts))) \in G
      BY <3>2, <3>3 DEF GrantsEntry, G, GrantsEntries
    <3>. QED
      BY <3>4 DEF name, val
  <2>. QED
    BY <2>1 DEF GrantsRead
<1>4. read \in [0..n -> [Slots -> G]] /\ read[0] = e
  <2>1. GrantsRead(doc, e, 0) = e
    BY SlotsAssumption DEF GrantsRead
  <2>. QED
    BY <1>1, <1>3, <2>1
<1>5. ASSUME NEW k \in 1..n, doc.kind = "object"
      PROVE  Outcome(Run(M, Fine("toplevel_field", k - 1, read[k - 1]),
                         <<Token("field", doc.parts[k].name)>> \o Tokens2(doc.parts[k].value)),
                     k \in good, Fine("toplevel_field", k, read[k]), Stuck(G, n))
  <2> DEFINE before == read[k - 1]
      name == doc.parts[k].name
      val == doc.parts[k].value
  <2>1. k - 1 \in Slots /\ k - 1 \in Nat /\ k - 1 <= n /\ (k - 1) + 1 = k /\ k - 1 \in 0..n
    BY <1>1
  <2>2. name \in Texts /\ val \in Level2 /\ before \in [Slots -> G] /\ (k \in good <=> GoodRole(val))
    BY <1>2, <1>4, <1>5, <2>1
  <2>3. WithGrants(before, k - 1, name, val) = read[k]
    <3>1. before[k - 1] = e[k - 1] /\ before = GrantsRead(doc, e, k - 1) /\ read[k] = GrantsRead(doc, e, k)
      BY <1>1, <1>5, <2>1 DEF GrantsRead
    <3>2. \A i \in Slots : i \in Nat /\ (i < k <=> i < k - 1 \/ i = k - 1)
      BY <1>1, SlotsAssumption
    <3> DEFINE new == GrantsEntry(name, e[k - 1].tables \o TextsUpTo(val, Len(val.parts)))
        step == [i \in Slots |-> IF i = k - 1 THEN new ELSE before[i]]
    <3> HIDE DEF read
    <3>3. WithGrants(before, k - 1, name, val) = step
      <4> HIDE DEF before, name, val
      <4>. QED
        BY <2>1, <2>2, <3>1 DEF WithGrants
    <3>4. ASSUME NEW i \in Slots
          PROVE  GrantsRead(doc, e, k)[i] = step[i]
      <4>1. CASE i = k - 1
        <5>1. GrantsRead(doc, e, k)[i] = new
          BY <2>1, <3>2, <4>1 DEF GrantsRead
        <5> HIDE DEF new
        <5>. QED
          BY <4>1, <5>1
      <4>2. CASE i # k - 1
        <5>1. GrantsRead(doc, e, k)[i] = GrantsRead(doc, e, k - 1)[i]
          BY <3>2, <4>2 DEF GrantsRead
        <5> HIDE DEF new, before
        <5>. QED
          BY <3>1, <4>2, <5>1
      <4>. QED
        BY <4>1, <4>2
    <3>5. GrantsRead(doc, e, k) = [i \in Slots |-> GrantsRead(doc, e, k)[i]]
      BY DEF GrantsRead
    <3>6. step = [i \in Slots |-> step[i]]
      OBVIOUS
    <3> HIDE DEF step
    <3>. QED
      BY <3>1, <3>3, <3>4, <3>5, <3>6
  <2> HIDE DEF before, name, val, good
  <2>4. Outcome(Run(GrantsMachine, Fine("toplevel_field", k - 1, before),
                    <<Token("field", name)>> \o Tokens2(val)),
                GoodRole(val),
                Fine("toplevel_field", (k - 1) + 1, WithGrants(before, k - 1, name, val)),
                Stuck(G, n))
    BY <1>1, <2>1, <2>2, GrantsField
  <2>. QED
    BY <2>1, <2>2, <2>3, <2>4 DEF Outcome, before, name, val
<1>6. ReadsFields(M, G, doc, read, good)
  <2> DEFINE last == read[n]
  <2>1. last \in [Slots -> G] /\ 0 <= n
    BY <1>1, <1>4
  <2> HIDE DEF last, read
  <2>2. M[Fine("toplevel_field", n, last)][Token("object_end", Unset)] = Fine("toplevel_field", n, last)
    BY <1>1, <2>1, GrantsSteps
  <2>3. M[Fine("toplevel_start", 0, e)][Token("object_start", Unset)] = Fine("toplevel_field", 0, e)
    BY GrantsSteps
  <2>4. doc.kind # "object" => M[Fine("toplevel_start", 0, e)][FirstToken(doc)] \in Stuck(G, n)
    BY <1>1, <2>1, GrantsRejects
  <2> HIDE DEF M, good
  <2>. QED
    BY <1>4, <1>5, <2>2, <2>3, <2>4 DEF ReadsFields, last
<1>7. good = 1..n /\ doc.kind = "object" <=> WellFormedGrants(doc)
  <2>1. CASE doc.kind = "object"
    <3>1. ASSUME NEW i \in 1..n
          PROVE  i \in good <=> /\ doc.parts[i].value.kind = "array"
                                /\ \A j \in DOMAIN doc.parts[i].value.parts :
                                     doc.parts[i].value.parts[j].kind = "string"
      BY DEF GoodRole, Strung, Inner
    <3>. QED
      BY <1>1, <2>1, <3>1 DEF WellFormedGrants, ObjectOf
  <2>2. CASE doc.kind # "object"
    BY <2>2 DEF WellFormedGrants, ObjectOf
  <2>. QED
    BY <2>1, <2>2
<1>8. doc.kind = "object" => read[n] = GrantsRead(doc, e, n)
  BY <1>1
<1>9. good \in SUBSET (1..n) /\ Machine(M, G, n)
  BY <1>1, GrantsClose
<1> HIDE DEF read, good, M
<1>10. Outcome(Run(M, StartParse(read[0]), Tokens(doc)), doc.kind = "object" /\ good = 1..Len(doc.parts),
               Fine("toplevel_field", Len(doc.parts), read[Len(doc.parts)]), Stuck(G, Len(doc.parts)))
  BY <1>4, <1>6, <1>9, RunOverDocument
<1>. QED
  BY <1>1, <1>3, <1>4, <1>7, <1>8, <1>10 DEF Outcome, M

-----------------------------------------------------------------------------
(* The last value given to a field *)

LastUpTo(val, k, name, default) ==
  LET given == {i \in 1..k : val.parts[i].name = name}
  IN  IF given = {} THEN default ELSE val.parts[Max(given)].value.text

\* The last value of a field grows with the parts, and is LastGiven at the end.
LEMMA LastIsGiven ==
  ASSUME NEW S, NEW val \in Nested(Nested(S)), val.kind = "object",
         NEW k \in 0..Len(val.parts), NEW name, NEW default
  PROVE  /\ LastUpTo(val, k, name, default) \in Strings \cup {default}
         /\ k = 0 => LastUpTo(val, k, name, default) = default
         /\ k # 0 /\ val.parts[k].name = name =>
              LastUpTo(val, k, name, default) = val.parts[k].value.text
         /\ k # 0 /\ val.parts[k].name # name =>
              LastUpTo(val, k, name, default) = LastUpTo(val, k - 1, name, default)
         /\ k = Len(val.parts) =>
              LastUpTo(val, k, name, default) = LastGiven(val.parts, name, default)
<1> DEFINE given == {i \in 1..k : val.parts[i].name = name}
<1>1. k \in Nat /\ given \in SUBSET (1..k) /\ DOMAIN val.parts = 1..Len(val.parts)
      /\ \A i \in 1..k : Inner(val, i) \in Nested(S) /\ Inner(val, i) = val.parts[i].value
  BY NestedKinds DEF Inner
<1>2. \A i \in 1..k : val.parts[i].value.text \in Strings
  <2>1. ASSUME NEW i \in 1..k PROVE val.parts[i].value.text \in Strings
    <3>1. Inner(val, i) \in Nested(S)
      BY <1>1
    <3>2. Inner(val, i).text \in Strings
      BY <3>1, NestedKinds
    <3>. QED
      BY <1>1, <3>2
  <2>. QED
    BY <2>1
<1>3. given # {} => Max(given) \in given /\ \A i \in given : i <= Max(given)
  <2> HIDE DEF given
  <2>. QED
    BY <1>1, MaxOfSome
<1>4. LastUpTo(val, k, name, default) \in Strings \cup {default}
  BY <1>2, <1>3 DEF LastUpTo
<1>5. k = 0 => LastUpTo(val, k, name, default) = default
  BY DEF LastUpTo
<1>6. k # 0 /\ val.parts[k].name = name =>
        LastUpTo(val, k, name, default) = val.parts[k].value.text
  <2>1. ASSUME k # 0, val.parts[k].name = name PROVE given # {} /\ Max(given) = k
    <3>1. k \in given
      BY <1>1, <2>1
    <3>2. Max(given) \in 1..k /\ k <= Max(given)
      BY <1>1, <1>3, <3>1
    <3>. QED
      BY <1>1, <3>1, <3>2
  <2>. QED
    BY <2>1 DEF LastUpTo
<1>7. k # 0 /\ val.parts[k].name # name =>
        LastUpTo(val, k, name, default) = LastUpTo(val, k - 1, name, default)
  <2>1. k # 0 /\ val.parts[k].name # name => given = {i \in 1..k - 1 : val.parts[i].name = name}
    BY <1>1
  <2>. QED
    BY <2>1 DEF LastUpTo
<1>8. k = Len(val.parts) =>
        LastUpTo(val, k, name, default) = LastGiven(val.parts, name, default)
  BY <1>1 DEF LastUpTo, LastGiven
<1>. QED
  BY <1>4, <1>5, <1>6, <1>7, <1>8

-----------------------------------------------------------------------------
(* extensions_parameter_overrides *)

WithName(e, n, name) == [e EXCEPT ![n].name = name]

WithSchema(e, n, schema) == [e EXCEPT ![n].schema = schema]

\* The tokens in place, one by one.
LEMMA OverridesSteps ==
  ASSUME NEW n \in Nat, NEW e \in [Slots -> O]
  PROVE  /\ OverridesMachine[Fine("toplevel_start", n, e)][Token("object_start", Unset)]
              = Fine("toplevel_field", n, e)
         /\ \A name \in Texts :
              OverridesMachine[Fine("toplevel_field", n, e)][Token("field", name)]
                = Fine("overrides_start", n, WithName(e, n, name))
         /\ OverridesMachine[Fine("overrides_start", n, e)][Token("object_start", Unset)]
              = Fine("overrides_start", n, e)
         /\ \A name \in Texts : name = "schema" =>
              OverridesMachine[Fine("overrides_start", n, e)][Token("field", name)]
                = Fine("schema", n, e)
         /\ \A text \in Strings :
              OverridesMachine[Fine("schema", n, e)][Token("string", text)]
                = Fine("overrides_start", n, WithSchema(e, n, text))
         /\ OverridesMachine[Fine("overrides_start", n, e)][Token("object_end", Unset)]
              = Fine("toplevel_field", n + 1, e)
         /\ OverridesMachine[Fine("toplevel_field", n, e)][Token("object_end", Unset)]
              = Fine("toplevel_field", n, e)
<1>1. ASSUME NEW state \in States, NEW kind \in TokenKinds, NEW text \in Strings
      PROVE  OverridesMachine[Fine(state, n, e)][Token(kind, text)]
               = OverridesToken(Fine(state, n, e), Token(kind, text))
  <2>1. Fine(state, n, e) \in Parses(O)
    BY FineType
  <2>2. Token(kind, text) \in TokenSet
    BY DEF Token, TokenSet
  <2>. QED
    BY <2>1, <2>2, OverridesClose
<1>2. {"toplevel_start", "toplevel_field", "overrides_start", "schema"} \subseteq States
  BY DEF States
<1>3. /\ {"object_start", "field", "string", "object_end"} \subseteq TokenKinds
      /\ Unset \in Strings /\ \A name \in Texts : name \in Strings
  BY DEF TokenKinds, Strings
<1>4. OverridesToken(Fine("toplevel_start", n, e), Token("object_start", Unset)) = Fine("toplevel_field", n, e)
  BY DEF OverridesToken, OverridesObjectStart, Fine, Token
<1>5. ASSUME NEW name \in Texts
      PROVE  OverridesToken(Fine("toplevel_field", n, e), Token("field", name))
               = Fine("overrides_start", n, WithName(e, n, name))
  BY DEF OverridesToken, OverridesFieldStart, Fine, Token, WithName
<1>6. OverridesToken(Fine("overrides_start", n, e), Token("object_start", Unset)) = Fine("overrides_start", n, e)
  BY DEF OverridesToken, OverridesObjectStart, Fine, Token
<1>7. OverridesToken(Fine("overrides_start", n, e), Token("field", "schema")) = Fine("schema", n, e)
  BY DEF OverridesToken, OverridesFieldStart, Fine, Token
<1>8. ASSUME NEW text \in Strings
      PROVE  OverridesToken(Fine("schema", n, e), Token("string", text))
               = Fine("overrides_start", n, WithSchema(e, n, text))
  BY DEF OverridesToken, OverridesScalar, Fine, Token, WithSchema
<1>9. OverridesToken(Fine("overrides_start", n, e), Token("object_end", Unset)) = Fine("toplevel_field", n + 1, e)
  BY DEF OverridesToken, OverridesObjectEnd, Fine, Token
<1>10. OverridesToken(Fine("toplevel_field", n, e), Token("object_end", Unset)) = Fine("toplevel_field", n, e)
  BY DEF OverridesToken, OverridesObjectEnd, Fine, Token
<1>. QED
  BY <1>1, <1>2, <1>3, <1>4, <1>5, <1>6, <1>7, <1>8, <1>9, <1>10

\* The tokens out of place.
LEMMA OverridesRejects ==
  ASSUME NEW n \in Nat, NEW m \in Nat, n <= m, NEW e \in [Slots -> O]
  PROVE  /\ \A S : \A val \in Nested(S) :
              /\ val.kind # "object" =>
                   OverridesMachine[Fine("toplevel_start", n, e)][FirstToken(val)] \in Stuck(O, m)
              /\ val.kind # "object" =>
                   OverridesMachine[Fine("overrides_start", n, e)][FirstToken(val)] \in Stuck(O, m)
              /\ val.kind # "string" =>
                   OverridesMachine[Fine("schema", n, e)][FirstToken(val)] \in Stuck(O, m)
         /\ \A name \in Texts : name # "schema" =>
              OverridesMachine[Fine("overrides_start", n, e)][Token("field", name)] \in Stuck(O, m)
<1>1. ASSUME NEW state \in {"toplevel_start", "overrides_start", "schema"}, NEW t \in TokenSet
      PROVE  /\ OverridesMachine[Fine(state, n, e)][t] = OverridesToken(Fine(state, n, e), t)
             /\ Reject(Fine(state, n, e)) \in Stuck(O, m)
             /\ Fine(state, n, e).state = state
  <2>1. state \in States
    BY DEF States
  <2>2. Fine(state, n, e) \in Parses(O) /\ Reject(Fine(state, n, e)) \in Stuck(O, m)
    BY <2>1, FineType
  <2>. QED
    BY <2>2, OverridesClose DEF Fine
<1>2. ASSUME NEW S, NEW val \in Nested(S)
      PROVE  /\ val.kind # "object" =>
                  OverridesMachine[Fine("toplevel_start", n, e)][FirstToken(val)] \in Stuck(O, m)
             /\ val.kind # "object" =>
                  OverridesMachine[Fine("overrides_start", n, e)][FirstToken(val)] \in Stuck(O, m)
             /\ val.kind # "string" =>
                  OverridesMachine[Fine("schema", n, e)][FirstToken(val)] \in Stuck(O, m)
  <2> DEFINE t == FirstToken(val)
  <2>1. /\ t \in TokenSet
        /\ val.kind = "array" => t.kind = "array_start"
        /\ val.kind = "object" => t.kind = "object_start"
        /\ val.kind \in {"string", "number"} => t.kind = val.kind
        /\ val.kind \in {"string", "number", "array", "object"}
    BY FirstTokens DEF Token
  <2> HIDE DEF t
  <2>2. val.kind # "object" =>
          OverridesToken(Fine("toplevel_start", n, e), t) = Reject(Fine("toplevel_start", n, e))
    BY <1>1, <2>1 DEF OverridesToken, OverridesScalar
  <2>3. val.kind # "object" =>
          OverridesToken(Fine("overrides_start", n, e), t) = Reject(Fine("overrides_start", n, e))
    BY <1>1, <2>1 DEF OverridesToken, OverridesScalar
  <2>4. val.kind # "string" =>
          OverridesToken(Fine("schema", n, e), t) = Reject(Fine("schema", n, e))
    BY <1>1, <2>1 DEF OverridesToken, OverridesObjectStart, OverridesScalar
  <2>. QED
    BY <1>1, <2>1, <2>2, <2>3, <2>4 DEF t
<1>3. ASSUME NEW name \in Texts, name # "schema"
      PROVE  OverridesMachine[Fine("overrides_start", n, e)][Token("field", name)] \in Stuck(O, m)
  <2>1. Token("field", name) \in TokenSet
    BY DEF Token, TokenSet, TokenKinds, Strings
  <2>2. OverridesToken(Fine("overrides_start", n, e), Token("field", name))
          = Reject(Fine("overrides_start", n, e))
    BY <1>1, <1>3, <2>1 DEF OverridesToken, OverridesFieldStart, Token
  <2>. QED
    BY <1>1, <2>1, <2>2
<1>. QED
  BY <1>2, <1>3

GoodParam(param) == param.name = "schema" /\ param.value.kind = "string"

\* A parameter of an extension: its schema, or an error.
LEMMA OverridesParam ==
  ASSUME NEW param \in Fields(Level1), NEW n \in Slots, NEW m \in Nat, n <= m, NEW e \in [Slots -> O]
  PROVE  Outcome(Run(OverridesMachine, Fine("overrides_start", n, e),
                     <<Token("field", param.name)>> \o Tokens1(param.value)),
                 GoodParam(param),
                 Fine("overrides_start", n, WithSchema(e, n, param.value.text)),
                 Stuck(O, m))
<1> DEFINE M == OverridesMachine
    name == param.name
    val == param.value
    c == Fine("overrides_start", n, e)
    c1 == Fine("schema", n, e)
    f == Token("field", name)
    t == FirstToken(val)
    s == Tokens1(val)
<1>1. n \in Nat /\ {"overrides_start", "schema"} \subseteq States /\ name \in Texts /\ val \in Level1
  BY SlotsAssumption DEF States, Fields
<1>2. Closed(M, Parses(O), TokenSet) /\ Closed(M, Stuck(O, m), TokenSet) /\ Stuck(O, m) \subseteq Parses(O)
  BY OverridesClose DEF Machine, Stuck
<1>3. c \in Parses(O) /\ c1 \in Parses(O)
  BY <1>1, FineType
<1> HIDE DEF name, val
<1>4. f \in TokenSet /\ t \in TokenSet /\ s \in Seq(TokenSet)
  BY <1>1, LevelTokens, FirstTokens DEF Token, TokenSet, TokenKinds, Strings, Level1
<1>5. Run(M, c, <<f>> \o s) = Run(M, M[c][f], s)
  <2> HIDE DEF M, c, f, s
  <2>. QED
    BY <1>2, <1>3, <1>4, RunWrapped
<1>6. CASE name # "schema"
  <2>1. M[c][f] \in Stuck(O, m)
    BY <1>1, <1>6, OverridesRejects
  <2> HIDE DEF M, c, f, s
  <2>2. Run(M, c, <<f>> \o s) \in Stuck(O, m)
    BY <1>2, <1>3, <1>4, <2>1, DecidedAtOnce
  <2>. QED
    BY <1>6, <2>2 DEF Outcome, GoodParam, M, c, f, s, name, val
<1>7. CASE name = "schema" /\ val.kind # "string"
  <2>1. M[c][f] = c1
    BY <1>1, <1>7, OverridesSteps
  <2>2. M[c1][t] \in Stuck(O, m)
    BY <1>1, <1>7, OverridesRejects DEF Level1
  <2>3. PICK others \in Seq(TokenSet) : s = <<t>> \o others
    BY <1>1, LevelTokens DEF Starts
  <2> HIDE DEF M, c, c1, f, s, t
  <2>4. Run(M, c1, <<t>> \o others) \in Stuck(O, m)
    BY <1>2, <1>3, <1>4, <2>2, DecidedAtOnce
  <2>. QED
    BY <1>5, <1>7, <2>1, <2>3, <2>4 DEF Outcome, GoodParam, M, c, f, s, name, val
<1>8. CASE name = "schema" /\ val.kind = "string"
  <2>1. M[c][f] = c1
    BY <1>1, <1>8, OverridesSteps
  <2>2. s = <<t>> /\ t = Token("string", val.text) /\ val.text \in Strings
    BY <1>1, <1>8, FirstTokens DEF Tokens1, TokensWith, Level1
  <2>3. M[c1][t] = Fine("overrides_start", n, WithSchema(e, n, val.text))
    <3> HIDE DEF t
    <3>. QED
      BY <1>1, <2>2, OverridesSteps
  <2> HIDE DEF M, c, c1, f, s, t
  <2>4. Run(M, c1, <<t>>) = M[c1][t]
    BY <1>2, <1>3, <1>4, RunOne
  <2>. QED
    BY <1>5, <1>8, <2>1, <2>2, <2>3, <2>4 DEF Outcome, GoodParam, M, c, f, s, name, val
<1>. QED
  BY <1>6, <1>7, <1>8

GoodExtension(val) ==
  val.kind = "object" /\ \A i \in DOMAIN val.parts : GoodParam(val.parts[i])

\* What a field makes of the entry n.
WithOverrides(e, n, name, val) ==
  [e EXCEPT ![n] = OverridesEntry(name, LastUpTo(val, Len(val.parts), "schema", @.schema))]

\* A field of extensions_parameter_overrides.
LEMMA OverridesField ==
  ASSUME NEW name \in Texts, NEW val \in Level2, NEW n \in Slots, NEW m \in Nat, n <= m,
         NEW e \in [Slots -> O]
  PROVE  Outcome(Run(OverridesMachine, Fine("toplevel_field", n, e),
                     <<Token("field", name)>> \o Tokens2(val)),
                 GoodExtension(val),
                 Fine("toplevel_field", n + 1, WithOverrides(e, n, name, val)),
                 Stuck(O, m))
<1> DEFINE M == OverridesMachine
    c == Fine("toplevel_field", n, e)
    f == Token("field", name)
    s == Tokens2(val)
    e1 == WithName(e, n, name)
    c1 == Fine("overrides_start", n, e1)
    t == FirstToken(val)
    S == Stuck(O, m)
<1>1. /\ n \in Nat /\ {"toplevel_field", "overrides_start"} \subseteq States /\ name \in Strings
      /\ Len(val.parts) \in Nat /\ DOMAIN val.parts = 1..Len(val.parts)
      /\ val.kind = "object" => val.parts \in Seq(Fields(Level1))
  BY NestedKinds, SlotsAssumption DEF States, Strings, Level2
<1>2. e1 \in [Slots -> O] /\ e1 = [e EXCEPT ![n] = OverridesEntry(name, e[n].schema)]
  <2>1. [e[n] EXCEPT !.name = name] = OverridesEntry(name, e[n].schema) /\ e[n].schema \in Strings
    BY DEF O, OverridesEntries, OverridesEntry
  <2>2. OverridesEntry(name, e[n].schema) \in O
    BY <1>1, <2>1 DEF O, OverridesEntries, OverridesEntry
  <2>. QED
    BY <2>1, <2>2 DEF WithName
<1>3. Closed(M, Parses(O), TokenSet) /\ Closed(M, S, TokenSet) /\ S \subseteq Parses(O)
  BY OverridesClose DEF Machine, Stuck
<1>4. c \in Parses(O) /\ c1 \in Parses(O)
  BY <1>1, <1>2, FineType
<1>5. M[c][f] = c1 /\ f \in TokenSet /\ s \in Seq(TokenSet)
  BY <1>1, OverridesSteps, LevelTokens DEF Token, TokenSet, TokenKinds, Strings
<1>6. Run(M, c, <<f>> \o s) = Run(M, c1, s)
  <2> HIDE DEF M, c, f, s, c1
  <2>. QED
    BY <1>3, <1>4, <1>5, RunWrapped
<1>7. CASE val.kind # "object"
  <2>1. M[c1][t] \in S /\ t \in TokenSet
    BY <1>1, <1>2, <1>7, OverridesRejects, FirstTokens DEF Level2
  <2>2. PICK others \in Seq(TokenSet) : s = <<t>> \o others
    BY LevelTokens DEF Starts
  <2> HIDE DEF M, c1, t, S
  <2>3. Run(M, c1, <<t>> \o others) \in S
    BY <1>3, <1>4, <2>1, DecidedAtOnce
  <2>. QED
    BY <1>6, <1>7, <2>2, <2>3 DEF Outcome, GoodExtension, M, S
<1>8. CASE val.kind = "object"
  <2> DEFINE inside == [i \in DOMAIN val.parts |-> Tokens1(Inner(val, i))]
      k0 == Len(val.parts)
      E(k) == [e EXCEPT ![n] = OverridesEntry(name, LastUpTo(val, k, "schema", e[n].schema))]
      g == [k \in 0..k0 |-> Fine("overrides_start", n, E(k))]
      good == {i \in 1..k0 : GoodParam(val.parts[i])}
  <2>1. ASSUME NEW k \in 0..k0
        PROVE  E(k) \in [Slots -> O] /\ E(k)[n] = OverridesEntry(name, LastUpTo(val, k, "schema", e[n].schema))
    <3>1. e[n].schema \in Strings
      BY DEF O, OverridesEntries
    <3>2. LastUpTo(val, k, "schema", e[n].schema) \in Strings
      BY <1>8, <3>1, LastIsGiven DEF Level1, Level2
    <3>3. OverridesEntry(name, LastUpTo(val, k, "schema", e[n].schema)) \in O
      BY <1>1, <3>2 DEF O, OverridesEntries, OverridesEntry
    <3>. QED
      BY <3>3
  <2>2. E(0) = e1
    <3>1. 0 \in 0..k0
      BY <1>1
    <3>2. LastUpTo(val, 0, "schema", e[n].schema) = e[n].schema
      BY <1>8, <3>1, LastIsGiven DEF Level1, Level2
    <3>. QED
      BY <1>2, <3>2
  <2>3. g \in [0..k0 -> Parses(O)] /\ g[0] = c1
    <3> HIDE DEF E, e1, k0
    <3>1. \A k \in 0..k0 : Fine("overrides_start", n, E(k)) \in Parses(O)
      BY <1>1, <2>1, FineType
    <3>. QED
      BY <1>1, <2>2, <3>1 DEF k0
  <2>4. inside \in Seq(Seq(TokenSet)) /\ Len(inside) = k0 /\ s = TokensWith(val, inside)
    <3>1. inside \in Seq(Seq(TokenSet))
      BY LevelTokens
    <3>. QED
      BY <1>1, <3>1 DEF Tokens2
  <2>5. \A k \in 1..k0 : inside[k] = Tokens1(val.parts[k].value)
    BY <1>1, <1>8 DEF Inner
  <2> HIDE DEF inside, E
  <2>6. ExpectedFields(g, M, val, inside, good, S)
    <3>1. ASSUME NEW k \in 1..k0
          PROVE  Outcome(Run(M, g[k - 1], <<Token("field", val.parts[k].name)>> \o inside[k]),
                         k \in good, g[k], S)
      <4> DEFINE param == val.parts[k]
          before == E(k - 1)
      <4>1. k \in 0..k0 /\ k - 1 \in 0..k0 /\ param \in Fields(Level1) /\ (k \in good <=> GoodParam(param))
        BY <1>1, <1>8
      <4>2. before \in [Slots -> O] /\ g[k - 1] = Fine("overrides_start", n, before)
            /\ g[k] = Fine("overrides_start", n, E(k))
        BY <2>1, <4>1
      <4>3. GoodParam(param) => WithSchema(before, n, param.value.text) = E(k)
        <5>1. GoodParam(param) => LastUpTo(val, k, "schema", e[n].schema) = param.value.text
          BY <1>1, <1>8, <4>1, LastIsGiven DEF GoodParam, Level1, Level2
        <5>2. PICK schema : before[n] = OverridesEntry(name, schema)
          BY <2>1, <4>1
        <5>3. [before[n] EXCEPT !.schema = param.value.text] = OverridesEntry(name, param.value.text)
          BY <5>2 DEF OverridesEntry
        <5>. QED
          BY <5>1, <5>3 DEF WithSchema, E
      <4> HIDE DEF param, before, g, good, M, S
      <4>4. Outcome(Run(OverridesMachine, Fine("overrides_start", n, before),
                        <<Token("field", param.name)>> \o Tokens1(param.value)),
                    GoodParam(param),
                    Fine("overrides_start", n, WithSchema(before, n, param.value.text)),
                    Stuck(O, m))
        BY <4>1, <4>2, OverridesParam
      <4>. QED
        BY <2>5, <4>1, <4>2, <4>3, <4>4 DEF Outcome, param, M, S
    <3>. QED
      BY <3>1 DEF ExpectedFields
  <2>7. Outcome(Run(M, c1, s), good = 1..k0, M[g[k0]][Token("object_end", Unset)], S)
    <3>1. good \in SUBSET (1..k0) /\ M[c1][Token("object_start", Unset)] = g[0]
      BY <1>1, <1>2, <2>3, OverridesSteps
    <3> HIDE DEF g, good, M, S, c1, k0
    <3>2. Outcome(Run(M, c1, TokensWith(val, inside)), good = 1..Len(val.parts),
                  M[g[Len(val.parts)]][Token("object_end", Unset)], S)
      BY <1>3, <1>4, <1>8, <2>3, <2>4, <2>6, <3>1, RunOverObject DEF Level2, k0
    <3>. QED
      BY <2>4, <3>2 DEF k0
  <2>8. M[g[k0]][Token("object_end", Unset)] = Fine("toplevel_field", n + 1, WithOverrides(e, n, name, val))
    <3> DEFINE last == E(k0)
    <3>1. last \in [Slots -> O] /\ g[k0] = Fine("overrides_start", n, last)
      BY <1>1, <2>1
    <3>2. last = WithOverrides(e, n, name, val)
      BY DEF WithOverrides, E
    <3> HIDE DEF last, g
    <3>. QED
      BY <1>1, <3>1, <3>2, OverridesSteps
  <2>9. good = 1..k0 <=> GoodExtension(val)
    BY <1>1, <1>8 DEF GoodExtension
  <2> HIDE DEF M, g, good, S, s
  <2>. QED
    BY <1>6, <2>7, <2>8, <2>9 DEF Outcome, M, S, s
<1>. QED
  BY <1>7, <1>8

\* The array after the first k fields of a document.
OverridesRead(doc, e, k) ==
  [i \in Slots |->
     IF i < k /\ doc.parts[i + 1].value.kind = "object"
       THEN OverridesEntry(doc.parts[i + 1].name,
              LastUpTo(doc.parts[i + 1].value, Len(doc.parts[i + 1].value.parts), "schema", e[i].schema))
       ELSE e[i]]

\* A document of extensions_parameter_overrides.
LEMMA OverridesDocument ==
  ASSUME NEW doc \in Documents, 0..Len(doc.parts) \subseteq Slots, NEW e \in [Slots -> O]
  PROVE  /\ Outcome(Run(OverridesMachine, StartParse(e), Tokens(doc)),
                    WellFormedOverrides(doc),
                    Fine("toplevel_field", Len(doc.parts), OverridesRead(doc, e, Len(doc.parts))),
                    Stuck(O, Len(doc.parts)))
         /\ doc.kind = "object" => OverridesRead(doc, e, Len(doc.parts)) \in [Slots -> O]
<1> DEFINE M == OverridesMachine
    n == Len(doc.parts)
    read == [k \in 0..n |-> IF doc.kind = "object" THEN OverridesRead(doc, e, k) ELSE e]
    good == {i \in 1..n : GoodExtension(doc.parts[i].value)}
<1>1. /\ n \in Nat /\ DOMAIN doc.parts = 1..n
      /\ doc.kind = "object" => doc.parts \in Seq(Fields(Level2))
      /\ doc \in Nested(Level2)
  BY NestedKinds DEF Documents, Level0, Level1, Level2
<1>2. ASSUME NEW i \in 1..n, doc.kind = "object"
      PROVE  doc.parts[i].name \in Texts /\ doc.parts[i].value \in Level2
  <2>1. doc.parts[i] \in Fields(Level2)
    BY <1>1, <1>2
  <2>. QED
    BY <2>1 DEF Fields
<1>3. ASSUME NEW k \in 0..n, doc.kind = "object"
      PROVE  OverridesRead(doc, e, k) \in [Slots -> O]
  <2>1. ASSUME NEW i \in Slots, i < k, doc.parts[i + 1].value.kind = "object"
        PROVE  OverridesEntry(doc.parts[i + 1].name,
                 LastUpTo(doc.parts[i + 1].value, Len(doc.parts[i + 1].value.parts), "schema", e[i].schema)) \in O
    <3> DEFINE name == doc.parts[i + 1].name
        val == doc.parts[i + 1].value
    <3>1. i + 1 \in 1..n
      BY <1>1, <2>1, SlotsAssumption
    <3>2. name \in Strings /\ val \in Level2 /\ val.kind = "object" /\ e[i].schema \in Strings
      BY <1>2, <1>3, <2>1, <3>1 DEF Strings, O, OverridesEntries
    <3> HIDE DEF name, val
    <3>3. LastUpTo(val, Len(val.parts), "schema", e[i].schema) \in Strings
      <4>1. Len(val.parts) \in 0..Len(val.parts)
        BY <3>2, NestedKinds DEF Level2
      <4>. QED
        BY <3>2, <4>1, LastIsGiven DEF Level1, Level2
    <3>4. OverridesEntry(name, LastUpTo(val, Len(val.parts), "schema", e[i].schema)) \in O
      BY <3>2, <3>3 DEF OverridesEntry, O, OverridesEntries
    <3>. QED
      BY <3>4 DEF name, val
  <2>. QED
    BY <2>1 DEF OverridesRead
<1>4. read \in [0..n -> [Slots -> O]] /\ read[0] = e
  <2>1. OverridesRead(doc, e, 0) = e
    BY SlotsAssumption DEF OverridesRead
  <2>. QED
    BY <1>1, <1>3, <2>1
<1>5. ASSUME NEW k \in 1..n, doc.kind = "object"
      PROVE  Outcome(Run(M, Fine("toplevel_field", k - 1, read[k - 1]),
                         <<Token("field", doc.parts[k].name)>> \o Tokens2(doc.parts[k].value)),
                     k \in good, Fine("toplevel_field", k, read[k]), Stuck(O, n))
  <2> DEFINE before == read[k - 1]
      name == doc.parts[k].name
      val == doc.parts[k].value
  <2>1. k - 1 \in Slots /\ k - 1 \in Nat /\ k - 1 <= n /\ (k - 1) + 1 = k /\ k - 1 \in 0..n
    BY <1>1
  <2>2. name \in Texts /\ val \in Level2 /\ before \in [Slots -> O] /\ (k \in good <=> GoodExtension(val))
    BY <1>2, <1>4, <1>5, <2>1
  <2>3. val.kind = "object" => WithOverrides(before, k - 1, name, val) = read[k]
    <3>1. before[k - 1] = e[k - 1] /\ before = OverridesRead(doc, e, k - 1) /\ read[k] = OverridesRead(doc, e, k)
      BY <1>1, <1>5, <2>1 DEF OverridesRead
    <3>2. \A i \in Slots : i \in Nat /\ (i < k <=> i < k - 1 \/ i = k - 1)
      BY <1>1, SlotsAssumption
    <3> DEFINE new == OverridesEntry(name, LastUpTo(val, Len(val.parts), "schema", e[k - 1].schema))
        step == [i \in Slots |-> IF i = k - 1 THEN new ELSE before[i]]
    <3> HIDE DEF read
    <3>3. WithOverrides(before, k - 1, name, val) = step
      <4> HIDE DEF before, name, val
      <4>. QED
        BY <2>1, <2>2, <3>1 DEF WithOverrides
    <3>4. ASSUME NEW i \in Slots, val.kind = "object"
          PROVE  OverridesRead(doc, e, k)[i] = step[i]
      <4>1. CASE i = k - 1
        <5>1. OverridesRead(doc, e, k)[i] = new
          BY <2>1, <3>2, <3>4, <4>1 DEF OverridesRead
        <5> HIDE DEF new
        <5>. QED
          BY <4>1, <5>1
      <4>2. CASE i # k - 1
        <5>1. OverridesRead(doc, e, k)[i] = OverridesRead(doc, e, k - 1)[i]
          BY <3>2, <4>2 DEF OverridesRead
        <5> HIDE DEF new, before
        <5>. QED
          BY <3>1, <4>2, <5>1
      <4>. QED
        BY <4>1, <4>2
    <3>5. OverridesRead(doc, e, k) = [i \in Slots |-> OverridesRead(doc, e, k)[i]]
      BY DEF OverridesRead
    <3>6. step = [i \in Slots |-> step[i]]
      OBVIOUS
    <3> HIDE DEF step
    <3>. QED
      BY <3>1, <3>3, <3>4, <3>5, <3>6
  <2> HIDE DEF before, name, val, good
  <2>4. Outcome(Run(OverridesMachine, Fine("toplevel_field", k - 1, before),
                    <<Token("field", name)>> \o Tokens2(val)),
                GoodExtension(val),
                Fine("toplevel_field", (k - 1) + 1, WithOverrides(before, k - 1, name, val)),
                Stuck(O, n))
    BY <1>1, <2>1, <2>2, OverridesField
  <2>. QED
    BY <2>1, <2>2, <2>3, <2>4 DEF Outcome, GoodExtension, before, name, val
<1>6. ReadsFields(M, O, doc, read, good)
  <2> DEFINE last == read[n]
  <2>1. last \in [Slots -> O] /\ 0 <= n
    BY <1>1, <1>4
  <2> HIDE DEF last, read
  <2>2. M[Fine("toplevel_field", n, last)][Token("object_end", Unset)] = Fine("toplevel_field", n, last)
    BY <1>1, <2>1, OverridesSteps
  <2>3. M[Fine("toplevel_start", 0, e)][Token("object_start", Unset)] = Fine("toplevel_field", 0, e)
    BY OverridesSteps
  <2>4. doc.kind # "object" => M[Fine("toplevel_start", 0, e)][FirstToken(doc)] \in Stuck(O, n)
    BY <1>1, <2>1, OverridesRejects
  <2> HIDE DEF M, good
  <2>. QED
    BY <1>4, <1>5, <2>2, <2>3, <2>4 DEF ReadsFields, last
<1>7. good = 1..n /\ doc.kind = "object" <=> WellFormedOverrides(doc)
  <2>1. CASE doc.kind = "object"
    <3>1. ASSUME NEW i \in 1..n
          PROVE  i \in good <=> GoodExtension(doc.parts[i].value)
      OBVIOUS
    <3>2. WellFormedOverrides(doc) <=> \A i \in DOMAIN doc.parts : GoodExtension(doc.parts[i].value)
      BY <2>1 DEF WellFormedOverrides, ObjectOf, GoodExtension, GoodParam
    <3>3. DOMAIN doc.parts = 1..n /\ good \subseteq 1..n
      BY <1>1
    <3> HIDE DEF good, n
    <3>. QED
      BY <2>1, <3>1, <3>2, <3>3
  <2>2. CASE doc.kind # "object"
    BY <2>2 DEF WellFormedOverrides, ObjectOf
  <2>. QED
    BY <2>1, <2>2
<1>8. doc.kind = "object" => read[n] = OverridesRead(doc, e, n)
  BY <1>1
<1>9. good \in SUBSET (1..n) /\ Machine(M, O, n)
  BY <1>1, OverridesClose
<1> HIDE DEF read, good, M
<1>10. Outcome(Run(M, StartParse(read[0]), Tokens(doc)), doc.kind = "object" /\ good = 1..Len(doc.parts),
               Fine("toplevel_field", Len(doc.parts), read[Len(doc.parts)]), Stuck(O, Len(doc.parts)))
  BY <1>4, <1>6, <1>9, RunOverDocument
<1>. QED
  BY <1>1, <1>3, <1>4, <1>7, <1>8, <1>10 DEF Outcome, M

-----------------------------------------------------------------------------
(* constrained_extensions *)

KindOf(resource) == IF resource = "cpu" THEN "number" ELSE "string"

WithLimit(e, n, resource, limit) == [e EXCEPT ![n].limits[resource] = limit]

\* The tokens in place, one by one.
LEMMA ConstraintsSteps ==
  ASSUME NEW n \in Nat, NEW e \in [Slots -> L]
  PROVE  /\ ConstraintsMachine[Fine("toplevel_start", n, e)][Token("object_start", Unset)]
              = Fine("toplevel_field", n, e)
         /\ \A name \in Texts :
              ConstraintsMachine[Fine("toplevel_field", n, e)][Token("field", name)]
                = Fine("constraints_start", n, WithName(e, n, name))
         /\ ConstraintsMachine[Fine("constraints_start", n, e)][Token("object_start", Unset)]
              = Fine("constraints_start", n, e)
         /\ \A name \in Texts : name \in Resources =>
              ConstraintsMachine[Fine("constraints_start", n, e)][Token("field", name)]
                = Fine(name, n, e)
         /\ \A name \in Resources, text \in Strings : text # Unset =>
              ConstraintsMachine[Fine(name, n, e)][Token(KindOf(name), text)]
                = Fine("constraints_start", n, WithLimit(e, n, name, text))
         /\ ConstraintsMachine[Fine("constraints_start", n, e)][Token("object_end", Unset)]
              = Fine("toplevel_field", n + 1, e)
         /\ ConstraintsMachine[Fine("toplevel_field", n, e)][Token("object_end", Unset)]
              = Fine("toplevel_field", n, e)
<1>1. ASSUME NEW state \in States, NEW kind \in TokenKinds, NEW text \in Strings
      PROVE  ConstraintsMachine[Fine(state, n, e)][Token(kind, text)]
               = ConstrainedToken(Fine(state, n, e), Token(kind, text))
  <2>1. Fine(state, n, e) \in Parses(L)
    BY FineType
  <2>2. Token(kind, text) \in TokenSet
    BY DEF Token, TokenSet
  <2>. QED
    BY <2>1, <2>2, ConstraintsClose
<1>2. /\ {"toplevel_start", "toplevel_field", "constraints_start"} \subseteq States
      /\ Resources \subseteq States
      /\ {"toplevel_start", "toplevel_field", "constraints_start"} \cap Resources = {}
  BY DEF States, Resources
<1>3. /\ {"object_start", "field", "string", "number", "object_end"} \subseteq TokenKinds
      /\ Unset \in Strings /\ \A name \in Texts : name \in Strings
  BY DEF TokenKinds, Strings
<1>4. ConstrainedToken(Fine("toplevel_start", n, e), Token("object_start", Unset)) = Fine("toplevel_field", n, e)
  BY <1>2 DEF ConstrainedToken, ConstrainedObjectStart, Fine, Token
<1>5. ASSUME NEW name \in Texts
      PROVE  ConstrainedToken(Fine("toplevel_field", n, e), Token("field", name))
               = Fine("constraints_start", n, WithName(e, n, name))
  BY DEF ConstrainedToken, ConstrainedFieldStart, Fine, Token, WithName
<1>6. ConstrainedToken(Fine("constraints_start", n, e), Token("object_start", Unset))
        = Fine("constraints_start", n, e)
  BY <1>2 DEF ConstrainedToken, ConstrainedObjectStart, Fine, Token
<1>7. ASSUME NEW name \in Resources
      PROVE  ConstrainedToken(Fine("constraints_start", n, e), Token("field", name)) = Fine(name, n, e)
  BY <1>7 DEF ConstrainedToken, ConstrainedFieldStart, Fine, Token
<1>8. ASSUME NEW name \in Resources, NEW text \in Strings, text # Unset
      PROVE  ConstrainedToken(Fine(name, n, e), Token(KindOf(name), text))
               = Fine("constraints_start", n, WithLimit(e, n, name, text))
  <2> DEFINE p == Fine(name, n, e)
  <2>1. /\ p.state = name /\ p.total = n /\ p.entries = e /\ p.error = FALSE
        /\ p = [state |-> p.state, error |-> p.error, total |-> p.total, entries |-> p.entries]
    BY DEF Fine
  <2> HIDE DEF p
  <2>2. ConstrainedToken(p, Token(KindOf(name), text)) = ConstrainedScalar(p, KindOf(name), text)
    BY DEF ConstrainedToken, Token, KindOf
  <2>3. ConstrainedScalar(p, KindOf(name), text)
          = [state |-> "constraints_start", error |-> p.error, total |-> p.total,
             entries |-> [p.entries EXCEPT ![p.total].limits[p.state] = text]]
    <3> DEFINE kind == KindOf(name)
    <3>1. p.state \in Resources /\ kind = (IF p.state = "cpu" THEN "number" ELSE "string")
      BY <2>1 DEF KindOf
    <3>2. p = [state |-> p.state, error |-> p.error, total |-> p.total, entries |-> p.entries]
      BY <2>1
    <3> DEFINE r == ConstrainedScalar(p, kind, text)
        entries == [p.entries EXCEPT ![p.total].limits[p.state] = text]
    <3> HIDE DEF kind
    <3>3. r = [state |-> "constraints_start", error |-> p.error, total |-> p.total, entries |-> entries]
      BY <1>2, <1>8, <3>1, <3>2 DEF ConstrainedScalar
    <3>. QED
      BY <3>3 DEF kind
  <2>4. ConstrainedScalar(p, KindOf(name), text) = Fine("constraints_start", n, WithLimit(e, n, name, text))
    BY <2>1, <2>3 DEF Fine, WithLimit
  <2>. QED
    BY <2>2, <2>4 DEF p
<1>9. ConstrainedToken(Fine("constraints_start", n, e), Token("object_end", Unset))
      = Fine("toplevel_field", n + 1, e)
  BY DEF ConstrainedToken, ConstrainedObjectEnd, Fine, Token
<1>10. ConstrainedToken(Fine("toplevel_field", n, e), Token("object_end", Unset)) = Fine("toplevel_field", n, e)
  BY DEF ConstrainedToken, ConstrainedObjectEnd, Fine, Token
<1>11. \A name \in Resources : KindOf(name) \in TokenKinds
  BY <1>3 DEF KindOf
<1>. QED
  BY <1>1, <1>2, <1>3, <1>4, <1>5, <1>6, <1>7, <1>8, <1>9, <1>10, <1>11

\* The tokens out of place.
LEMMA ConstraintsRejects ==
  ASSUME NEW n \in Nat, NEW m \in Nat, n <= m, NEW e \in [Slots -> L]
  PROVE  /\ \A S : \A val \in Nested(S) :
              /\ val.kind # "object" =>
                   ConstraintsMachine[Fine("toplevel_start", n, e)][FirstToken(val)] \in Stuck(L, m)
              /\ val.kind # "object" =>
                   ConstraintsMachine[Fine("constraints_start", n, e)][FirstToken(val)] \in Stuck(L, m)
              /\ \A name \in Resources : val.kind # KindOf(name) \/ val.text = Unset =>
                   ConstraintsMachine[Fine(name, n, e)][FirstToken(val)] \in Stuck(L, m)
         /\ \A name \in Texts : name \notin Resources =>
              ConstraintsMachine[Fine("constraints_start", n, e)][Token("field", name)] \in Stuck(L, m)
<1>1. ASSUME NEW state \in {"toplevel_start", "constraints_start"} \cup Resources, NEW t \in TokenSet
      PROVE  /\ ConstraintsMachine[Fine(state, n, e)][t] = ConstrainedToken(Fine(state, n, e), t)
             /\ Reject(Fine(state, n, e)) \in Stuck(L, m)
             /\ Fine(state, n, e).state = state
             /\ state \in Resources => state \notin {"toplevel_start", "constraints_start"}
  <2>1. state \in States
    BY DEF States
  <2>2. Fine(state, n, e) \in Parses(L) /\ Reject(Fine(state, n, e)) \in Stuck(L, m)
    BY <2>1, FineType
  <2>. QED
    BY <2>2, ConstraintsClose DEF Fine, Resources
<1>2. ASSUME NEW S, NEW val \in Nested(S)
      PROVE  /\ val.kind # "object" =>
                  ConstraintsMachine[Fine("toplevel_start", n, e)][FirstToken(val)] \in Stuck(L, m)
             /\ val.kind # "object" =>
                  ConstraintsMachine[Fine("constraints_start", n, e)][FirstToken(val)] \in Stuck(L, m)
             /\ \A name \in Resources : val.kind # KindOf(name) \/ val.text = Unset =>
                  ConstraintsMachine[Fine(name, n, e)][FirstToken(val)] \in Stuck(L, m)
  <2> DEFINE t == FirstToken(val)
  <2>1. /\ t \in TokenSet
        /\ val.kind = "array" => t.kind = "array_start"
        /\ val.kind = "object" => t.kind = "object_start"
        /\ val.kind \in {"string", "number"} => t.kind = val.kind /\ t.text = val.text
        /\ val.kind \in {"string", "number", "array", "object"}
    BY FirstTokens DEF Token
  <2> HIDE DEF t
  <2>2. val.kind # "object" =>
          ConstrainedToken(Fine("toplevel_start", n, e), t) = Reject(Fine("toplevel_start", n, e))
    BY <1>1, <2>1 DEF ConstrainedToken, ConstrainedScalar, Resources
  <2>3. val.kind # "object" =>
          ConstrainedToken(Fine("constraints_start", n, e), t) = Reject(Fine("constraints_start", n, e))
    BY <1>1, <2>1 DEF ConstrainedToken, ConstrainedScalar, Resources
  <2>4. ASSUME NEW name \in Resources, val.kind # KindOf(name) \/ val.text = Unset
        PROVE  ConstrainedToken(Fine(name, n, e), t) = Reject(Fine(name, n, e))
    <3>1. Fine(name, n, e).state = name /\ name \notin {"toplevel_start", "constraints_start"}
      BY <1>1, <2>1
    <3>2. CASE val.kind \in {"string", "number"}
      BY <2>1, <2>4, <3>1, <3>2 DEF ConstrainedToken, ConstrainedScalar, KindOf
    <3>3. CASE val.kind \in {"array", "object"}
      BY <2>1, <3>1, <3>3 DEF ConstrainedToken, ConstrainedObjectStart
    <3>. QED
      BY <2>1, <3>2, <3>3
  <2>5. ASSUME NEW name \in Resources, val.kind # KindOf(name) \/ val.text = Unset
        PROVE  ConstraintsMachine[Fine(name, n, e)][t] \in Stuck(L, m)
    <3>1. /\ ConstraintsMachine[Fine(name, n, e)][t] = ConstrainedToken(Fine(name, n, e), t)
          /\ Reject(Fine(name, n, e)) \in Stuck(L, m)
      BY <1>1, <2>1
    <3>2. ConstrainedToken(Fine(name, n, e), t) = Reject(Fine(name, n, e))
      BY <2>4, <2>5
    <3>. QED
      BY <3>1, <3>2
  <2>. QED
    BY <1>1, <2>1, <2>2, <2>3, <2>5 DEF t
<1>3. ASSUME NEW name \in Texts, name \notin Resources
      PROVE  ConstraintsMachine[Fine("constraints_start", n, e)][Token("field", name)] \in Stuck(L, m)
  <2>1. Token("field", name) \in TokenSet
    BY DEF Token, TokenSet, TokenKinds, Strings
  <2>2. ConstrainedToken(Fine("constraints_start", n, e), Token("field", name))
          = Reject(Fine("constraints_start", n, e))
    BY <1>1, <1>3, <2>1 DEF ConstrainedToken, ConstrainedFieldStart, Token
  <2>. QED
    BY <1>1, <2>1, <2>2
<1>. QED
  BY <1>2, <1>3

GoodLimit(limit) ==
  /\ limit.name \in Resources
  /\ limit.value.kind = KindOf(limit.name)
  /\ limit.value.text # Unset

\* A resource of an extension: its limit, or an error.
LEMMA ConstraintsLimit ==
  ASSUME NEW limit \in Fields(Level1), NEW n \in Slots, NEW m \in Nat, n <= m, NEW e \in [Slots -> L]
  PROVE  Outcome(Run(ConstraintsMachine, Fine("constraints_start", n, e),
                     <<Token("field", limit.name)>> \o Tokens1(limit.value)),
                 GoodLimit(limit),
                 Fine("constraints_start", n, WithLimit(e, n, limit.name, limit.value.text)),
                 Stuck(L, m))
<1> DEFINE M == ConstraintsMachine
    name == limit.name
    val == limit.value
    c == Fine("constraints_start", n, e)
    c1 == Fine(name, n, e)
    f == Token("field", name)
    t == FirstToken(val)
    s == Tokens1(val)
<1>1. n \in Nat /\ "constraints_start" \in States /\ name \in Texts /\ val \in Level1
  BY SlotsAssumption DEF States, Fields
<1>2. Closed(M, Parses(L), TokenSet) /\ Closed(M, Stuck(L, m), TokenSet) /\ Stuck(L, m) \subseteq Parses(L)
  BY ConstraintsClose DEF Machine, Stuck
<1>3. c \in Parses(L)
  BY <1>1, FineType
<1>4. name \in Resources => c1 \in Parses(L)
  BY <1>1, FineType DEF States
<1> HIDE DEF name, val
<1>5. f \in TokenSet /\ t \in TokenSet /\ s \in Seq(TokenSet)
  BY <1>1, LevelTokens, FirstTokens DEF Token, TokenSet, TokenKinds, Strings, Level1
<1>6. Run(M, c, <<f>> \o s) = Run(M, M[c][f], s)
  <2> HIDE DEF M, c, f, s
  <2>. QED
    BY <1>2, <1>3, <1>5, RunWrapped
<1>7. CASE name \notin Resources
  <2>1. M[c][f] \in Stuck(L, m)
    BY <1>1, <1>7, ConstraintsRejects
  <2> HIDE DEF M, c, f, s
  <2>2. Run(M, c, <<f>> \o s) \in Stuck(L, m)
    BY <1>2, <1>3, <1>5, <2>1, DecidedAtOnce
  <2>. QED
    BY <1>7, <2>2 DEF Outcome, GoodLimit, M, c, f, s, name, val
<1>8. CASE name \in Resources /\ (val.kind # KindOf(name) \/ val.text = Unset)
  <2>1. M[c][f] = c1
    BY <1>1, <1>8, ConstraintsSteps
  <2>2. M[c1][t] \in Stuck(L, m)
    BY <1>1, <1>8, ConstraintsRejects DEF Level1
  <2>3. PICK others \in Seq(TokenSet) : s = <<t>> \o others
    BY <1>1, LevelTokens DEF Starts
  <2> HIDE DEF M, c, c1, f, s, t
  <2>4. Run(M, c1, <<t>> \o others) \in Stuck(L, m)
    BY <1>2, <1>4, <1>5, <1>8, <2>2, DecidedAtOnce
  <2>. QED
    BY <1>6, <1>8, <2>1, <2>3, <2>4 DEF Outcome, GoodLimit, M, c, f, s, name, val
<1>9. CASE name \in Resources /\ val.kind = KindOf(name) /\ val.text # Unset
  <2>1. M[c][f] = c1
    BY <1>1, <1>9, ConstraintsSteps
  <2>2. s = <<t>> /\ t = Token(KindOf(name), val.text) /\ val.text \in Strings
    BY <1>1, <1>9, FirstTokens DEF Tokens1, TokensWith, Level1, KindOf
  <2>3. M[c1][t] = Fine("constraints_start", n, WithLimit(e, n, name, val.text))
    <3> HIDE DEF t
    <3>. QED
      BY <1>1, <1>9, <2>2, ConstraintsSteps
  <2> HIDE DEF M, c, c1, f, s, t
  <2>4. Run(M, c1, <<t>>) = M[c1][t]
    BY <1>2, <1>4, <1>5, <1>9, RunOne
  <2>. QED
    BY <1>6, <1>9, <2>1, <2>2, <2>3, <2>4 DEF Outcome, GoodLimit, M, c, f, s, name, val
<1>. QED
  BY <1>7, <1>8, <1>9

GoodConstraints(val) ==
  val.kind = "object" /\ \A i \in DOMAIN val.parts : GoodLimit(val.parts[i])

\* The limits after the first k fields of an extension.
LimitsUpTo(val, k, limits) == [r \in Resources |-> LastUpTo(val, k, r, limits[r])]

ConstraintsEntry(name, limits) == [name |-> name, limits |-> limits]

\* What a field makes of the entry n.
WithConstraints(e, n, name, val) ==
  [e EXCEPT ![n] = ConstraintsEntry(name, LimitsUpTo(val, Len(val.parts), @.limits))]

\* One more field.
LEMMA LimitsStep ==
  ASSUME NEW val \in Level2, val.kind = "object", NEW k \in 0..Len(val.parts),
         NEW limits \in [Resources -> Strings \cup {"0"}]
  PROVE  /\ LimitsUpTo(val, k, limits) \in [Resources -> Strings \cup {"0"}]
         /\ k = 0 => LimitsUpTo(val, k, limits) = limits
         /\ k # 0 /\ val.parts[k].name \in Resources =>
              LimitsUpTo(val, k, limits)
                = [LimitsUpTo(val, k - 1, limits) EXCEPT ![val.parts[k].name] = val.parts[k].value.text]
<1>1. ASSUME NEW r \in Resources
      PROVE  /\ LastUpTo(val, k, r, limits[r]) \in Strings \cup {"0"}
             /\ k = 0 => LastUpTo(val, k, r, limits[r]) = limits[r]
             /\ k # 0 /\ val.parts[k].name = r =>
                  LastUpTo(val, k, r, limits[r]) = val.parts[k].value.text
             /\ k # 0 /\ val.parts[k].name # r =>
                  LastUpTo(val, k, r, limits[r]) = LastUpTo(val, k - 1, r, limits[r])
  <2> DEFINE default == limits[r]
  <2>1. default \in Strings \cup {"0"}
    OBVIOUS
  <2> HIDE DEF default
  <2>2. /\ LastUpTo(val, k, r, default) \in Strings \cup {default}
        /\ k = 0 => LastUpTo(val, k, r, default) = default
        /\ k # 0 /\ val.parts[k].name = r => LastUpTo(val, k, r, default) = val.parts[k].value.text
        /\ k # 0 /\ val.parts[k].name # r =>
             LastUpTo(val, k, r, default) = LastUpTo(val, k - 1, r, default)
    BY LastIsGiven DEF Level1, Level2
  <2>. QED
    BY <2>1, <2>2 DEF default
<1>. QED
  BY <1>1 DEF LimitsUpTo

\* A field of constrained_extensions.
LEMMA ConstraintsField ==
  ASSUME NEW name \in Texts, NEW val \in Level2, NEW n \in Slots, NEW m \in Nat, n <= m,
         NEW e \in [Slots -> L]
  PROVE  Outcome(Run(ConstraintsMachine, Fine("toplevel_field", n, e),
                     <<Token("field", name)>> \o Tokens2(val)),
                 GoodConstraints(val),
                 Fine("toplevel_field", n + 1, WithConstraints(e, n, name, val)),
                 Stuck(L, m))
<1> DEFINE M == ConstraintsMachine
    c == Fine("toplevel_field", n, e)
    f == Token("field", name)
    s == Tokens2(val)
    e1 == WithName(e, n, name)
    c1 == Fine("constraints_start", n, e1)
    t == FirstToken(val)
    S == Stuck(L, m)
<1>1. /\ n \in Nat /\ {"toplevel_field", "constraints_start"} \subseteq States /\ name \in Strings
      /\ Len(val.parts) \in Nat /\ DOMAIN val.parts = 1..Len(val.parts)
      /\ val.kind = "object" => val.parts \in Seq(Fields(Level1))
  BY NestedKinds, SlotsAssumption DEF States, Strings, Level2
<1>2. e1 \in [Slots -> L] /\ e1 = [e EXCEPT ![n] = ConstraintsEntry(name, e[n].limits)]
  <2>1. /\ [e[n] EXCEPT !.name = name] = ConstraintsEntry(name, e[n].limits)
        /\ e[n].limits \in [Resources -> Strings \cup {"0"}]
    BY DEF L, ConstraintsEntries, ConstraintsEntry
  <2>2. ConstraintsEntry(name, e[n].limits) \in L
    BY <1>1, <2>1 DEF L, ConstraintsEntries, ConstraintsEntry
  <2>. QED
    BY <2>1, <2>2 DEF WithName
<1>3. Closed(M, Parses(L), TokenSet) /\ Closed(M, S, TokenSet) /\ S \subseteq Parses(L)
  BY ConstraintsClose DEF Machine, Stuck
<1>4. c \in Parses(L) /\ c1 \in Parses(L)
  BY <1>1, <1>2, FineType
<1>5. M[c][f] = c1 /\ f \in TokenSet /\ s \in Seq(TokenSet)
  BY <1>1, ConstraintsSteps, LevelTokens DEF Token, TokenSet, TokenKinds, Strings
<1>6. Run(M, c, <<f>> \o s) = Run(M, c1, s)
  <2> HIDE DEF M, c, f, s, c1
  <2>. QED
    BY <1>3, <1>4, <1>5, RunWrapped
<1>7. CASE val.kind # "object"
  <2>1. M[c1][t] \in S /\ t \in TokenSet
    BY <1>1, <1>2, <1>7, ConstraintsRejects, FirstTokens DEF Level2
  <2>2. PICK others \in Seq(TokenSet) : s = <<t>> \o others
    BY LevelTokens DEF Starts
  <2> HIDE DEF M, c1, t, S
  <2>3. Run(M, c1, <<t>> \o others) \in S
    BY <1>3, <1>4, <2>1, DecidedAtOnce
  <2>. QED
    BY <1>6, <1>7, <2>2, <2>3 DEF Outcome, GoodConstraints, M, S
<1>8. CASE val.kind = "object"
  <2> DEFINE inside == [i \in DOMAIN val.parts |-> Tokens1(Inner(val, i))]
      k0 == Len(val.parts)
      old == e[n].limits
      E(k) == [e EXCEPT ![n] = ConstraintsEntry(name, LimitsUpTo(val, k, old))]
      g == [k \in 0..k0 |-> Fine("constraints_start", n, E(k))]
      good == {i \in 1..k0 : GoodLimit(val.parts[i])}
  <2>0. old \in [Resources -> Strings \cup {"0"}]
    BY DEF L, ConstraintsEntries
  <2>1. ASSUME NEW k \in 0..k0
        PROVE  E(k) \in [Slots -> L] /\ E(k)[n] = ConstraintsEntry(name, LimitsUpTo(val, k, old))
    <3> HIDE DEF old
    <3>1. LimitsUpTo(val, k, old) \in [Resources -> Strings \cup {"0"}]
      BY <1>8, <2>0, LimitsStep
    <3>2. ConstraintsEntry(name, LimitsUpTo(val, k, old)) \in L
      BY <1>1, <3>1 DEF L, ConstraintsEntries, ConstraintsEntry
    <3>. QED
      BY <3>2
  <2>2. E(0) = e1
    <3> HIDE DEF old
    <3>1. 0 \in 0..k0
      BY <1>1
    <3>2. LimitsUpTo(val, 0, old) = old
      BY <1>8, <2>0, <3>1, LimitsStep
    <3>. QED
      BY <1>2, <3>2 DEF old
  <2> HIDE DEF old
  <2>3. g \in [0..k0 -> Parses(L)] /\ g[0] = c1
    <3> HIDE DEF E, e1, k0
    <3>1. \A k \in 0..k0 : Fine("constraints_start", n, E(k)) \in Parses(L)
      BY <1>1, <2>1, FineType
    <3>. QED
      BY <1>1, <2>2, <3>1 DEF k0
  <2>4. inside \in Seq(Seq(TokenSet)) /\ Len(inside) = k0 /\ s = TokensWith(val, inside)
    <3>1. inside \in Seq(Seq(TokenSet))
      BY LevelTokens
    <3>. QED
      BY <1>1, <3>1 DEF Tokens2
  <2>5. \A k \in 1..k0 : inside[k] = Tokens1(val.parts[k].value)
    BY <1>1, <1>8 DEF Inner
  <2> HIDE DEF inside, E
  <2>6. ExpectedFields(g, M, val, inside, good, S)
    <3>1. ASSUME NEW k \in 1..k0
          PROVE  Outcome(Run(M, g[k - 1], <<Token("field", val.parts[k].name)>> \o inside[k]),
                         k \in good, g[k], S)
      <4> DEFINE limit == val.parts[k]
          before == E(k - 1)
      <4>1. /\ k \in 0..k0 /\ k # 0 /\ k - 1 \in 0..k0 /\ limit \in Fields(Level1)
            /\ k \in good <=> GoodLimit(limit)
        BY <1>1, <1>8
      <4>2. before \in [Slots -> L] /\ g[k - 1] = Fine("constraints_start", n, before)
            /\ g[k] = Fine("constraints_start", n, E(k))
        BY <2>1, <4>1
      <4>3. GoodLimit(limit) => WithLimit(before, n, limit.name, limit.value.text) = E(k)
        <5> DEFINE earlier == LimitsUpTo(val, k - 1, old)
            later == LimitsUpTo(val, k, old)
        <5>1. limit.name \in Resources => later = [earlier EXCEPT ![limit.name] = limit.value.text]
          BY <1>8, <2>0, <4>1, LimitsStep
        <5>2. before[n] = ConstraintsEntry(name, earlier)
          BY <2>1, <4>1
        <5> HIDE DEF earlier, later
        <5>3. limit.name \in Resources =>
                [before[n] EXCEPT !.limits[limit.name] = limit.value.text] = ConstraintsEntry(name, later)
          BY <5>1, <5>2 DEF ConstraintsEntry
        <5>. QED
          BY <5>3 DEF WithLimit, E, GoodLimit, later
      <4> HIDE DEF limit, before, g, good, M, S
      <4>4. Outcome(Run(ConstraintsMachine, Fine("constraints_start", n, before),
                        <<Token("field", limit.name)>> \o Tokens1(limit.value)),
                    GoodLimit(limit),
                    Fine("constraints_start", n, WithLimit(before, n, limit.name, limit.value.text)),
                    Stuck(L, m))
        BY <4>1, <4>2, ConstraintsLimit
      <4>. QED
        BY <2>5, <4>1, <4>2, <4>3, <4>4 DEF Outcome, limit, M, S
    <3>. QED
      BY <3>1 DEF ExpectedFields
  <2>7. Outcome(Run(M, c1, s), good = 1..k0, M[g[k0]][Token("object_end", Unset)], S)
    <3>1. good \in SUBSET (1..k0) /\ M[c1][Token("object_start", Unset)] = g[0]
      BY <1>1, <1>2, <2>3, ConstraintsSteps
    <3> HIDE DEF g, good, M, S, c1, k0
    <3>2. Outcome(Run(M, c1, TokensWith(val, inside)), good = 1..Len(val.parts),
                  M[g[Len(val.parts)]][Token("object_end", Unset)], S)
      BY <1>3, <1>4, <1>8, <2>3, <2>4, <2>6, <3>1, RunOverObject DEF Level2, k0
    <3>. QED
      BY <2>4, <3>2 DEF k0
  <2>8. M[g[k0]][Token("object_end", Unset)] = Fine("toplevel_field", n + 1, WithConstraints(e, n, name, val))
    <3> DEFINE last == E(k0)
    <3>1. last \in [Slots -> L] /\ g[k0] = Fine("constraints_start", n, last)
      BY <1>1, <2>1
    <3>2. last = WithConstraints(e, n, name, val)
      BY DEF WithConstraints, E, old
    <3> HIDE DEF last, g
    <3>3. M[Fine("constraints_start", n, last)][Token("object_end", Unset)] = Fine("toplevel_field", n + 1, last)
      BY <1>1, <3>1, ConstraintsSteps
    <3>. QED
      BY <3>1, <3>2, <3>3
  <2>9. good = 1..k0 <=> GoodConstraints(val)
    BY <1>1, <1>8 DEF GoodConstraints
  <2> HIDE DEF M, g, good, S, s
  <2>. QED
    BY <1>6, <2>7, <2>8, <2>9 DEF Outcome, M, S, s
<1>. QED
  BY <1>7, <1>8

\* The array after the first k fields of a document.
ConstraintsRead(doc, e, k) ==
  [i \in Slots |->
     IF i < k /\ doc.parts[i + 1].value.kind = "object"
       THEN ConstraintsEntry(doc.parts[i + 1].name,
              LimitsUpTo(doc.parts[i + 1].value, Len(doc.parts[i + 1].value.parts), e[i].limits))
       ELSE e[i]]

\* A document of constrained_extensions.
LEMMA ConstraintsDocument ==
  ASSUME NEW doc \in Documents, 0..Len(doc.parts) \subseteq Slots, NEW e \in [Slots -> L]
  PROVE  /\ Outcome(Run(ConstraintsMachine, StartParse(e), Tokens(doc)),
                    WellFormedConstraints(doc),
                    Fine("toplevel_field", Len(doc.parts), ConstraintsRead(doc, e, Len(doc.parts))),
                    Stuck(L, Len(doc.parts)))
         /\ doc.kind = "object" => ConstraintsRead(doc, e, Len(doc.parts)) \in [Slots -> L]
<1> DEFINE M == ConstraintsMachine
    n == Len(doc.parts)
    read == [k \in 0..n |-> IF doc.kind = "object" THEN ConstraintsRead(doc, e, k) ELSE e]
    good == {i \in 1..n : GoodConstraints(doc.parts[i].value)}
<1>1. /\ n \in Nat /\ DOMAIN doc.parts = 1..n
      /\ doc.kind = "object" => doc.parts \in Seq(Fields(Level2))
      /\ doc \in Nested(Level2)
  BY NestedKinds DEF Documents, Level0, Level1, Level2
<1>2. ASSUME NEW i \in 1..n, doc.kind = "object"
      PROVE  doc.parts[i].name \in Texts /\ doc.parts[i].value \in Level2
  <2>1. doc.parts[i] \in Fields(Level2)
    BY <1>1, <1>2
  <2>. QED
    BY <2>1 DEF Fields
<1>3. ASSUME NEW k \in 0..n, doc.kind = "object"
      PROVE  ConstraintsRead(doc, e, k) \in [Slots -> L]
  <2>1. ASSUME NEW i \in Slots, i < k, doc.parts[i + 1].value.kind = "object"
        PROVE  ConstraintsEntry(doc.parts[i + 1].name,
                 LimitsUpTo(doc.parts[i + 1].value, Len(doc.parts[i + 1].value.parts), e[i].limits)) \in L
    <3> DEFINE name == doc.parts[i + 1].name
        val == doc.parts[i + 1].value
    <3>1. i + 1 \in 1..n
      BY <1>1, <2>1, SlotsAssumption
    <3>2. /\ name \in Strings /\ val \in Level2 /\ val.kind = "object"
          /\ e[i].limits \in [Resources -> Strings \cup {"0"}]
      BY <1>2, <1>3, <2>1, <3>1 DEF Strings, L, ConstraintsEntries
    <3> HIDE DEF name, val
    <3>3. LimitsUpTo(val, Len(val.parts), e[i].limits) \in [Resources -> Strings \cup {"0"}]
      <4>1. Len(val.parts) \in 0..Len(val.parts)
        BY <3>2, NestedKinds DEF Level2
      <4>. QED
        BY <3>2, <4>1, LimitsStep
    <3>4. ConstraintsEntry(name, LimitsUpTo(val, Len(val.parts), e[i].limits)) \in L
      BY <3>2, <3>3 DEF ConstraintsEntry, L, ConstraintsEntries
    <3>. QED
      BY <3>4 DEF name, val
  <2>. QED
    BY <2>1 DEF ConstraintsRead
<1>4. read \in [0..n -> [Slots -> L]] /\ read[0] = e
  <2>1. ConstraintsRead(doc, e, 0) = e
    BY SlotsAssumption DEF ConstraintsRead
  <2>. QED
    BY <1>1, <1>3, <2>1
<1>5. ASSUME NEW k \in 1..n, doc.kind = "object"
      PROVE  Outcome(Run(M, Fine("toplevel_field", k - 1, read[k - 1]),
                         <<Token("field", doc.parts[k].name)>> \o Tokens2(doc.parts[k].value)),
                     k \in good, Fine("toplevel_field", k, read[k]), Stuck(L, n))
  <2> DEFINE before == read[k - 1]
      name == doc.parts[k].name
      val == doc.parts[k].value
  <2>1. k - 1 \in Slots /\ k - 1 \in Nat /\ k - 1 <= n /\ (k - 1) + 1 = k /\ k - 1 \in 0..n
    BY <1>1
  <2>2. name \in Texts /\ val \in Level2 /\ before \in [Slots -> L] /\ (k \in good <=> GoodConstraints(val))
    BY <1>2, <1>4, <1>5, <2>1
  <2>3. val.kind = "object" => WithConstraints(before, k - 1, name, val) = read[k]
    <3>1. before[k - 1] = e[k - 1] /\ before = ConstraintsRead(doc, e, k - 1) /\ read[k] = ConstraintsRead(doc, e, k)
      BY <1>1, <1>5, <2>1 DEF ConstraintsRead
    <3>2. \A i \in Slots : i \in Nat /\ (i < k <=> i < k - 1 \/ i = k - 1)
      BY <1>1, SlotsAssumption
    <3> DEFINE new == ConstraintsEntry(name, LimitsUpTo(val, Len(val.parts), e[k - 1].limits))
        step == [i \in Slots |-> IF i = k - 1 THEN new ELSE before[i]]
    <3> HIDE DEF read
    <3>3. WithConstraints(before, k - 1, name, val) = step
      <4> HIDE DEF before, name, val
      <4>. QED
        BY <2>1, <2>2, <3>1 DEF WithConstraints
    <3>4. ASSUME NEW i \in Slots, val.kind = "object"
          PROVE  ConstraintsRead(doc, e, k)[i] = step[i]
      <4>1. CASE i = k - 1
        <5>1. ConstraintsRead(doc, e, k)[i] = new
          BY <2>1, <3>2, <3>4, <4>1 DEF ConstraintsRead
        <5> HIDE DEF new
        <5>. QED
          BY <4>1, <5>1
      <4>2. CASE i # k - 1
        <5>1. ConstraintsRead(doc, e, k)[i] = ConstraintsRead(doc, e, k - 1)[i]
          BY <3>2, <4>2 DEF ConstraintsRead
        <5> HIDE DEF new, before
        <5>. QED
          BY <3>1, <4>2, <5>1
      <4>. QED
        BY <4>1, <4>2
    <3>5. ConstraintsRead(doc, e, k) = [i \in Slots |-> ConstraintsRead(doc, e, k)[i]]
      BY DEF ConstraintsRead
    <3>6. step = [i \in Slots |-> step[i]]
      OBVIOUS
    <3> HIDE DEF step
    <3>. QED
      BY <3>1, <3>3, <3>4, <3>5, <3>6
  <2> HIDE DEF before, name, val, good
  <2>4. Outcome(Run(ConstraintsMachine, Fine("toplevel_field", k - 1, before),
                    <<Token("field", name)>> \o Tokens2(val)),
                GoodConstraints(val),
                Fine("toplevel_field", (k - 1) + 1, WithConstraints(before, k - 1, name, val)),
                Stuck(L, n))
    BY <1>1, <2>1, <2>2, ConstraintsField
  <2>. QED
    BY <2>1, <2>2, <2>3, <2>4 DEF Outcome, GoodConstraints, before, name, val
<1>6. ReadsFields(M, L, doc, read, good)
  <2> DEFINE last == read[n]
  <2>1. last \in [Slots -> L] /\ 0 <= n
    BY <1>1, <1>4
  <2> HIDE DEF last, read
  <2>2. M[Fine("toplevel_field", n, last)][Token("object_end", Unset)] = Fine("toplevel_field", n, last)
    BY <1>1, <2>1, ConstraintsSteps
  <2>3. M[Fine("toplevel_start", 0, e)][Token("object_start", Unset)] = Fine("toplevel_field", 0, e)
    BY ConstraintsSteps
  <2>4. doc.kind # "object" => M[Fine("toplevel_start", 0, e)][FirstToken(doc)] \in Stuck(L, n)
    BY <1>1, <2>1, ConstraintsRejects
  <2> HIDE DEF M, good
  <2>. QED
    BY <1>4, <1>5, <2>2, <2>3, <2>4 DEF ReadsFields, last
<1>7. good = 1..n /\ doc.kind = "object" <=> WellFormedConstraints(doc)
  <2>1. CASE doc.kind = "object"
    <3>1. ASSUME NEW i \in 1..n
          PROVE  i \in good <=> GoodConstraints(doc.parts[i].value)
      OBVIOUS
    <3>2. WellFormedConstraints(doc) <=> \A i \in DOMAIN doc.parts : GoodConstraints(doc.parts[i].value)
      BY <2>1 DEF WellFormedConstraints, ObjectOf, GoodConstraints, GoodLimit, KindOf
    <3>3. DOMAIN doc.parts = 1..n /\ good \subseteq 1..n
      BY <1>1
    <3> HIDE DEF good, n
    <3>. QED
      BY <2>1, <3>1, <3>2, <3>3
  <2>2. CASE doc.kind # "object"
    BY <2>2 DEF WellFormedConstraints, ObjectOf
  <2>. QED
    BY <2>1, <2>2
<1>8. doc.kind = "object" => read[n] = ConstraintsRead(doc, e, n)
  BY <1>1
<1>9. good \in SUBSET (1..n) /\ Machine(M, L, n)
  BY <1>1, ConstraintsClose
<1> HIDE DEF read, good, M
<1>10. Outcome(Run(M, StartParse(read[0]), Tokens(doc)), doc.kind = "object" /\ good = 1..Len(doc.parts),
               Fine("toplevel_field", Len(doc.parts), read[Len(doc.parts)]), Stuck(L, Len(doc.parts)))
  BY <1>4, <1>6, <1>9, RunOverDocument
<1>. QED
  BY <1>1, <1>3, <1>4, <1>7, <1>8, <1>10 DEF Outcome, M

-----------------------------------------------------------------------------
(* What an accepted document has become *)

\* The pairs, index by index.
LEMMA GrantsMembers ==
  /\ \A entries, total, grant : grant \in GrantsOf(entries, total) <=>
       \E i \in 0..total - 1 : \E j \in DOMAIN entries[i].tables :
         grant = <<entries[i].role, entries[i].tables[j]>>
  /\ \A doc, grant : grant \in GrantsMeant(doc) <=>
       \E i \in DOMAIN doc.parts : \E j \in DOMAIN doc.parts[i].value.parts :
         grant = <<doc.parts[i].name, doc.parts[i].value.parts[j].text>>
BY DEF GrantsOf, GrantsMeant, Range

\* An accepted value gives its grants; it gives no others if no table was there
\* before.
LEMMA GrantsMeaning ==
  ASSUME NEW doc \in Documents, WellFormedGrants(doc), 0..Len(doc.parts) \subseteq Slots,
         NEW e \in [Slots -> G],
         NEW read, read = GrantsRead(doc, e, Len(doc.parts))
  PROVE  /\ GrantsMeant(doc) \subseteq GrantsOf(read, Len(doc.parts))
         /\ \A grant \in GrantsOf(read, Len(doc.parts)) :
              \E i \in DOMAIN doc.parts : doc.parts[i].name = grant[1]
         /\ (\A i \in Slots : e[i].tables = <<>>) =>
              GrantsOf(read, Len(doc.parts)) = GrantsMeant(doc)
         /\ \A i \in 0..Len(doc.parts) - 1 : read[i].role \in Texts
         /\ \A i \in Slots : i >= Len(doc.parts) => read[i] = e[i]
<1> DEFINE n == Len(doc.parts)
<1>1. /\ n \in Nat /\ DOMAIN doc.parts = 1..n
      /\ doc.parts \in Seq(Fields(Level2)) /\ doc.kind = "object"
  BY NestedKinds DEF Documents, Level0, Level1, Level2, WellFormedGrants, ObjectOf
<1>2. ASSUME NEW i \in 0..n - 1
      PROVE  LET role == doc.parts[i + 1]
                 k == Len(role.value.parts)
             IN  /\ i + 1 \in DOMAIN doc.parts /\ i \in Slots
                 /\ role.name \in Texts /\ k \in Nat /\ e[i].tables \in Seq(Strings)
                 /\ DOMAIN role.value.parts = 1..k
                 /\ read[i] = GrantsEntry(role.name, e[i].tables \o TextsUpTo(role.value, k))
                 /\ TextsUpTo(role.value, k) \in Seq(Strings) /\ Len(TextsUpTo(role.value, k)) = k
                 /\ \A j \in 1..k : TextsUpTo(role.value, k)[j] = role.value.parts[j].text
  <2> DEFINE role == doc.parts[i + 1]
      k == Len(role.value.parts)
  <2>1. i + 1 \in DOMAIN doc.parts /\ i \in Slots /\ i \in Nat /\ i < n
    BY <1>1
  <2>2. role \in Fields(Level2)
    BY <1>1, <2>1
  <2>3. role.name \in Texts /\ role.value \in Level2 /\ role.value.kind = "array"
    BY <1>1, <2>1, <2>2 DEF Fields, WellFormedGrants, ObjectOf
  <2>4. k \in Nat /\ DOMAIN role.value.parts = 1..k /\ k \in 0..k
    BY <2>3, NestedKinds DEF Level2
  <2>5. read[i] = GrantsEntry(role.name, e[i].tables \o TextsUpTo(role.value, k))
    BY <2>1 DEF GrantsRead
  <2>6. TextsUpTo(role.value, k) \in Seq(Strings)
    BY <2>3, <2>4, TextsType DEF Level1, Level2
  <2>7. Len(TextsUpTo(role.value, k)) = k /\ \A j \in 1..k : TextsUpTo(role.value, k)[j] = role.value.parts[j].text
    BY <2>3, <2>4 DEF TextsUpTo, Inner
  <2>8. e[i].tables \in Seq(Strings)
    BY <2>1 DEF G, GrantsEntries
  <2>. QED
    BY <2>1, <2>3, <2>4, <2>5, <2>6, <2>7, <2>8
<1>3. ASSUME NEW i \in 0..n - 1
      PROVE  /\ read[i].role = doc.parts[i + 1].name
             /\ \A j \in DOMAIN doc.parts[i + 1].value.parts : \E k \in DOMAIN read[i].tables :
                  read[i].tables[k] = doc.parts[i + 1].value.parts[j].text
             /\ e[i].tables = <<>> => \A k \in DOMAIN read[i].tables :
                  /\ k \in DOMAIN doc.parts[i + 1].value.parts
                  /\ read[i].tables[k] = doc.parts[i + 1].value.parts[k].text
  <2> DEFINE role == doc.parts[i + 1]
      old == e[i].tables
      new == TextsUpTo(role.value, Len(role.value.parts))
      parts == role.value.parts
  <2>1. /\ read[i] = GrantsEntry(role.name, old \o new)
        /\ old \in Seq(Strings) /\ new \in Seq(Strings)
        /\ Len(new) = Len(parts) /\ Len(parts) \in Nat /\ DOMAIN parts = 1..Len(parts)
        /\ \A j \in 1..Len(parts) : new[j] = parts[j].text
    BY <1>2
  <2> HIDE DEF old, new, parts
  <2>2. read[i].role = role.name /\ read[i].tables = old \o new
    BY <2>1 DEF GrantsEntry
  <2>3. ASSUME NEW j \in DOMAIN parts
        PROVE  \E k \in DOMAIN (old \o new) : (old \o new)[k] = parts[j].text
    <3>1. Len(old) \in Nat /\ Len(old) + j \in DOMAIN (old \o new) /\ (old \o new)[Len(old) + j] = new[j]
      BY <2>1
    <3>. QED
      BY <2>1, <3>1
  <2>4. old = <<>> => old \o new = new /\ DOMAIN new = DOMAIN parts
    BY <2>1
  <2>5. old = <<>> => \A k \in DOMAIN read[i].tables :
                         k \in DOMAIN parts /\ read[i].tables[k] = parts[k].text
    BY <2>1, <2>2, <2>4
  <2>. QED
    BY <2>2, <2>3, <2>5 DEF parts, old
<1>4. \A i \in DOMAIN doc.parts : i - 1 \in 0..n - 1 /\ (i - 1) + 1 = i
  BY <1>1
<1>5. \A i \in 0..n - 1 : i + 1 \in DOMAIN doc.parts /\ i \in Slots /\ doc.parts[i + 1].name \in Texts
  BY <1>2
<1> HIDE DEF n
<1>6. ASSUME NEW grant \in GrantsMeant(doc) PROVE grant \in GrantsOf(read, n)
  <2>0. PICK i \in DOMAIN doc.parts : \E j \in DOMAIN doc.parts[i].value.parts :
          grant = <<doc.parts[i].name, doc.parts[i].value.parts[j].text>>
    BY GrantsMembers
  <2>1. PICK j \in DOMAIN doc.parts[i].value.parts :
          grant = <<doc.parts[i].name, doc.parts[i].value.parts[j].text>>
    BY <2>0
  <2>2. PICK m \in 0..n - 1 : m + 1 = i
    BY <1>4
  <2>3. PICK k \in DOMAIN read[m].tables : read[m].tables[k] = doc.parts[i].value.parts[j].text
    BY <1>3, <2>2
  <2>4. grant = <<read[m].role, read[m].tables[k]>>
    BY <1>3, <2>1, <2>2, <2>3
  <2>. QED
    BY <2>4, GrantsMembers
<1>7. ASSUME NEW grant \in GrantsOf(read, n)
      PROVE  /\ \E i \in DOMAIN doc.parts : doc.parts[i].name = grant[1]
             /\ (\A i \in Slots : e[i].tables = <<>>) => grant \in GrantsMeant(doc)
  <2>0. PICK i \in 0..n - 1 : \E k \in DOMAIN read[i].tables : grant = <<read[i].role, read[i].tables[k]>>
    BY GrantsMembers
  <2>1. PICK k \in DOMAIN read[i].tables : grant = <<read[i].role, read[i].tables[k]>>
    BY <2>0
  <2>2. grant[1] = doc.parts[i + 1].name /\ i + 1 \in DOMAIN doc.parts
    BY <1>3, <1>5, <2>1
  <2>3. ASSUME \A s \in Slots : e[s].tables = <<>>
        PROVE  grant \in GrantsMeant(doc)
    <3>1. k \in DOMAIN doc.parts[i + 1].value.parts /\ read[i].tables[k] = doc.parts[i + 1].value.parts[k].text
      BY <1>3, <1>5, <2>3
    <3>2. grant = <<doc.parts[i + 1].name, doc.parts[i + 1].value.parts[k].text>>
      BY <1>3, <2>1, <3>1
    <3>. QED
      BY <2>2, <3>1, <3>2, GrantsMembers
  <2>. QED
    BY <2>2, <2>3
<1>8. \A i \in Slots : i >= n => read[i] = e[i]
  BY <1>1, SlotsAssumption DEF GrantsRead, n
<1>9. \A i \in 0..n - 1 : read[i].role \in Texts
  BY <1>3, <1>5
<1>. QED
  BY <1>6, <1>7, <1>8, <1>9 DEF n

\* An accepted value of extensions_parameter_overrides, in a cleared array.
LEMMA OverridesMeaning ==
  ASSUME NEW doc \in Documents, WellFormedOverrides(doc), 0..Len(doc.parts) \subseteq Slots
  PROVE  Counted(OverridesRead(doc, NoOverrides, Len(doc.parts)), Len(doc.parts)) = OverridesMeant(doc)
<1> DEFINE n == Len(doc.parts)
    read == OverridesRead(doc, NoOverrides, n)
<1>1. /\ n \in Nat /\ DOMAIN doc.parts = 1..n
      /\ doc.parts \in Seq(Fields(Level2)) /\ doc.kind = "object"
  BY NestedKinds DEF Documents, Level0, Level1, Level2, WellFormedOverrides, ObjectOf
<1>2. ASSUME NEW i \in 1..n
      PROVE  read[i - 1] = OverridesEntry(doc.parts[i].name,
                                          LastGiven(doc.parts[i].value.parts, "schema", Unset))
  <2> DEFINE val == doc.parts[i].value
  <2>1. i - 1 \in Slots /\ i - 1 < n /\ (i - 1) + 1 = i
    BY <1>1
  <2>2. val \in Level2 /\ val.kind = "object"
    <3>1. doc.parts[i] \in Fields(Level2)
      BY <1>1
    <3>. QED
      BY <1>1, <3>1 DEF Fields, WellFormedOverrides, ObjectOf
  <2> HIDE DEF val
  <2>3. LastUpTo(val, Len(val.parts), "schema", Unset) = LastGiven(val.parts, "schema", Unset)
    <3>1. Len(val.parts) \in 0..Len(val.parts)
      BY <2>2, NestedKinds DEF Level2
    <3>. QED
      BY <2>2, <3>1, LastIsGiven DEF Level1, Level2
  <2>4. NoOverrides[i - 1].schema = Unset
    BY <2>1 DEF NoOverrides, OverridesEntry
  <2>5. read[i - 1] = OverridesEntry(doc.parts[i].name, LastUpTo(val, Len(val.parts), "schema", Unset))
    BY <2>1, <2>2, <2>4 DEF OverridesRead, val
  <2>. QED
    BY <2>3, <2>5 DEF val
<1> HIDE DEF read
<1>. QED
  BY <1>1, <1>2 DEF Counted, OverridesMeant, read

\* An accepted value of constrained_extensions, in a cleared array.
LEMMA ConstraintsMeaning ==
  ASSUME NEW doc \in Documents, WellFormedConstraints(doc), 0..Len(doc.parts) \subseteq Slots
  PROVE  Counted(ConstraintsRead(doc, NoConstraints, Len(doc.parts)), Len(doc.parts)) = ConstraintsMeant(doc)
<1> DEFINE n == Len(doc.parts)
    read == ConstraintsRead(doc, NoConstraints, n)
<1>1. /\ n \in Nat /\ DOMAIN doc.parts = 1..n
      /\ doc.parts \in Seq(Fields(Level2)) /\ doc.kind = "object"
  BY NestedKinds DEF Documents, Level0, Level1, Level2, WellFormedConstraints, ObjectOf
<1>2. ASSUME NEW i \in 1..n
      PROVE  read[i - 1] = [name   |-> doc.parts[i].name,
                            limits |-> [r \in Resources |->
                                          LastGiven(doc.parts[i].value.parts, r, NoConstraint[r])]]
  <2> DEFINE val == doc.parts[i].value
  <2>1. i - 1 \in Slots /\ i - 1 < n /\ (i - 1) + 1 = i
    BY <1>1
  <2>2. val \in Level2 /\ val.kind = "object"
    <3>1. doc.parts[i] \in Fields(Level2)
      BY <1>1
    <3>. QED
      BY <1>1, <3>1 DEF Fields, WellFormedConstraints, ObjectOf
  <2> HIDE DEF val
  <2>3. \A r \in Resources : LastUpTo(val, Len(val.parts), r, NoConstraint[r])
                               = LastGiven(val.parts, r, NoConstraint[r])
    <3>1. Len(val.parts) \in 0..Len(val.parts)
      BY <2>2, NestedKinds DEF Level2
    <3>. QED
      BY <2>2, <3>1, LastIsGiven DEF Level1, Level2
  <2>4. NoConstraints[i - 1].limits = NoConstraint
    BY <2>1 DEF NoConstraints
  <2>5. read[i - 1] = ConstraintsEntry(doc.parts[i].name, LimitsUpTo(val, Len(val.parts), NoConstraint))
    BY <2>1, <2>2, <2>4 DEF ConstraintsRead, val
  <2>6. LimitsUpTo(val, Len(val.parts), NoConstraint)
          = [r \in Resources |-> LastGiven(val.parts, r, NoConstraint[r])]
    BY <2>3 DEF LimitsUpTo
  <2>. QED
    BY <2>5, <2>6 DEF ConstraintsEntry, val
<1> HIDE DEF read
<1>. QED
  BY <1>1, <1>2 DEF Counted, ConstraintsMeant, read

-----------------------------------------------------------------------------
(* SettingsParser *)

MachineOf(setting) ==
  CASE setting = "policy_grants"                  -> GrantsMachine
    [] setting = "extensions_parameter_overrides" -> OverridesMachine
    [] setting = "constrained_extensions"         -> ConstraintsMachine

Start(in) == StartParse(Empty(in.setting))

\* What ReadsTheMeaning says of p.
MeaningRead(p, in) ==
  CASE in.setting = "policy_grants" ->
         GrantsOf(p.entries, p.total) = GrantsMeant(in.doc)
    [] in.setting = "extensions_parameter_overrides" ->
         Counted(p.entries, p.total) = OverridesMeant(in.doc)
    [] in.setting = "constrained_extensions" ->
         Counted(p.entries, p.total) = ConstraintsMeant(in.doc)

ShapeOf(in) ==
  CASE in.setting = "policy_grants" -> WellFormedGrants(in.doc)
    [] in.setting = "extensions_parameter_overrides" -> WellFormedOverrides(in.doc)
    [] in.setting = "constrained_extensions" -> WellFormedConstraints(in.doc)

\* The machine of each setting, and where a parse of it starts.
LEMMA SettingFacts ==
  ASSUME NEW setting \in Settings
  PROVE  /\ \A n \in Nat : Machine(MachineOf(setting), EntriesOf(setting), n)
         /\ Empty(setting) \in [Slots -> EntriesOf(setting)]
         /\ StartParse(Empty(setting)) \in Parses(EntriesOf(setting))
         /\ \A p \in Parses(EntriesOf(setting)) :
              /\ MachineOf(setting)[p][SyntaxError].error
              /\ MachineOf(setting)[p][SyntaxError].total = p.total
<1>1. "toplevel_start" \in States /\ 0 \in Nat /\ SyntaxError \in TokenSet
  BY DEF States, SyntaxError, Token, TokenSet, TokenKinds, Strings
<1>2. \A E, e : e \in [Slots -> E] => StartParse(e) \in Parses(E)
  BY <1>1 DEF StartParse, Parses
<1>3. ASSUME NEW E, NEW p \in Parses(E)
      PROVE  [p EXCEPT !.error = TRUE].error /\ [p EXCEPT !.error = TRUE].total = p.total
  BY DEF Parses
<1>4. CASE setting = "policy_grants"
  <2>1. EntriesOf(setting) = G /\ MachineOf(setting) = GrantsMachine /\ Empty(setting) = NoGrants
    BY <1>4 DEF EntriesOf, G, GrantsEntries, MachineOf, Empty
  <2>2. NoGrants \in [Slots -> G]
    <3>1. GrantsEntry(Unset, <<>>) \in G
      BY DEF GrantsEntry, G, GrantsEntries, Strings
    <3>. QED
      BY <3>1 DEF NoGrants
  <2>3. \A p \in Parses(G) : GrantsMachine[p][SyntaxError] = [p EXCEPT !.error = TRUE]
    BY <1>1, GrantsClose DEF GrantsToken, SyntaxError, Token
  <2>4. \A n \in Nat : Machine(GrantsMachine, G, n)
    BY GrantsClose
  <2>5. StartParse(NoGrants) \in Parses(G)
    BY <1>2, <2>2
  <2>6. \A p \in Parses(G) : GrantsMachine[p][SyntaxError].error /\ GrantsMachine[p][SyntaxError].total = p.total
    BY <1>3, <2>3
  <2> HIDE DEF G
  <2>. QED
    BY <2>1, <2>2, <2>4, <2>5, <2>6
<1>5. CASE setting = "extensions_parameter_overrides"
  <2>1. EntriesOf(setting) = O /\ MachineOf(setting) = OverridesMachine /\ Empty(setting) = NoOverrides
    BY <1>5 DEF EntriesOf, O, OverridesEntries, MachineOf, Empty
  <2>2. NoOverrides \in [Slots -> O]
    BY DEF NoOverrides, OverridesEntry, O, OverridesEntries, Strings
  <2>3. \A p \in Parses(O) : OverridesMachine[p][SyntaxError] = [p EXCEPT !.error = TRUE]
    BY <1>1, OverridesClose DEF OverridesToken, SyntaxError, Token
  <2>4. \A n \in Nat : Machine(OverridesMachine, O, n)
    BY OverridesClose
  <2>5. StartParse(NoOverrides) \in Parses(O)
    BY <1>2, <2>2
  <2>6. \A p \in Parses(O) : /\ OverridesMachine[p][SyntaxError].error
                             /\ OverridesMachine[p][SyntaxError].total = p.total
    BY <1>3, <2>3
  <2> HIDE DEF O
  <2>. QED
    BY <2>1, <2>2, <2>4, <2>5, <2>6
<1>6. CASE setting = "constrained_extensions"
  <2>1. EntriesOf(setting) = L /\ MachineOf(setting) = ConstraintsMachine /\ Empty(setting) = NoConstraints
    BY <1>6 DEF EntriesOf, L, ConstraintsEntries, MachineOf, Empty
  <2>2. NoConstraints \in [Slots -> L]
    <3>1. NoConstraint \in [Resources -> Strings \cup {"0"}]
      BY DEF NoConstraint
    <3>. QED
      BY <3>1 DEF NoConstraints, L, ConstraintsEntries, Strings
  <2>3. \A p \in Parses(L) : ConstraintsMachine[p][SyntaxError] = [p EXCEPT !.error = TRUE]
    BY <1>1, ConstraintsClose DEF ConstrainedToken, SyntaxError, Token
  <2>4. \A n \in Nat : Machine(ConstraintsMachine, L, n)
    BY ConstraintsClose
  <2>5. StartParse(NoConstraints) \in Parses(L)
    BY <1>2, <2>2
  <2>6. \A p \in Parses(L) : /\ ConstraintsMachine[p][SyntaxError].error
                             /\ ConstraintsMachine[p][SyntaxError].total = p.total
    BY <1>3, <2>3
  <2> HIDE DEF L
  <2>. QED
    BY <2>1, <2>2, <2>4, <2>5, <2>6
<1>. QED
  BY <1>4, <1>5, <1>6 DEF Settings

\* A document that is read to its end.
LEMMA WholeDocument ==
  ASSUME NEW in \in Inputs, NEW p, p = Run(MachineOf(in.setting), Start(in), Tokens(in.doc))
  PROVE  /\ p.total \in Nat /\ p.total <= Len(in.doc.parts)
         /\ ~p.error <=> ShapeOf(in)
         /\ ~p.error => MeaningRead(p, in)
<1> DEFINE doc == in.doc
    n == Len(doc.parts)
<1>1. in.setting \in Settings /\ doc \in Documents /\ 0..n \subseteq Slots /\ n \in Nat
  BY InputsAssumption, NestedKinds DEF Documents
<1> HIDE DEF doc
<1>2. ASSUME NEW E, NEW ok, NEW e, Outcome(p, ok, Fine("toplevel_field", n, e), Stuck(E, n))
      PROVE  /\ p.total \in Nat /\ p.total <= n
             /\ ~p.error <=> ok
             /\ ok => p.entries = e /\ p.total = n
  <2>1. CASE ok
    BY <1>1, <1>2, <2>1 DEF Outcome, Fine
  <2>2. CASE ~ok
    BY <1>1, <1>2, <2>2 DEF Outcome, Stuck, Parses
  <2>. QED
    BY <2>1, <2>2
<1>3. CASE in.setting = "policy_grants"
  <2>1. /\ MachineOf(in.setting) = GrantsMachine /\ Start(in) = StartParse(NoGrants)
        /\ ShapeOf(in) = WellFormedGrants(doc) /\ NoGrants \in [Slots -> G]
        /\ MeaningRead(p, in) = (GrantsOf(p.entries, p.total) = GrantsMeant(doc))
    <3>1. EntriesOf(in.setting) = G /\ Empty(in.setting) = NoGrants
      BY <1>3 DEF EntriesOf, G, GrantsEntries, Empty
    <3>. QED
      BY <1>1, <1>3, <3>1, SettingFacts DEF MachineOf, Start, ShapeOf, MeaningRead, doc
  <2> DEFINE read == GrantsRead(doc, NoGrants, n)
  <2>2. Outcome(p, WellFormedGrants(doc), Fine("toplevel_field", n, read), Stuck(G, n))
    BY <1>1, <2>1, GrantsDocument DEF doc
  <2>3. \A i \in Slots : NoGrants[i].tables = <<>>
    BY DEF NoGrants, GrantsEntry
  <2>4. WellFormedGrants(doc) => GrantsOf(read, n) = GrantsMeant(doc)
    BY <1>1, <2>1, <2>3, GrantsMeaning
  <2> HIDE DEF read
  <2>. QED
    BY <1>2, <2>1, <2>2, <2>4 DEF doc
<1>4. CASE in.setting = "extensions_parameter_overrides"
  <2>1. /\ MachineOf(in.setting) = OverridesMachine /\ Start(in) = StartParse(NoOverrides)
        /\ ShapeOf(in) = WellFormedOverrides(doc) /\ NoOverrides \in [Slots -> O]
        /\ MeaningRead(p, in) = (Counted(p.entries, p.total) = OverridesMeant(doc))
    <3>1. EntriesOf(in.setting) = O /\ Empty(in.setting) = NoOverrides
      BY <1>4 DEF EntriesOf, O, OverridesEntries, Empty
    <3>. QED
      BY <1>1, <1>4, <3>1, SettingFacts DEF MachineOf, Start, ShapeOf, MeaningRead, doc
  <2> DEFINE read == OverridesRead(doc, NoOverrides, n)
  <2>2. Outcome(p, WellFormedOverrides(doc), Fine("toplevel_field", n, read), Stuck(O, n))
    BY <1>1, <2>1, OverridesDocument DEF doc
  <2>3. WellFormedOverrides(doc) => Counted(read, n) = OverridesMeant(doc)
    BY <1>1, OverridesMeaning
  <2> HIDE DEF read
  <2>. QED
    BY <1>2, <2>1, <2>2, <2>3 DEF doc
<1>5. CASE in.setting = "constrained_extensions"
  <2>1. /\ MachineOf(in.setting) = ConstraintsMachine /\ Start(in) = StartParse(NoConstraints)
        /\ ShapeOf(in) = WellFormedConstraints(doc) /\ NoConstraints \in [Slots -> L]
        /\ MeaningRead(p, in) = (Counted(p.entries, p.total) = ConstraintsMeant(doc))
    <3>1. EntriesOf(in.setting) = L /\ Empty(in.setting) = NoConstraints
      BY <1>5 DEF EntriesOf, L, ConstraintsEntries, Empty
    <3>. QED
      BY <1>1, <1>5, <3>1, SettingFacts DEF MachineOf, Start, ShapeOf, MeaningRead, doc
  <2> DEFINE read == ConstraintsRead(doc, NoConstraints, n)
  <2>2. Outcome(p, WellFormedConstraints(doc), Fine("toplevel_field", n, read), Stuck(L, n))
    BY <1>1, <2>1, ConstraintsDocument DEF doc
  <2>3. WellFormedConstraints(doc) => Counted(read, n) = ConstraintsMeant(doc)
    BY <1>1, ConstraintsMeaning
  <2> HIDE DEF read
  <2>. QED
    BY <1>2, <2>1, <2>2, <2>3 DEF doc
<1>. QED
  BY <1>1, <1>3, <1>4, <1>5 DEF Settings

\* An input that is read to the end, or to its syntax error.
LEMMA WholeInput ==
  ASSUME NEW in \in Inputs, NEW p, p = Run(MachineOf(in.setting), Start(in), TokensOf(in))
  PROVE  /\ TokensOf(in) \in Seq(TokenSet)
         /\ p.total <= Len(in.doc.parts)
         /\ ~p.error <=> WellFormed(in)
         /\ ~p.error => MeaningRead(p, in)
<1> DEFINE H == MachineOf(in.setting)
    E == EntriesOf(in.setting)
    c == Start(in)
    tokens == Tokens(in.doc)
    whole == Run(H, c, tokens)
    n == Len(in.doc.parts)
<1>1. /\ in.setting \in Settings /\ in.doc \in Documents /\ n \in Nat
      /\ in.cut \in 0..Len(tokens) \cup {Unset}
  BY InputsAssumption, NestedKinds DEF Documents
<1>2. tokens \in Seq(TokenSet) /\ SyntaxError \in TokenSet
  BY <1>1, LevelTokens DEF SyntaxError, Token, TokenSet, TokenKinds, Strings
<1>3. /\ whole.total \in Nat /\ whole.total <= n
      /\ ~whole.error <=> ShapeOf(in)
      /\ (~whole.error => MeaningRead(whole, in))
  BY WholeDocument
<1>4. Closed(H, Parses(E), TokenSet) /\ c \in Parses(E)
  BY <1>1, SettingFacts DEF Machine, Start
<1>5. CASE in.cut = Unset
  <2>1. TokensOf(in) = tokens
    BY <1>5 DEF TokensOf
  <2>2. p = whole
    BY <2>1
  <2> HIDE DEF whole
  <2>. QED
    BY <1>2, <1>3, <1>5, <2>1, <2>2 DEF WellFormed, ShapeOf
<1>6. CASE in.cut # Unset
  <2> DEFINE before == SubSeq(tokens, 1, in.cut)
      after == SubSeq(tokens, in.cut + 1, Len(tokens))
      end == <<SyntaxError>>
      q == Run(H, c, before)
  <2>1. in.cut \in 0..Len(tokens)
    BY <1>1, <1>6
  <2>2. before \in Seq(TokenSet) /\ after \in Seq(TokenSet) /\ tokens = before \o after
    <3>1. Len(tokens) \in Nat /\ in.cut + 1 \in Int /\ \A i \in 1..Len(tokens) : tokens[i] \in TokenSet
      BY <1>2, <2>1
    <3> HIDE DEF tokens
    <3>2. before \in Seq(TokenSet)
      BY <2>1, <3>1, SubSeqProperties
    <3>3. after \in Seq(TokenSet)
      BY <2>1, <3>1, SubSeqProperties
    <3>4. SubSeq(tokens, 1, Len(tokens)) = tokens
      BY <1>2, SubSeqFull
    <3>5. SubSeq(tokens, 1, in.cut) \o SubSeq(tokens, in.cut + 1, Len(tokens)) = SubSeq(tokens, 1, Len(tokens))
      <4>1. 1 \in 1..Len(tokens) + 1 /\ in.cut \in 1 - 1..Len(tokens) /\ Len(tokens) \in in.cut..Len(tokens)
        BY <2>1, <3>1
      <4>. QED
        BY <1>2, <4>1, ConcatAdjacentSubSeq
    <3>. QED
      BY <3>2, <3>3, <3>4, <3>5
  <2>3. TokensOf(in) = before \o end /\ end \in Seq(TokenSet) /\ before \o end \in Seq(TokenSet)
    <3>1. TokensOf(in) = Append(before, SyntaxError)
      BY <1>6 DEF TokensOf
    <3> HIDE DEF before
    <3>. QED
      BY <1>2, <2>2, <3>1
  <2> HIDE DEF H, E, c, before, after, end, tokens
  <2>4. q \in Parses(E)
    BY <1>4, <2>2, RunType
  <2>5. p = H[q][SyntaxError]
    <3>1. Run(H, c, before \o end) = Run(H, q, end)
      BY <1>4, <2>2, <2>3, RunBoth
    <3>2. Run(H, q, end) = H[q][SyntaxError]
      BY <1>2, <1>4, <2>4, RunOne DEF end
    <3>. QED
      BY <2>3, <3>1, <3>2 DEF H, c
  <2>6. whole = Run(H, q, after)
    BY <1>4, <2>2, RunBoth
  <2>7. q.total \in Nat /\ Closed(H, AtLeast(E, q.total), TokenSet) /\ q \in AtLeast(E, q.total)
    <3>1. q.total \in Nat
      BY <2>4 DEF Parses
    <3>. QED
      BY <1>1, <2>4, <3>1, SettingFacts DEF Machine, AtLeast, H, E
  <2>8. whole.total >= q.total
    <3> DEFINE S == AtLeast(E, q.total)
    <3>1. Closed(H, S, TokenSet) /\ q \in S
      BY <2>7
    <3> HIDE DEF S, q
    <3>2. Run(H, q, after) \in S
      BY <2>2, <3>1, RunType
    <3>. QED
      BY <2>6, <3>2 DEF S, AtLeast
  <2>9. p.error /\ p.total = q.total
    BY <1>1, <2>4, <2>5, SettingFacts DEF H, E
  <2>10. ~WellFormed(in)
    BY <1>6 DEF WellFormed
  <2> HIDE DEF whole, q
  <2>. QED
    BY <1>1, <1>3, <2>3, <2>7, <2>8, <2>9, <2>10
<1>. QED
  BY <1>5, <1>6

\* The walk is where the run over the whole input will pass: what is left leads
\* from the present state to the state the whole input leads to.
ParserInv ==
  /\ input \in Inputs
  /\ rest \in Seq(TokenSet)
  /\ parse \in Parses(EntriesOf(input.setting))
  /\ Run(MachineOf(input.setting), parse, rest)
       = Run(MachineOf(input.setting), Start(input), TokensOf(input))

\* The machine of an input.
LEMMA InputFacts ==
  ASSUME NEW in \in Inputs
  PROVE  /\ in.setting \in Settings
         /\ Closed(MachineOf(in.setting), Parses(EntriesOf(in.setting)), TokenSet)
<1>1. in.setting \in Settings /\ 0 \in Nat
  BY InputsAssumption
<1>2. Machine(MachineOf(in.setting), EntriesOf(in.setting), 0)
  BY <1>1, SettingFacts
<1>. QED
  BY <1>1, <1>2 DEF Machine

\* Before the first token all tokens are left.
LEMMA ParserInvInit == ParserInit => ParserInv
<1>. SUFFICES ASSUME ParserInit PROVE ParserInv
  OBVIOUS
<1>1. input \in Inputs /\ rest = TokensOf(input) /\ parse = Start(input)
  BY DEF ParserInit, Start
<1>2. rest \in Seq(TokenSet)
  BY <1>1, WholeInput
<1>3. parse \in Parses(EntriesOf(input.setting))
  BY <1>1, InputFacts, SettingFacts DEF Start
<1>. QED
  BY <1>1, <1>2, <1>3 DEF ParserInv

\* A token that is taken from the tokens that are left.
LEMMA TokenTaken ==
  ASSUME ParserInv, rest # <<>>, input' = input, rest' = Tail(rest),
         parse' = MachineOf(input.setting)[parse][Head(rest)]
  PROVE  ParserInv'
<1> DEFINE H == MachineOf(input.setting)
    E == EntriesOf(input.setting)
<1>1. /\ input \in Inputs /\ rest \in Seq(TokenSet) /\ parse \in Parses(E)
      /\ Run(H, parse, rest) = Run(H, Start(input), TokensOf(input))
  BY DEF ParserInv
<1>2. Closed(H, Parses(E), TokenSet)
  BY <1>1, InputFacts
<1> HIDE DEF H, E
<1>3. rest' \in Seq(TokenSet) /\ Head(rest) \in TokenSet
  BY <1>1, HeadTailProperties
<1>4. parse' = H[parse][Head(rest)] /\ parse' \in Parses(E)
  BY <1>1, <1>2, <1>3 DEF Closed, H
<1>5. Run(H, parse, rest) = Run(H, parse', rest')
  BY <1>1, <1>2, <1>4, RunFirst
<1>. QED
  BY <1>1, <1>3, <1>4, <1>5 DEF ParserInv, H, E

\* Each step takes the next token, with the handlers of its setting.
LEMMA ParserInvNext == ParserInv /\ [ParserNext]_parserVars => ParserInv'
<1>. SUFFICES ASSUME ParserInv, [ParserNext]_parserVars PROVE ParserInv'
  OBVIOUS
<1>1. input \in Inputs /\ rest \in Seq(TokenSet) /\ parse \in Parses(EntriesOf(input.setting))
  BY DEF ParserInv
<1>2. rest # <<>> => Head(rest) \in TokenSet
  BY <1>1, HeadTailProperties
<1>3. CASE GrantsStep
  <2>1. /\ rest # <<>> /\ input.setting = "policy_grants" /\ input' = input
        /\ rest' = Tail(rest) /\ parse' = GrantsToken(parse, Head(rest))
    BY <1>3 DEF GrantsStep, Call
  <2>2. EntriesOf(input.setting) = G /\ MachineOf(input.setting) = GrantsMachine
    BY <2>1 DEF EntriesOf, G, GrantsEntries, MachineOf
  <2>3. parse' = MachineOf(input.setting)[parse][Head(rest)]
    BY <1>1, <1>2, <2>1, <2>2, GrantsClose
  <2>. QED
    BY <2>1, <2>3, TokenTaken
<1>4. CASE OverridesStep
  <2>1. /\ rest # <<>> /\ input.setting = "extensions_parameter_overrides" /\ input' = input
        /\ rest' = Tail(rest) /\ parse' = OverridesToken(parse, Head(rest))
    BY <1>4 DEF OverridesStep, Call
  <2>2. EntriesOf(input.setting) = O /\ MachineOf(input.setting) = OverridesMachine
    BY <2>1 DEF EntriesOf, O, OverridesEntries, MachineOf
  <2>3. parse' = MachineOf(input.setting)[parse][Head(rest)]
    BY <1>1, <1>2, <2>1, <2>2, OverridesClose
  <2>. QED
    BY <2>1, <2>3, TokenTaken
<1>5. CASE ConstraintsStep
  <2>1. /\ rest # <<>> /\ input.setting = "constrained_extensions" /\ input' = input
        /\ rest' = Tail(rest) /\ parse' = ConstrainedToken(parse, Head(rest))
    BY <1>5 DEF ConstraintsStep, Call
  <2>2. EntriesOf(input.setting) = L /\ MachineOf(input.setting) = ConstraintsMachine
    BY <2>1 DEF EntriesOf, L, ConstraintsEntries, MachineOf
  <2>3. parse' = MachineOf(input.setting)[parse][Head(rest)]
    BY <1>1, <1>2, <2>1, <2>2, ConstraintsClose
  <2>. QED
    BY <2>1, <2>3, TokenTaken
<1>6. CASE Returned \/ UNCHANGED parserVars
  BY <1>6 DEF Returned, parserVars, ParserInv
<1>. QED
  BY <1>3, <1>4, <1>5, <1>6 DEF ParserNext

\* The total never falls, and the whole input counts no more entries than the
\* document has fields.
LEMMA ParserInvTyped == ParserInv => ParserTypeOK
<1>. SUFFICES ASSUME ParserInv PROVE ParserTypeOK
  OBVIOUS
<1> DEFINE H == MachineOf(input.setting)
    E == EntriesOf(input.setting)
    n == Len(input.doc.parts)
    S == AtLeast(E, parse.total)
<1>1. /\ input \in Inputs /\ rest \in Seq(TokenSet) /\ parse \in Parses(E)
      /\ Run(H, parse, rest) = Run(H, Start(input), TokensOf(input))
  BY DEF ParserInv
<1>2. input.setting \in Settings /\ 0..n \subseteq Slots /\ n \in Nat
  BY <1>1, InputsAssumption, NestedKinds DEF Documents
<1>3. parse.total \in Nat
  BY <1>1 DEF Parses
<1>4. Closed(H, S, TokenSet) /\ parse \in S
  BY <1>1, <1>2, <1>3, SettingFacts DEF Machine, AtLeast
<1>5. Run(H, parse, rest) \in S
  <2> HIDE DEF H, S
  <2>. QED
    BY <1>1, <1>4, RunType
<1>6. Run(H, parse, rest).total <= n
  BY <1>1, WholeInput
<1> HIDE DEF H, n
<1>7. Run(H, parse, rest).total >= parse.total /\ Run(H, parse, rest).total \in Nat
  BY <1>5 DEF AtLeast, Parses
<1>8. parse.total \in Slots
  <2>1. parse.total \in 0..n
    BY <1>2, <1>3, <1>6, <1>7
  <2>. QED
    BY <1>2, <2>1
<1>. QED
  BY <1>1, <1>2, <1>8 DEF ParserTypeOK, Parses

\* The inductive invariant of the walk.
LEMMA ParserSpecInv == ParserSpec => []ParserInv
BY ParserInvInit, ParserInvNext, PTL DEF ParserSpec

\* The walk over any document stays inside its array: no handler writes at an
\* index past the last slot, for a document that has fewer fields than that.
THEOREM ParserTypes == ParserSpec => []ParserTypeOK
BY ParserSpecInv, ParserInvTyped, PTL

\* What is known of a walk that has come to its end.
LEMMA AtTheEnd ==
  ASSUME ParserInv, rest = <<>>
  PROVE  /\ ~parse.error <=> WellFormed(input)
         /\ ~parse.error => MeaningRead(parse, input)
<1> DEFINE H == MachineOf(input.setting)
    E == EntriesOf(input.setting)
<1>1. /\ input \in Inputs /\ parse \in Parses(E)
      /\ Run(H, parse, rest) = Run(H, Start(input), TokensOf(input))
  BY DEF ParserInv
<1>2. Closed(H, Parses(E), TokenSet)
  BY <1>1, InputFacts
<1> HIDE DEF H, E
<1>3. Run(H, parse, rest) = parse
  BY <1>1, <1>2, RunNone
<1>4. parse = Run(H, Start(input), TokensOf(input))
  BY <1>1, <1>3
<1>. QED
  BY <1>1, <1>4, WholeInput DEF H

\* The parsers accept exactly the documents of the README's shape, whatever
\* the document, and a syntax error wherever it is.
THEOREM ParsersAcceptTheGrammar == ParserSpec => []AcceptsTheGrammar
<1>1. ParserInv => AcceptsTheGrammar
  BY AtTheEnd DEF AcceptsTheGrammar
<1>. QED
  BY <1>1, ParserSpecInv, PTL

\* An accepted document has become the entries it stands for, whatever fields
\* it repeats or leaves empty.
THEOREM ParsersReadTheMeaning == ParserSpec => []ReadsTheMeaning
<1>1. ParserInv => ReadsTheMeaning
  BY AtTheEnd DEF ReadsTheMeaning, MeaningRead
<1>. QED
  BY <1>1, ParserSpecInv, PTL

-----------------------------------------------------------------------------
(* SettingsReload: what the hooks make of a value *)

\* The parse that a hook runs through is a run.
LEMMA GrantsParseIsRun ==
  ASSUME NEW doc \in Documents, NEW e \in [Slots -> G]
  PROVE  ParsePolicyGrants(doc, e) = Run(GrantsMachine, StartParse(e), Tokens(doc))
<1> DEFINE s == Tokens(doc)
    n == Len(s)
    C == Parses(G)
    c == StartParse(e)
    F == [i \in 1..n |-> [p \in C |-> GrantsToken(p, s[i])]]
    iter == CHOOSE iter : iter = [S \in SUBSET DOMAIN s |->
              IF S = {} THEN c ELSE LET x == Max(S) IN GrantsToken(iter[S \ {x}], s[x])]
<1>1. s \in Seq(TokenSet)
  BY LevelTokens
<1>2. n \in Nat /\ DOMAIN s = 1..n /\ \A i \in 1..n : s[i] \in TokenSet
  <2> HIDE DEF s
  <2>. QED
    BY <1>1
<1>3. c \in C
  BY DEF StartParse, Parses, States
<1>4. Closed(GrantsMachine, C, TokenSet)
  BY GrantsClose DEF Machine
<1>5. \A p \in C, t \in TokenSet : GrantsMachine[p][t] = GrantsToken(p, t) /\ GrantsToken(p, t) \in C
  BY <1>4, GrantsClose DEF Closed
<1> HIDE DEF c, C, s
<1>6. F \in [1..n -> [C -> C]]
  BY <1>2, <1>5
<1>7. PICK f \in [SUBSET (1..n) -> C] : FoldsOver(f, n, c, F)
  <2> HIDE DEF n, F
  <2>. QED
    BY <1>2, <1>3, <1>6, FoldExists
<1>8. \A S \in SUBSET (1..n) : S # {} => Max(S) \in 1..n
  <2> HIDE DEF n
  <2>. QED
    BY <1>2, MaxOfSome
<1>9. f = [S \in SUBSET DOMAIN s |->
             IF S = {} THEN c ELSE LET x == Max(S) IN GrantsToken(f[S \ {x}], s[x])]
  <2>1. ASSUME NEW S \in SUBSET (1..n), S # {}
        PROVE  f[S] = GrantsToken(f[S \ {Max(S)}], s[Max(S)])
    <3>1. f[S] = F[Max(S)][f[S \ {Max(S)}]] /\ f[S \ {Max(S)}] \in C
      <4> HIDE DEF F, n
      <4>. QED
        BY <1>7, <2>1 DEF FoldsOver
    <3>2. Max(S) \in 1..n
      BY <1>8, <2>1
    <3>. QED
      BY <3>1, <3>2
  <2>2. f[{}] = c
    BY <1>7 DEF FoldsOver
  <2>3. f = [S \in SUBSET (1..n) |-> f[S]]
    OBVIOUS
  <2> HIDE DEF F, n
  <2>. QED
    BY <1>2, <2>1, <2>2, <2>3
<1>10. iter = [S \in SUBSET DOMAIN s |->
             IF S = {} THEN c ELSE LET x == Max(S) IN GrantsToken(iter[S \ {x}], s[x])]
  BY <1>9
<1>11. ParsePolicyGrants(doc, e) = iter[DOMAIN s]
  BY DEF ParsePolicyGrants, FoldLeft, MapThenFoldSet, s, c
<1> HIDE DEF iter, F, n
<1>12. Accumulates(iter, C, GrantsMachine, c, s)
  <2>1. iter[{}] = c
    BY <1>10
  <2>2. ASSUME NEW S \in SUBSET (1..n), S # {}, iter[S \ {Max(S)}] \in C
        PROVE  iter[S] = GrantsMachine[iter[S \ {Max(S)}]][s[Max(S)]]
    <3>1. iter[S] = GrantsToken(iter[S \ {Max(S)}], s[Max(S)])
      BY <1>2, <1>10, <2>2
    <3>2. s[Max(S)] \in TokenSet
      BY <1>2, <1>8, <2>2
    <3>. QED
      BY <1>5, <2>2, <3>1, <3>2
  <2>. QED
    BY <2>1, <2>2 DEF Accumulates, n
<1>13. iter[DOMAIN s] = Run(GrantsMachine, c, s)
  BY <1>1, <1>3, <1>4, <1>12, FoldIsRun
<1>. QED
  BY <1>11, <1>13 DEF c, s

\* The same for extensions_parameter_overrides.
LEMMA OverridesParseIsRun ==
  ASSUME NEW doc \in Documents, NEW e \in [Slots -> O]
  PROVE  ParseParameterOverrides(doc, e) = Run(OverridesMachine, StartParse(e), Tokens(doc))
<1> DEFINE s == Tokens(doc)
    n == Len(s)
    C == Parses(O)
    c == StartParse(e)
    F == [i \in 1..n |-> [p \in C |-> OverridesToken(p, s[i])]]
    iter == CHOOSE iter : iter = [S \in SUBSET DOMAIN s |->
              IF S = {} THEN c ELSE LET x == Max(S) IN OverridesToken(iter[S \ {x}], s[x])]
<1>1. s \in Seq(TokenSet)
  BY LevelTokens
<1>2. n \in Nat /\ DOMAIN s = 1..n /\ \A i \in 1..n : s[i] \in TokenSet
  <2> HIDE DEF s
  <2>. QED
    BY <1>1
<1>3. c \in C
  BY DEF StartParse, Parses, States
<1>4. Closed(OverridesMachine, C, TokenSet)
  BY OverridesClose DEF Machine
<1>5. \A p \in C, t \in TokenSet : OverridesMachine[p][t] = OverridesToken(p, t) /\ OverridesToken(p, t) \in C
  BY <1>4, OverridesClose DEF Closed
<1> HIDE DEF c, C, s
<1>6. F \in [1..n -> [C -> C]]
  BY <1>2, <1>5
<1>7. PICK f \in [SUBSET (1..n) -> C] : FoldsOver(f, n, c, F)
  <2> HIDE DEF n, F
  <2>. QED
    BY <1>2, <1>3, <1>6, FoldExists
<1>8. \A S \in SUBSET (1..n) : S # {} => Max(S) \in 1..n
  <2> HIDE DEF n
  <2>. QED
    BY <1>2, MaxOfSome
<1>9. f = [S \in SUBSET DOMAIN s |->
             IF S = {} THEN c ELSE LET x == Max(S) IN OverridesToken(f[S \ {x}], s[x])]
  <2>1. ASSUME NEW S \in SUBSET (1..n), S # {}
        PROVE  f[S] = OverridesToken(f[S \ {Max(S)}], s[Max(S)])
    <3>1. f[S] = F[Max(S)][f[S \ {Max(S)}]] /\ f[S \ {Max(S)}] \in C
      <4> HIDE DEF F, n
      <4>. QED
        BY <1>7, <2>1 DEF FoldsOver
    <3>2. Max(S) \in 1..n
      BY <1>8, <2>1
    <3>. QED
      BY <3>1, <3>2
  <2>2. f[{}] = c
    BY <1>7 DEF FoldsOver
  <2>3. f = [S \in SUBSET (1..n) |-> f[S]]
    OBVIOUS
  <2> HIDE DEF F, n
  <2>. QED
    BY <1>2, <2>1, <2>2, <2>3
<1>10. iter = [S \in SUBSET DOMAIN s |->
             IF S = {} THEN c ELSE LET x == Max(S) IN OverridesToken(iter[S \ {x}], s[x])]
  BY <1>9
<1>11. ParseParameterOverrides(doc, e) = iter[DOMAIN s]
  BY DEF ParseParameterOverrides, FoldLeft, MapThenFoldSet, s, c
<1> HIDE DEF iter, F, n
<1>12. Accumulates(iter, C, OverridesMachine, c, s)
  <2>1. iter[{}] = c
    BY <1>10
  <2>2. ASSUME NEW S \in SUBSET (1..n), S # {}, iter[S \ {Max(S)}] \in C
        PROVE  iter[S] = OverridesMachine[iter[S \ {Max(S)}]][s[Max(S)]]
    <3>1. iter[S] = OverridesToken(iter[S \ {Max(S)}], s[Max(S)])
      BY <1>2, <1>10, <2>2
    <3>2. s[Max(S)] \in TokenSet
      BY <1>2, <1>8, <2>2
    <3>. QED
      BY <1>5, <2>2, <3>1, <3>2
  <2>. QED
    BY <2>1, <2>2 DEF Accumulates, n
<1>13. iter[DOMAIN s] = Run(OverridesMachine, c, s)
  BY <1>1, <1>3, <1>4, <1>12, FoldIsRun
<1>. QED
  BY <1>11, <1>13 DEF c, s

InUse(result) == [entries |-> result.entries, total |-> result.total]

\* A value that is checked before it is assigned leaves its entries in the array.
LEMMA OverridesHookFacts ==
  ASSUME NEW doc \in OverrideDocs \cup {Unset}, OverridesCheckHook(doc), NEW array
  PROVE  /\ OverridesAssignHook(array, doc) \in Array(O)
         /\ HasOverrides(OverridesAssignHook(array, doc), doc)
<1>1. NoOverrides \in [Slots -> O]
  BY DEF NoOverrides, OverridesEntry, O, OverridesEntries, Strings
<1>2. CASE doc = Unset
  <2>1. OverridesAssignHook(array, doc) = [entries |-> NoOverrides, total |-> 0]
    BY <1>2 DEF OverridesAssignHook
  <2>2. Counted(NoOverrides, 0) = <<>>
    BY DEF Counted
  <2>. QED
    BY <1>1, <1>2, <2>1, <2>2, SlotsAssumption DEF Array, HasOverrides
<1>3. CASE doc # Unset
  <2> DEFINE n == Len(doc.parts)
      p == ParseParameterOverrides(doc, NoOverrides)
      read == OverridesRead(doc, NoOverrides, n)
  <2>1. doc \in Documents /\ 0..n \subseteq Slots /\ n \in Nat
    BY <1>3, ReloadAssumption, NestedKinds DEF Documents
  <2>2. p = Run(OverridesMachine, StartParse(NoOverrides), Tokens(doc))
    BY <1>1, <2>1, OverridesParseIsRun
  <2>3. /\ Outcome(p, WellFormedOverrides(doc), Fine("toplevel_field", n, read), Stuck(O, n))
        /\ doc.kind = "object" => read \in [Slots -> O]
    BY <1>1, <2>1, <2>2, OverridesDocument
  <2>4. ~p.error
    BY <1>3 DEF OverridesCheckHook
  <2>5. OverridesAssignHook(array, doc) = [entries |-> p.entries, total |-> p.total]
    BY <1>3 DEF OverridesAssignHook
  <2> HIDE DEF p, read
  <2>6. WellFormedOverrides(doc)
    BY <2>3, <2>4 DEF Outcome, Stuck
  <2>7. p.entries = read /\ p.total = n /\ doc.kind = "object"
    BY <2>3, <2>6 DEF Outcome, Fine, WellFormedOverrides, ObjectOf
  <2>8. Counted(read, n) = OverridesMeant(doc)
    BY <2>1, <2>6, OverridesMeaning DEF read
  <2>9. n \in Slots
    BY <2>1
  <2> HIDE DEF n
  <2>. QED
    BY <1>3, <2>3, <2>5, <2>7, <2>8, <2>9 DEF Array, HasOverrides
<1>. QED
  BY <1>2, <1>3

\* What the loop at the head of the check hook leaves.
LEMMA FreedGrants ==
  ASSUME NEW array \in Array(G)
  PROVE  /\ FreeGrants(array) \in [Slots -> G]
         /\ NothingLeft(array) => \A i \in Slots : FreeGrants(array)[i].tables = <<>>
<1>1. array.entries \in [Slots -> G] /\ array.total \in Slots /\ Slots \subseteq Nat
  BY SlotsAssumption DEF Array
<1>2. GrantsEntry(Freed, <<>>) \in G /\ GrantsEntry(Freed, <<>>).tables = <<>>
  BY DEF GrantsEntry, G, GrantsEntries
<1>3. ASSUME NEW i \in Slots
      PROVE  /\ FreeGrants(array)[i] \in G
             /\ NothingLeft(array) => FreeGrants(array)[i].tables = <<>>
  <2>1. CASE i < array.total
    BY <1>2, <2>1 DEF FreeGrants
  <2>2. CASE ~(i < array.total)
    <3>1. FreeGrants(array)[i] = array.entries[i]
      BY <2>2 DEF FreeGrants
    <3>2. i >= array.total
      <4>1. i \in Nat /\ array.total \in Nat
        BY <1>1
      <4>. QED
        BY <2>2, <4>1
    <3>. QED
      BY <1>1, <3>1, <3>2 DEF NothingLeft
  <2>. QED
    BY <2>1, <2>2
<1>4. FreeGrants(array) = [i \in Slots |-> FreeGrants(array)[i]]
  BY DEF FreeGrants
<1>. QED
  BY <1>3, <1>4

\* What the check hook of policy_grants leaves of any array, for any value.
LEMMA GrantsHookFacts ==
  ASSUME NEW array \in Array(G), NEW doc \in GrantDocs \cup {Unset},
         NEW result, result = PolicyGrantsCheckHook(array, doc)
  PROVE  /\ InUse(result) \in Array(G) /\ result.ok \in BOOLEAN
         /\ HasGrants(InUse(result), doc)
         /\ NothingLeft(array) /\ result.ok => Clean(InUse(result), doc)
<1> DEFINE e == FreeGrants(array)
<1>1. e \in [Slots -> G] /\ (NothingLeft(array) => \A i \in Slots : e[i].tables = <<>>)
  BY FreedGrants
<1> HIDE DEF e
<1>2. CASE doc = Unset
  <2>1. result = [entries |-> e, total |-> 0, ok |-> TRUE]
    BY <1>2 DEF PolicyGrantsCheckHook, e
  <2>2. GrantsOf(e, 0) = {} /\ Meant(doc) = {}
    BY <1>2 DEF GrantsOf, Meant
  <2>3. InUse(result) = [entries |-> e, total |-> 0] /\ result.ok = TRUE
    BY <2>1 DEF InUse
  <2>4. InUse(result) \in Array(G)
    BY <1>1, <2>3, SlotsAssumption DEF Array
  <2>5. HasGrants(InUse(result), doc)
    BY <1>2, <2>3 DEF HasGrants
  <2>6. NothingLeft(array) => Clean(InUse(result), doc)
    BY <1>1, <2>2, <2>3 DEF Clean, NothingLeft
  <2>. QED
    BY <2>3, <2>4, <2>5, <2>6
<1>3. CASE doc # Unset
  <2> DEFINE n == Len(doc.parts)
      p == ParsePolicyGrants(doc, e)
      read == GrantsRead(doc, e, n)
  <2>1. doc \in Documents /\ 0..n \subseteq Slots /\ n \in Nat
    BY <1>3, ReloadAssumption, NestedKinds DEF Documents
  <2>2. p = Run(GrantsMachine, StartParse(e), Tokens(doc))
    BY <1>1, <2>1, GrantsParseIsRun
  <2>3. /\ Outcome(p, WellFormedGrants(doc), Fine("toplevel_field", n, read), Stuck(G, n))
        /\ doc.kind = "object" => read \in [Slots -> G]
    BY <1>1, <2>1, <2>2, GrantsDocument
  <2>4. result = IF p.error THEN [entries |-> p.entries, total |-> 0, ok |-> FALSE]
                            ELSE [entries |-> p.entries, total |-> p.total, ok |-> TRUE]
    BY <1>3 DEF PolicyGrantsCheckHook, e
  <2> HIDE DEF p
  <2>5. CASE WellFormedGrants(doc)
    <3>1. p = Fine("toplevel_field", n, read) /\ read \in [Slots -> G]
      BY <2>3, <2>5 DEF Outcome, WellFormedGrants, ObjectOf
    <3>2. /\ GrantsMeant(doc) \subseteq GrantsOf(read, n)
          /\ \A grant \in GrantsOf(read, n) : \E i \in DOMAIN doc.parts : doc.parts[i].name = grant[1]
          /\ (\A i \in Slots : e[i].tables = <<>>) => GrantsOf(read, n) = GrantsMeant(doc)
          /\ \A i \in 0..n - 1 : read[i].role \in Texts
          /\ \A i \in Slots : i >= n => read[i] = e[i]
      BY <1>1, <2>1, <2>5, GrantsMeaning
    <3>3. n \in Slots
      BY <2>1
    <3> HIDE DEF read, n
    <3>4. result = [entries |-> read, total |-> n, ok |-> TRUE]
      BY <2>4, <3>1 DEF Fine
    <3>5. InUse(result) = [entries |-> read, total |-> n] /\ result.ok = TRUE
      BY <3>4 DEF InUse
    <3>6. InUse(result) \in Array(G)
      BY <3>1, <3>3, <3>5 DEF Array
    <3>7. HasGrants(InUse(result), doc)
      BY <1>3, <2>5, <3>2, <3>5 DEF HasGrants
    <3>8. NothingLeft(array) => Clean(InUse(result), doc)
      BY <1>1, <1>3, <3>2, <3>5 DEF Clean, Meant, NothingLeft
    <3>. QED
      BY <3>5, <3>6, <3>7, <3>8
  <2>6. CASE ~WellFormedGrants(doc)
    <3>1. p.error /\ p.entries \in [Slots -> G]
      BY <2>3, <2>6 DEF Outcome, Stuck, Parses
    <3>2. result = [entries |-> p.entries, total |-> 0, ok |-> FALSE]
      BY <2>4, <3>1
    <3>. QED
      BY <2>6, <3>1, <3>2, SlotsAssumption DEF InUse, Array, HasGrants
  <2>. QED
    BY <2>5, <2>6
<1>. QED
  BY <1>2, <1>3

-----------------------------------------------------------------------------
(* SettingsReload: the backends *)

\* Whatever value is checked, and in which backend.
LEMMA CheckHookKept ==
  ASSUME GrantsInv, NEW b \in Backends, NEW doc \in GrantDocs \cup {Unset}, CheckGrants(b, doc)
  PROVE  GrantsInv'
<1> DEFINE result == PolicyGrantsCheckHook(pgs[b], doc)
<1>1. /\ pgs \in [Backends -> Array(G)] /\ checked \in [Backends -> GrantDocs \cup {Unset}]
      /\ rejected \in [Backends -> BOOLEAN]
      /\ \A c \in Backends :
           /\ \A i \in Slots : Len(pgs[c].entries[i].tables) <= MaxTables
           /\ HasGrants(pgs[c], checked[c])
           /\ ~rejected[c] => Clean(pgs[c], checked[c])
  BY DEF GrantsInv, G
<1>2. /\ \A i \in Slots : Len(result.entries[i].tables) <= MaxTables
      /\ pgs' = [pgs EXCEPT ![b] = InUse(result)]
      /\ checked' = [checked EXCEPT ![b] = doc]
      /\ rejected' = [rejected EXCEPT ![b] = @ \/ ~result.ok]
  BY DEF CheckGrants, InUse
<1>3. /\ InUse(result) \in Array(G) /\ result.ok \in BOOLEAN
      /\ HasGrants(InUse(result), doc)
      /\ NothingLeft(pgs[b]) /\ result.ok => Clean(InUse(result), doc)
  BY <1>1, GrantsHookFacts
<1>4. InUse(result).entries = result.entries
  BY DEF InUse
<1> HIDE DEF result
<1>5. /\ pgs' \in [Backends -> Array(G)] /\ checked' \in [Backends -> GrantDocs \cup {Unset}]
      /\ pgs'[b] = InUse(result) /\ checked'[b] = doc
      /\ \A c \in Backends : c # b => pgs'[c] = pgs[c] /\ checked'[c] = checked[c]
  BY <1>1, <1>2, <1>3
<1>6. rejected' = [rejected EXCEPT ![b] = rejected[b] \/ ~result.ok]
  BY <1>2
<1>7. (rejected[b] \/ ~result.ok) \in BOOLEAN
  OBVIOUS
<1>8. /\ rejected' \in [Backends -> BOOLEAN]
      /\ rejected'[b] = (rejected[b] \/ ~result.ok)
      /\ \A c \in Backends : c # b => rejected'[c] = rejected[c]
  BY <1>1, <1>6, <1>7, Zenon
<1>9. ~rejected'[b] => Clean(InUse(result), doc)
  BY <1>1, <1>3, <1>8, Zenon DEF Clean
<1>10. ASSUME NEW c \in Backends
      PROVE  /\ \A i \in Slots : Len(pgs'[c].entries[i].tables) <= MaxTables
             /\ HasGrants(pgs'[c], checked'[c])
             /\ ~rejected'[c] => Clean(pgs'[c], checked'[c])
  <2>1. CASE c = b
    BY <1>2, <1>3, <1>4, <1>5, <1>9, <2>1
  <2>2. CASE c # b
    <3>1. pgs'[c] = pgs[c] /\ checked'[c] = checked[c] /\ rejected'[c] = rejected[c]
      BY <1>5, <1>8, <2>2
    <3>. QED
      BY <1>1, <3>1
  <2>. QED
    BY <2>1, <2>2
<1> HIDE DEF Clean, HasGrants
<1>. QED
  BY <1>5, <1>8, <1>10 DEF GrantsInv, G, Clean, HasGrants

\* A step that runs no check hook of policy_grants.
LEMMA GrantsUnchanged ==
  ASSUME GrantsInv, UNCHANGED <<pgs, checked, rejected>>
  PROVE  GrantsInv'
BY DEF GrantsInv, G, HasGrants, Clean, NothingLeft

\* A step that puts no value in force.
LEMMA OverridesUnchanged ==
  ASSUME OverridesInv, UNCHANGED <<value, epos>>, file' \in Values,
         loaded' \in [Backends -> BOOLEAN]
  PROVE  OverridesInv'
BY DEF OverridesInv, O, HasOverrides

\* No setting has a value yet.
LEMMA ReloadInvInit == Init => ReloadInv
<1>. SUFFICES ASSUME Init PROVE ReloadInv
  OBVIOUS
<1>1. NoGrants \in [Slots -> G] /\ \A i \in Slots : NoGrants[i].tables = <<>>
  BY DEF NoGrants, GrantsEntry, G, GrantsEntries, Strings
<1>2. NoOverrides \in [Slots -> O]
  BY DEF NoOverrides, OverridesEntry, O, OverridesEntries, Strings
<1> DEFINE none == [entries |-> NoGrants, total |-> 0]
    no == [entries |-> NoOverrides, total |-> 0]
<1>3. none \in Array(G) /\ HasGrants(none, Unset) /\ Clean(none, Unset)
  <2>1. GrantsOf(NoGrants, 0) = {} /\ Meant(Unset) = {}
    BY DEF GrantsOf, Meant
  <2>. QED
    BY <1>1, <2>1, SlotsAssumption DEF Array, HasGrants, Clean, NothingLeft
<1>4. no \in Array(O) /\ HasOverrides(no, Unset)
  <2>1. Counted(NoOverrides, 0) = <<>>
    BY DEF Counted
  <2>. QED
    BY <1>2, <2>1, SlotsAssumption DEF Array, HasOverrides
<1>5. \A i \in Slots : Len(none.entries[i].tables) <= MaxTables
  BY <1>1, ReloadAssumption
<1> HIDE DEF none, no
<1>6. /\ pgs = [b \in Backends |-> none] /\ epos = [b \in Backends |-> no]
      /\ checked = [b \in Backends |-> Unset] /\ rejected = [b \in Backends |-> FALSE]
      /\ loaded = [b \in Backends |-> TRUE]
      /\ file = [grants |-> Unset, overrides |-> Unset] /\ value = [b \in Backends |-> file]
  BY DEF Init, none, no
<1>7. GrantsInv
  BY <1>3, <1>5, <1>6 DEF GrantsInv, G
<1>8. OverridesInv
  BY <1>4, <1>6 DEF OverridesInv, O, Values
<1>. QED
  BY <1>7, <1>8 DEF ReloadInv

\* A reload, which may end at either setting.
LEMMA ReloadKept ==
  ASSUME ReloadInv, NEW b \in Backends, Reload(b)
  PROVE  ReloadInv'
<1>1. GrantsInv /\ OverridesInv
  BY DEF ReloadInv
<1>2. /\ file \in Values /\ value \in [Backends -> Values] /\ epos \in [Backends -> Array(O)]
      /\ loaded \in [Backends -> BOOLEAN]
      /\ \A c \in Backends : HasOverrides(epos[c], value[c].overrides)
  BY <1>1 DEF OverridesInv, O
<1>3. GrantsInv'
  <2>1. CheckGrants(b, file.grants) \/ UNCHANGED <<pgs, checked, rejected>>
    BY DEF Reload
  <2>2. file.grants \in GrantDocs \cup {Unset}
    BY <1>2 DEF Values
  <2>. QED
    BY <1>1, <2>1, <2>2, CheckHookKept, GrantsUnchanged
<1>4. PICK grants \in GrantDocs \cup {Unset}, overrides \in OverrideDocs \cup {Unset},
           array \in Array(O) :
        /\ value' = [value EXCEPT ![b] = [grants |-> grants, overrides |-> overrides]]
        /\ epos' = [epos EXCEPT ![b] = array]
        /\ HasOverrides(array, overrides)
  <2>1. /\ file.grants \in GrantDocs \cup {Unset} /\ value[b].grants \in GrantDocs \cup {Unset}
        /\ file.overrides \in OverrideDocs \cup {Unset}
        /\ value[b].overrides \in OverrideDocs \cup {Unset}
        /\ epos[b] \in Array(O) /\ HasOverrides(epos[b], value[b].overrides)
    BY <1>2 DEF Values
  <2> DEFINE grants == IF GrantsReached /\ Accepts(b, file.grants)
                         THEN file.grants ELSE value[b].grants
      assign == OverridesReached(b) /\ OverridesCheckHook(file.overrides)
      overrides == IF assign THEN file.overrides ELSE value[b].overrides
      array == IF assign THEN OverridesAssignHook(epos[b], file.overrides) ELSE epos[b]
  <2>2. /\ value' = [value EXCEPT ![b] = [grants |-> grants, overrides |-> overrides]]
        /\ epos' = [epos EXCEPT ![b] = array]
    BY <1>2 DEF Reload
  <2>3. assign => /\ OverridesAssignHook(epos[b], file.overrides) \in Array(O)
                  /\ HasOverrides(OverridesAssignHook(epos[b], file.overrides), file.overrides)
    BY <2>1, OverridesHookFacts
  <2>4. grants \in GrantDocs \cup {Unset}
    BY <2>1
  <2>5. /\ overrides \in OverrideDocs \cup {Unset} /\ array \in Array(O)
        /\ HasOverrides(array, overrides)
    <3> HIDE DEF grants
    <3>1. CASE assign
      BY <2>1, <2>3, <3>1
    <3>2. CASE ~assign
      BY <2>1, <3>2
    <3>. QED
      BY <3>1, <3>2
  <2> HIDE DEF grants, overrides, array
  <2>. QED
    BY <2>2, <2>4, <2>5
<1>5. value' \in [Backends -> Values] /\ epos' \in [Backends -> Array(O)]
  BY <1>2, <1>4 DEF Values
<1>6. \A c \in Backends : HasOverrides(epos'[c], value'[c].overrides)
  <2>1. ASSUME NEW c \in Backends PROVE HasOverrides(epos'[c], value'[c].overrides)
    <3>1. CASE c = b
      <4>1. epos'[c] = array /\ value'[c].overrides = overrides
        BY <1>2, <1>4, <3>1
      <4>. QED
        BY <1>4, <4>1
    <3>2. CASE c # b
      <4>1. epos'[c] = epos[c] /\ value'[c] = value[c]
        BY <1>2, <1>4, <3>2
      <4>. QED
        BY <1>2, <4>1
    <3>. QED
      BY <3>1, <3>2
  <2>. QED
    BY <2>1
<1>7. file' \in Values /\ loaded' \in [Backends -> BOOLEAN]
  <2>1. file' = file /\ loaded' = [loaded EXCEPT ![b] = value'[b] = file]
    BY DEF Reload
  <2>2. (value'[b] = file) \in BOOLEAN
    OBVIOUS
  <2>. QED
    BY <1>2, <2>1, <2>2, Zenon
<1>8. OverridesInv'
  BY <1>5, <1>6, <1>7 DEF OverridesInv, O, HasOverrides
<1>. QED
  BY <1>3, <1>8 DEF ReloadInv

\* Every step keeps the invariant.
LEMMA ReloadInvNext == ReloadInv /\ [Next]_vars => ReloadInv'
<1>. SUFFICES ASSUME ReloadInv, [Next]_vars PROVE ReloadInv'
  OBVIOUS
<1>1. GrantsInv /\ OverridesInv
  BY DEF ReloadInv
<1>2. file \in Values /\ loaded \in [Backends -> BOOLEAN]
  BY <1>1 DEF OverridesInv, O
<1>3. \A b \in Backends : [loaded EXCEPT ![b] = FALSE] \in [Backends -> BOOLEAN]
  BY <1>2
<1>4. /\ \A doc \in GrantDocs \cup {Unset} : [file EXCEPT !.grants = doc] \in Values
      /\ \A doc \in OverrideDocs \cup {Unset} : [file EXCEPT !.overrides = doc] \in Values
  BY <1>2 DEF Values
<1>5. ASSUME NEW b \in Backends, NEW doc \in GrantDocs, AlterSystemGrants(b, doc)
      PROVE  ReloadInv'
  <2>1. /\ CheckGrants(b, doc) /\ UNCHANGED <<value, epos>>
        /\ file' \in Values /\ loaded' \in [Backends -> BOOLEAN]
    BY <1>2, <1>3, <1>4, <1>5 DEF AlterSystemGrants
  <2>. QED
    BY <1>1, <2>1, CheckHookKept, OverridesUnchanged DEF ReloadInv
<1>6. ASSUME NEW b \in Backends, NEW doc \in OverrideDocs, AlterSystemOverrides(b, doc)
      PROVE  ReloadInv'
  <2>1. /\ UNCHANGED <<pgs, checked, rejected>> /\ UNCHANGED <<value, epos>>
        /\ file' \in Values /\ loaded' \in [Backends -> BOOLEAN]
    BY <1>2, <1>4, <1>6 DEF AlterSystemOverrides
  <2>. QED
    BY <1>1, <2>1, GrantsUnchanged, OverridesUnchanged DEF ReloadInv
<1>7. ASSUME NEW doc \in GrantDocs \cup {Unset}, EditFile("grants", doc)
      PROVE  ReloadInv'
  <2>1. /\ UNCHANGED <<pgs, checked, rejected>> /\ UNCHANGED <<value, epos>>
        /\ file' \in Values /\ loaded' \in [Backends -> BOOLEAN]
    BY <1>2, <1>4, <1>7 DEF EditFile
  <2>. QED
    BY <1>1, <2>1, GrantsUnchanged, OverridesUnchanged DEF ReloadInv
<1>8. ASSUME NEW doc \in OverrideDocs \cup {Unset}, EditFile("overrides", doc)
      PROVE  ReloadInv'
  <2>1. /\ UNCHANGED <<pgs, checked, rejected>> /\ UNCHANGED <<value, epos>>
        /\ file' \in Values /\ loaded' \in [Backends -> BOOLEAN]
    BY <1>2, <1>4, <1>8 DEF EditFile
  <2>. QED
    BY <1>1, <2>1, GrantsUnchanged, OverridesUnchanged DEF ReloadInv
<1>9. ASSUME NEW b \in Backends, ViewFileSettings(b)
      PROVE  ReloadInv'
  <2>1. /\ CheckGrants(b, file.grants) /\ UNCHANGED <<value, epos>>
        /\ file' \in Values /\ loaded' \in [Backends -> BOOLEAN]
    BY <1>2, <1>3, <1>9 DEF ViewFileSettings
  <2>2. file.grants \in GrantDocs \cup {Unset}
    BY <1>2 DEF Values
  <2>. QED
    BY <1>1, <2>1, <2>2, CheckHookKept, OverridesUnchanged DEF ReloadInv
<1>10. CASE UNCHANGED vars
  <2>1. /\ UNCHANGED <<pgs, checked, rejected>> /\ UNCHANGED <<value, epos>>
        /\ file' \in Values /\ loaded' \in [Backends -> BOOLEAN]
    BY <1>2, <1>10 DEF vars
  <2>. QED
    BY <1>1, <2>1, GrantsUnchanged, OverridesUnchanged DEF ReloadInv
<1>. QED
  BY <1>5, <1>6, <1>7, <1>8, <1>9, <1>10, ReloadKept DEF Next

\* What the hooks leave in the arrays of every backend, for any number of
\* backends and any values that have room: the inductive invariant.
THEOREM Invariance == Spec => []ReloadInv
BY ReloadInvInit, ReloadInvNext, PTL DEF Spec

-----------------------------------------------------------------------------
(* What follows for every backend, every value and every order of checks *)

\* The overrides in use are those of the value in force, whatever was checked,
\* rejected or left in the file: the assign hook starts from a cleared array.
THEOREM OverridesMatch == Spec => []OverridesMatchSetting
<1>1. ReloadInv => OverridesMatchSetting
  BY DEF ReloadInv, OverridesInv, O, HasOverrides, OverridesMatchSetting, Overrides
<1>. QED
  BY <1>1, Invariance, PTL

\* No entry in use holds a role name that a check has freed.
THEOREM GrantsNeverDangle == Spec => []NoDanglingGrants
<1>1. ReloadInv => NoDanglingGrants
  <2>. SUFFICES ASSUME ReloadInv, NEW b \in Backends, NEW i \in 0..pgs[b].total - 1
                PROVE  pgs[b].entries[i].role \notin {Freed, Unset}
    BY DEF NoDanglingGrants
  <2>1. HasGrants(pgs[b], checked[b])
    BY DEF ReloadInv, GrantsInv, G
  <2>2. pgs[b].entries[i].role \in Texts
    <3>1. CASE checked[b] = Unset \/ ~WellFormedGrants(checked[b])
      BY <2>1, <3>1 DEF HasGrants
    <3>2. CASE ~(checked[b] = Unset \/ ~WellFormedGrants(checked[b]))
      BY <2>1, <3>2 DEF HasGrants
    <3>. QED
      BY <3>1, <3>2
  <2>. QED
    BY <2>2, TextsAssumption
<1>. QED
  BY <1>1, Invariance, PTL

\* As long as no check failed, a backend acts on the value checked last.
THEOREM GrantsFollowChecks == Spec => []GrantsFollowLastCheck
<1>1. ReloadInv => GrantsFollowLastCheck
  BY DEF ReloadInv, GrantsInv, G, Clean, GrantsFollowLastCheck, Grants
<1>. QED
  BY <1>1, Invariance, PTL

\* What a rejected check leaves behind stays out of use until a value is
\* accepted, and then goes to no role that the value does not name.
THEOREM RejectionsAreConfined == Spec => []RejectionIsConfined
<1>1. ReloadInv => RejectionIsConfined
  <2>. SUFFICES ASSUME ReloadInv, NEW b \in Backends
                PROVE  IF checked[b] # Unset /\ ~WellFormedGrants(checked[b])
                         THEN Grants(b) = {}
                         ELSE /\ Meant(checked[b]) \subseteq Grants(b)
                              /\ \A grant \in Grants(b) : \E i \in DOMAIN checked[b].parts :
                                   checked[b].parts[i].name = grant[1]
    BY DEF RejectionIsConfined
  <2>1. HasGrants(pgs[b], checked[b])
    BY DEF ReloadInv, GrantsInv, G
  <2>2. CASE checked[b] = Unset \/ ~WellFormedGrants(checked[b])
    <3>1. Grants(b) = {}
      <4>1. pgs[b].total = 0
        BY <2>1, <2>2 DEF HasGrants
      <4>. QED
        BY <4>1 DEF Grants, GrantsOf
    <3>. QED
      BY <2>2, <3>1 DEF Meant
  <2>3. CASE checked[b] # Unset /\ WellFormedGrants(checked[b])
    BY <2>1, <2>3 DEF HasGrants, Meant, Grants
  <2>. QED
    BY <2>2, <2>3
<1>. QED
  BY <1>1, Invariance, PTL

=============================================================================
