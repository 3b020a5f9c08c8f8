------------------------------- MODULE Lexer_proofs -------------------------------
(***************************************************************************)
(* For every text and every limit, tokenize does what Scanner promises:    *)
(* each of its steps takes the longest lexeme, skips a blank, reports an   *)
(* error or changes nothing there; unless a word begins with "br", which   *)
(* the automaton takes for the beginning of "return".                      *)
(***************************************************************************)
EXTENDS Lexer, TLAPS, SequenceTheorems, WellFoundedInduction

(* The state tells what is in the buffer.                                   *)
Tells(s, c) ==
  /\ s = STATE0 <=> c = <<>>
  /\ c # <<>> => Promise!IsLexeme(c)
  /\ s \in WordState \cup OneSign \cup TwoSigns => c = s
  /\ s = IDENTIFIER => Promise!IsWord(c) /\ c \notin WordState
  /\ s = NUMBER => Promise!IsNumber(c)
  /\ s = COMMENT => Promise!IsBlockComment(c) /\ (Len(c) > 1 => c[Len(c)] # "#")
  /\ s = COMMENT_END => Promise!IsBlockComment(c) /\ Len(c) > 1 /\ c[Len(c)] = "#"
  /\ s = COMMENT_SINGLE_LINE => Promise!IsLineComment(c)
  /\ s = STRING_LITERAL => Promise!IsString(c) /\ (Len(c) > 1 => c[Len(c)] # "\"")
  /\ s = STRING_LITERAL_END => Promise!IsString(c) /\ Len(c) > 1 /\ c[Len(c)] = "\""

Inv ==
  /\ TypeOK
  /\ Tells(state, current_token)
  /\ phase # "scan" => pos > Len(text)

(* The row of B is not asked for 'r'.                                       *)
NoWordBeginsWithBr == state = <<"b">> /\ pos <= Len(text) => text[pos] # "r"

-----------------------------------------------------------------------------
(* Characters *)

Marks == {"#", "\""}
Named == {"NUMBER", "IDENTIFIER", "COMMENT", "COMMENT_END", "COMMENT_SINGLE_LINE",
          "STRING_LITERAL", "STRING_LITERAL_END", "ERROR"}

LEMMA CharactersDiffer ==
  /\ Letter \cap Digit = {} /\ Letter \cap Promise!Sign = {} /\ Letter \cap Marks = {}
  /\ Letter \cap Promise!Blank = {} /\ Letter \cap Named = {}
<1>1. Letter \cap Digit = {}
  BY DEF Letter, Digit
<1>2. Letter \cap Promise!Sign = {}
  BY DEF Letter, Promise!Sign
<1>3. Letter \cap Marks = {} /\ Letter \cap Promise!Blank = {}
  BY DEF Letter, Marks, Promise!Blank
<1>4. Letter \cap Named = {}
  BY DEF Letter, Named
<1> QED
  BY <1>1, <1>2, <1>3, <1>4

LEMMA SignsDiffer ==
  /\ Digit \cap Promise!Sign = {} /\ Digit \cap Marks = {} /\ Digit \cap Promise!Blank = {}
  /\ Promise!Sign \cap Marks = {} /\ Promise!Sign \cap Promise!Blank = {}
  /\ Promise!Sign \cap Named = {} /\ Marks \cap Promise!Blank = {}
  /\ Promise!Letter = Letter /\ Promise!Digit = Digit
  /\ Promise!Known = Available_Lookup
  /\ Promise!Known = Letter \cup Digit \cup Promise!Sign \cup Promise!Blank \cup Marks
  /\ OneSign = {<<x>> : x \in Promise!Sign}
  /\ Promise!Operator = OneSign \cup TwoSigns
  /\ "/" \in Promise!Sign /\ "-" \in Promise!Sign /\ "b" \in Letter /\ "r" \in Letter
  /\ {"\n", "\t", "\r"} \subseteq Promise!Blank
<1>0. Promise!Letter = Letter /\ Promise!Digit = Digit
  BY DEF Promise!Letter, Letter, Promise!Digit, Digit
<1>1. /\ Digit \cap Promise!Sign = {} /\ Digit \cap Marks = {} /\ Digit \cap Promise!Blank = {}
      /\ Promise!Sign \cap Marks = {} /\ Promise!Sign \cap Promise!Blank = {}
      /\ Promise!Sign \cap Named = {} /\ Marks \cap Promise!Blank = {}
  BY DEF Digit, Promise!Sign, Marks, Promise!Blank, Named
<1>2. \A x : x \in Promise!Known <=> x \in Available_Lookup
  BY <1>0 DEF Promise!Known, Available_Lookup, Promise!Blank, Promise!Sign
<1>3. \A x : x \in Promise!Known
        <=> x \in Letter \cup Digit \cup Promise!Sign \cup Promise!Blank \cup Marks
  BY <1>0 DEF Promise!Known, Marks
<1>4. OneSign = {<<x>> : x \in Promise!Sign}
  BY DEF OneSign, Promise!Sign
<1>5. Promise!Operator = OneSign \cup TwoSigns
  BY <1>4 DEF Promise!Operator, TwoSigns
<1>6. /\ "/" \in Promise!Sign /\ "-" \in Promise!Sign /\ "b" \in Letter /\ "r" \in Letter
      /\ {"\n", "\t", "\r"} \subseteq Promise!Blank
  BY DEF Promise!Sign, Letter, Promise!Blank
<1> QED
  BY <1>0, <1>1, <1>2, <1>3, <1>4, <1>5, <1>6

-----------------------------------------------------------------------------
(* Words *)

LEMMA ReservedWords ==
  ASSUME NEW w \in Reserved
  PROVE  w \in Seq(Letter) /\ Len(w) >= 1
<1> DEFINE Word(v) == v \in Seq(Letter) /\ Len(v) >= 1
<1>1. {"a", "b", "c", "d", "e", "f", "g", "h", "i", "k", "l", "n", "o", "p", "r", "s",
       "t", "u", "w"} \subseteq Letter
  BY DEF Letter
<1>2. /\ Word(<<"b", "o", "o", "l">>)
      /\ Word(<<"b", "r", "e", "a", "k">>)
      /\ Word(<<"c", "a", "l", "l">>)
  BY <1>1
<1>3. /\ Word(<<"c", "h", "a", "n", "g", "e">>)
      /\ Word(<<"d", "o">>)
      /\ Word(<<"e", "l", "s", "e">>)
  BY <1>1
<1>4. /\ Word(<<"f", "a", "l", "s", "e">>)
      /\ Word(<<"f", "o", "r">>)
      /\ Word(<<"f", "u", "n", "c", "t", "i", "o", "n">>)
  BY <1>1
<1>5. /\ Word(<<"g", "e", "t">>)
      /\ Word(<<"g", "e", "t", "s">>)
      /\ Word(<<"i", "f">>)
  BY <1>1
<1>6. /\ Word(<<"i", "n", "t">>)
      /\ Word(<<"p", "r", "i", "n", "t">>)
      /\ Word(<<"r", "e", "t", "u", "r", "n">>)
  BY <1>1
<1>7. /\ Word(<<"r", "e", "t", "u", "r", "n", "s">>)
      /\ Word(<<"t", "r", "u", "e">>)
      /\ Word(<<"w", "h", "i", "l", "e">>)
  BY <1>1
<1> HIDE DEF Word
<1>8. Word(w)
  BY <1>2, <1>3, <1>4, <1>5, <1>6, <1>7, Zenon DEF Reserved
<1> QED
  BY <1>8 DEF Word

(* Two signs in a row.                                                      *)
LEMMA TwoSignsWords ==
  ASSUME NEW w \in TwoSigns
  PROVE  /\ w \in Seq(Promise!Sign) /\ Len(w) = 2 /\ w[1] \in Promise!Sign /\ w[2] \in Promise!Sign
         /\ ~ (w[1] = "/" /\ w[2] = "/")
<1> DEFINE Pair(v) == /\ v \in Seq(Promise!Sign) /\ Len(v) = 2
                      /\ v[1] \in Promise!Sign /\ v[2] \in Promise!Sign /\ v[1] # "/"
<1>1. {"!", "=", ">", "<", "&", "|"} \subseteq Promise!Sign
  BY DEF Promise!Sign
<1>2. ASSUME NEW p \in Promise!Sign, NEW q \in Promise!Sign, p # "/"
      PROVE  Pair(<<p, q>>)
  BY <1>2
<1> HIDE DEF Pair
<1>3. /\ Pair(<<"!", "=">>) /\ Pair(<<"=", "=">>) /\ Pair(<<">", "=">>)
      /\ Pair(<<"<", "=">>) /\ Pair(<<"&", "&">>) /\ Pair(<<"|", "|">>)
  BY <1>1, <1>2
<1>4. Pair(w)
  BY <1>3, Zenon DEF TwoSigns
<1> QED
  BY <1>4 DEF Pair

LEMMA BeginningsOfWords ==
  /\ \A w \in WordState : w \in Seq(Letter) /\ Len(w) >= 1
  /\ Reserved \subseteq WordState
  /\ \A w \in WordState : \A n \in 1..Len(w) : SubSeq(w, 1, n) \in WordState
<1>1. ASSUME NEW w \in WordState
      PROVE  /\ w \in Seq(Letter) /\ Len(w) >= 1
             /\ \A n \in 1..Len(w) : SubSeq(w, 1, n) \in WordState
  <2>1. PICK r \in Reserved : \E k \in 1..Len(r) : w = SubSeq(r, 1, k)
    BY DEF WordState
  <2>2. r \in Seq(Letter) /\ Len(r) \in Nat
    BY ReservedWords
  <2>3. PICK k \in 1..Len(r) : w = SubSeq(r, 1, k)
    BY <2>1
  <2>4. /\ w \in Seq(Letter) /\ Len(w) = k /\ k \in Nat /\ k >= 1
        /\ \A i \in 1..k : w[i] = r[i]
    BY <2>3, <2>2
  <2>5. ASSUME NEW n \in 1..k
        PROVE  SubSeq(w, 1, n) = SubSeq(r, 1, n) /\ n \in 1..Len(r)
    BY <2>3, <2>2, <2>4
  <2> QED
    BY <2>4, <2>5 DEF WordState
<1>2. ASSUME NEW r \in Reserved
      PROVE  r \in WordState
  <2>1. r \in Seq(Letter) /\ Len(r) \in 1..Len(r)
    BY ReservedWords
  <2>2. r = SubSeq(r, 1, Len(r))
    BY <2>1, SubSeqFull
  <2>3. r \in {SubSeq(r, 1, n) : n \in 1..Len(r)}
    BY ONLY <2>1, <2>2
  <2> QED
    BY <2>3 DEF WordState
<1> QED
  BY <1>1, <1>2

-----------------------------------------------------------------------------
(* Lexemes *)

(* What a lexeme begins with.                                               *)
LEMMA FirstCharacter ==
  ASSUME NEW T, NEW c \in Seq(T), Len(c) >= 1
  PROVE  /\ Promise!IsWord(c) => c[1] \in Letter
         /\ Promise!IsNumber(c) => c[1] \in Digit
         /\ Promise!IsString(c) => c[1] = "\""
         /\ Promise!IsBlockComment(c) => c[1] = "#"
         /\ Promise!IsLineComment(c) => Len(c) > 1 /\ c[1] = "/" /\ c[2] = "/"
         /\ c \in OneSign => c[1] \in Promise!Sign /\ c = <<c[1]>> /\ Len(c) = 1
         /\ c \in TwoSigns => /\ c[1] \in Promise!Sign /\ Len(c) = 2
                              /\ ~ (c[1] = "/" /\ c[2] = "/")
<1>1. Promise!IsWord(c) => c[1] \in Letter
  BY SignsDiffer DEF Promise!IsWord
<1>2. Promise!IsNumber(c) => c[1] \in Digit
  BY SignsDiffer DEF Promise!IsNumber, Promise!Between
<1>3. /\ Promise!IsString(c) => c[1] = "\""
      /\ Promise!IsBlockComment(c) => c[1] = "#"
      /\ Promise!IsLineComment(c) => Len(c) > 1 /\ c[1] = "/" /\ c[2] = "/"
  BY DEF Promise!IsString, Promise!IsBlockComment, Promise!IsLineComment, Promise!Delimited
<1>4. ASSUME c \in OneSign
      PROVE  c[1] \in Promise!Sign /\ c = <<c[1]>> /\ Len(c) = 1
  <2>1. PICK g \in Promise!Sign : c = <<g>>
    BY <1>4, SignsDiffer
  <2>2. Len(c) = 1 /\ c[1] = g
    BY <2>1
  <2> QED
    BY <2>1, <2>2
<1>5. c \in TwoSigns => /\ c[1] \in Promise!Sign /\ Len(c) = 2
                        /\ ~ (c[1] = "/" /\ c[2] = "/")
  BY TwoSignsWords
<1> QED
  BY <1>1, <1>2, <1>3, <1>4, <1>5

(* So the first character tells the kind of a lexeme.                       *)
LEMMA KindsDiffer ==
  ASSUME NEW T, NEW c \in Seq(T), Len(c) >= 1, Promise!IsLexeme(c)
  PROVE  /\ c[1] \in Letter => Promise!IsWord(c)
         /\ c[1] \in Digit => Promise!IsNumber(c)
         /\ c[1] = "\"" => Promise!IsString(c)
         /\ c[1] = "#" => Promise!IsBlockComment(c)
         /\ c[1] \in Promise!Sign => Promise!IsLineComment(c) \/ c \in OneSign \cup TwoSigns
<1>1. \/ Promise!IsWord(c) \/ Promise!IsNumber(c) \/ Promise!IsString(c)
      \/ Promise!IsBlockComment(c) \/ Promise!IsLineComment(c) \/ c \in OneSign \/ c \in TwoSigns
  BY SignsDiffer DEF Promise!IsLexeme, Promise!IsComment
<1>2. /\ "\"" \in Marks /\ "#" \in Marks /\ "\"" # "#" /\ "/" \in Promise!Sign
  BY SignsDiffer DEF Marks
<1> QED
  BY <1>1, <1>2, FirstCharacter, CharactersDiffer, SignsDiffer

LEMMA Counting ==
  ASSUME NEW n \in Nat, n >= 1
  PROVE  (n > 1 \/ n = 1) /\ ~ (n > 1 /\ n = 1) /\ (n + 1 = 2 => n = 1) /\ n + 1 # 1
OBVIOUS

LEMMA Appended ==
  ASSUME NEW T, NEW c \in Seq(T), Len(c) >= 1, NEW x \in T
  PROVE  LET d == Append(c, x) IN
         /\ d \in Seq(T) /\ Len(c) \in Nat /\ Len(d) = Len(c) + 1
         /\ Len(c) > 1 \/ Len(c) = 1
         /\ d[Len(d)] = x /\ d[1] = c[1]
         /\ \A i \in 1..Len(c) : d[i] = c[i]
<1> DEFINE d == Append(c, x)
<1>1. /\ d \in Seq(T) /\ Len(c) \in Nat /\ Len(d) = Len(c) + 1
      /\ \A i \in 1..Len(c) : d[i] = c[i]
      /\ d[Len(c) + 1] = x
  BY AppendProperties, LenProperties
<1> HIDE DEF d
<1>2. d[1] = c[1] /\ d[Len(d)] = x
  BY <1>1
<1>3. Len(c) > 1 \/ Len(c) = 1
  BY <1>1, Counting
<1> QED
  BY <1>1, <1>2, <1>3 DEF d

LEMMA ExtendDelimited ==
  ASSUME NEW T, NEW c \in Seq(T), Len(c) >= 1, NEW x \in T, NEW o, NEW S, NEW e
  PROVE  Promise!Delimited(Append(c, x), o, S, e) <=>
           /\ Promise!Delimited(c, o, S, e)
           /\ Len(c) > 1 => c[Len(c)] \in S
           /\ x \in S \cup {e}
<1> DEFINE d == Append(c, x)
<1>1. /\ Len(c) \in Nat /\ Len(d) = Len(c) + 1 /\ d[Len(d)] = x
      /\ \A i \in 1..Len(c) : d[i] = c[i]
  BY Appended
<1> HIDE DEF d
<1>2. d[1] = c[1]
  BY <1>1
<1>3. ASSUME Promise!Delimited(d, o, S, e)
      PROVE  /\ Promise!Delimited(c, o, S, e)
             /\ Len(c) > 1 => c[Len(c)] \in S
             /\ x \in S \cup {e}
  <2>1. \A k \in 2..Len(c) : c[k] \in S
    <3> SUFFICES ASSUME NEW k \in 2..Len(c) PROVE c[k] \in S
      OBVIOUS
    <3>1. k \in 2..Len(d) - 1 /\ d[k] = c[k]
      BY <1>1
    <3> QED
      BY <3>1, <1>3 DEF Promise!Delimited, Promise!Between
  <2>2. x \in S \cup {e}
    BY <1>3, <1>1 DEF Promise!Delimited
  <2> QED
    BY <2>1, <2>2, <1>1, <1>2, <1>3 DEF Promise!Delimited, Promise!Between
<1>4. ASSUME Promise!Delimited(c, o, S, e), Len(c) > 1 => c[Len(c)] \in S, x \in S \cup {e}
      PROVE  Promise!Delimited(d, o, S, e)
  <2>1. \A k \in 2..Len(c) : c[k] \in S
    BY <1>4, <1>1 DEF Promise!Delimited, Promise!Between
  <2>2. \A k \in 2..Len(d) - 1 : d[k] \in S
    BY <2>1, <1>1
  <2> QED
    BY <2>2, <1>1, <1>2, <1>4 DEF Promise!Delimited, Promise!Between
<1> QED
  BY <1>3, <1>4 DEF d

(* What a lexeme can go on with.                                            *)
LEMMA Extended ==
  ASSUME NEW T, NEW c \in Seq(T), Len(c) >= 1, NEW x \in T
  PROVE  LET d == Append(c, x) IN
         /\ Promise!IsWord(d) <=> Promise!IsWord(c) /\ x \in Letter \cup Digit
         /\ Promise!IsNumber(d) <=> Promise!IsNumber(c) /\ x \in Digit
         /\ Promise!IsString(d) <=>
              /\ Promise!IsString(c) /\ (Len(c) > 1 => c[Len(c)] # "\"")
              /\ x \in Promise!Known \ {"-", "\n", "\t", "\r"}
         /\ Promise!IsBlockComment(d) <=>
              /\ Promise!IsBlockComment(c) /\ (Len(c) > 1 => c[Len(c)] # "#")
              /\ x \in Promise!Known \ {"-"}
         /\ Promise!IsLineComment(d) <=>
              \/ Promise!IsLineComment(c) /\ x \in Promise!Known \ {"\n", "-"}
              \/ c = <<"/">> /\ x = "/"
         /\ d \in OneSign \cup TwoSigns => d \in TwoSigns /\ Len(c) = 1
<1> DEFINE d == Append(c, x)
<1>1. /\ Len(c) \in Nat /\ Len(d) = Len(c) + 1 /\ d[Len(d)] = x /\ d[1] = c[1]
      /\ \A i \in 1..Len(c) : d[i] = c[i]
      /\ d \in Seq(T)
  BY Appended
<1> HIDE DEF d
<1>2. Promise!IsWord(d) <=> Promise!IsWord(c) /\ x \in Letter \cup Digit
  <2>1. ASSUME Promise!IsWord(d)
        PROVE  Promise!IsWord(c) /\ x \in Letter \cup Digit
    BY <2>1, <1>1, SignsDiffer DEF Promise!IsWord, Promise!Between
  <2>2. ASSUME Promise!IsWord(c), x \in Letter \cup Digit
        PROVE  Promise!IsWord(d)
    BY <2>2, <1>1, SignsDiffer DEF Promise!IsWord, Promise!Between
  <2> QED
    BY <2>1, <2>2
<1>3. Promise!IsNumber(d) <=> Promise!IsNumber(c) /\ x \in Digit
  BY <1>1, SignsDiffer DEF Promise!IsNumber, Promise!Between
<1>4. "\"" \in Promise!Known /\ "#" \in Promise!Known
  BY SignsDiffer DEF Marks
<1>5. Promise!IsString(d) <=>
              /\ Promise!IsString(c) /\ (Len(c) > 1 => c[Len(c)] # "\"")
              /\ x \in Promise!Known \ {"-", "\n", "\t", "\r"}
  <2> DEFINE S == Promise!Known \ {"\"", "-", "\n", "\t", "\r"}
  <2> HIDE DEF S
  <2>1. Promise!Delimited(d, "\"", S, "\"") <=>
           /\ Promise!Delimited(c, "\"", S, "\"")
           /\ Len(c) > 1 => c[Len(c)] \in S
           /\ x \in S \cup {"\""}
    BY ExtendDelimited DEF d
  <2>2. Promise!Delimited(c, "\"", S, "\"") /\ Len(c) > 1 => c[Len(c)] \in S \cup {"\""}
    BY DEF Promise!Delimited
  <2>3. S \cup {"\""} = Promise!Known \ {"-", "\n", "\t", "\r"} /\ "\"" \notin S
    BY <1>4 DEF S
  <2> QED
    BY <2>1, <2>2, <2>3 DEF S, Promise!IsString
<1>6. Promise!IsBlockComment(d) <=>
              /\ Promise!IsBlockComment(c) /\ (Len(c) > 1 => c[Len(c)] # "#")
              /\ x \in Promise!Known \ {"-"}
  <2> DEFINE S == Promise!Known \ {"#", "-"}
  <2> HIDE DEF S
  <2>1. Promise!Delimited(d, "#", S, "#") <=>
           /\ Promise!Delimited(c, "#", S, "#")
           /\ Len(c) > 1 => c[Len(c)] \in S
           /\ x \in S \cup {"#"}
    BY ExtendDelimited DEF d
  <2>2. Promise!Delimited(c, "#", S, "#") /\ Len(c) > 1 => c[Len(c)] \in S \cup {"#"}
    BY DEF Promise!Delimited
  <2>3. S \cup {"#"} = Promise!Known \ {"-"} /\ "#" \notin S
    BY <1>4 DEF S
  <2> QED
    BY <2>1, <2>2, <2>3 DEF S, Promise!IsBlockComment
<1>7. Promise!IsLineComment(d) <=>
              \/ Promise!IsLineComment(c) /\ x \in Promise!Known \ {"\n", "-"}
              \/ c = <<"/">> /\ x = "/"
  <2>1. ASSUME Promise!IsLineComment(d), Len(c) > 1
        PROVE  Promise!IsLineComment(c) /\ x \in Promise!Known \ {"\n", "-"}
    BY <2>1, <1>1 DEF Promise!IsLineComment, Promise!Between
  <2>2. ASSUME Promise!IsLineComment(d), Len(c) = 1
        PROVE  c = <<"/">> /\ x = "/"
    <3>1. c[1] = "/" /\ x = "/"
      BY <2>2, <1>1 DEF Promise!IsLineComment
    <3> QED
      BY <3>1, <2>2
  <2>3. ASSUME Promise!IsLineComment(c), x \in Promise!Known \ {"\n", "-"}
        PROVE  Promise!IsLineComment(d)
    BY <2>3, <1>1 DEF Promise!IsLineComment, Promise!Between
  <2>4. ASSUME c = <<"/">>, x = "/"
        PROVE  Promise!IsLineComment(d)
    <3>1. Len(c) = 1 /\ c[1] = "/"
      BY <2>4
    <3> QED
      BY <3>1, <2>4, <1>1 DEF Promise!IsLineComment, Promise!Between
  <2>5. Len(c) > 1 \/ Len(c) = 1
    BY Appended
  <2> QED
    BY ONLY <2>1, <2>2, <2>3, <2>4, <2>5, Zenon
<1>8. d \in OneSign \cup TwoSigns => d \in TwoSigns /\ Len(c) = 1
  <2>1. (d \in OneSign => Len(d) = 1) /\ (d \in TwoSigns => Len(d) = 2)
    <3>1. Len(d) >= 1
      BY <1>1
    <3> QED
      BY <1>1, <3>1, FirstCharacter
  <2>2. Len(c) \in Nat /\ Len(d) = Len(c) + 1
    BY <1>1
  <2>3. d \notin OneSign
    BY <2>1, <2>2, Counting
  <2>4. d \in TwoSigns => Len(c) = 1
    BY <2>1, <2>2, Counting
  <2> QED
    BY <2>3, <2>4
<1> QED
  BY <1>2, <1>3, <1>5, <1>6, <1>7, <1>8 DEF d

-----------------------------------------------------------------------------
(* States *)

Names == {NUMBER, IDENTIFIER, COMMENT, COMMENT_END, COMMENT_SINGLE_LINE,
          STRING_LITERAL, STRING_LITERAL_END, ERROR}

LEMMA WordStates ==
  ASSUME NEW s \in WordState
  PROVE  s[1] \in Letter /\ Len(s) >= 1 /\ Promise!IsWord(s)
<1>1. s \in Seq(Letter) /\ Len(s) >= 1
  BY BeginningsOfWords
<1> QED
  BY <1>1, SignsDiffer DEF Promise!IsWord, Promise!Between

(* Each state has one meaning.                                              *)
LEMMA StatesDiffer ==
  /\ STATE0 \notin Names \cup WordState \cup OneSign \cup TwoSigns
  /\ Names \cap WordState = {} /\ Names \cap OneSign = {} /\ Names \cap TwoSigns = {}
  /\ WordState \cap OneSign = {} /\ WordState \cap TwoSigns = {} /\ OneSign \cap TwoSigns = {}
<1>1. ASSUME NEW s \in Names
      PROVE  Len(s) = 1 /\ s[1] \in Named
  BY DEF Names, Named, NUMBER, IDENTIFIER, COMMENT, COMMENT_END, COMMENT_SINGLE_LINE,
         STRING_LITERAL, STRING_LITERAL_END, ERROR
<1>2. ASSUME NEW s \in OneSign
      PROVE  Len(s) = 1 /\ s[1] \in Promise!Sign
  <2>1. PICK g \in Promise!Sign : s = <<g>>
    BY SignsDiffer
  <2> QED
    BY <2>1
<1>3. ASSUME NEW s \in TwoSigns
      PROVE  Len(s) = 2 /\ s[1] \in Promise!Sign
  BY TwoSignsWords
<1>4. Len(STATE0) = 0
  BY DEF STATE0
<1>5. STATE0 \notin Names \cup WordState \cup OneSign \cup TwoSigns
  BY <1>1, <1>2, <1>3, <1>4, WordStates
<1>6. Names \cap WordState = {} /\ WordState \cap OneSign = {} /\ WordState \cap TwoSigns = {}
  BY <1>1, <1>2, <1>3, WordStates, CharactersDiffer
<1>7. Names \cap OneSign = {} /\ Names \cap TwoSigns = {} /\ OneSign \cap TwoSigns = {}
  BY <1>1, <1>2, <1>3, SignsDiffer
<1> QED
  BY <1>5, <1>6, <1>7

LEMMA NamesDiffer ==
  /\ NUMBER \notin {IDENTIFIER, COMMENT, COMMENT_END, COMMENT_SINGLE_LINE,
                    STRING_LITERAL, STRING_LITERAL_END, ERROR}
  /\ IDENTIFIER \notin {COMMENT, COMMENT_END, COMMENT_SINGLE_LINE,
                        STRING_LITERAL, STRING_LITERAL_END, ERROR}
  /\ COMMENT \notin {COMMENT_END, COMMENT_SINGLE_LINE, STRING_LITERAL, STRING_LITERAL_END, ERROR}
  /\ COMMENT_END \notin {COMMENT_SINGLE_LINE, STRING_LITERAL, STRING_LITERAL_END, ERROR}
  /\ COMMENT_SINGLE_LINE \notin {STRING_LITERAL, STRING_LITERAL_END, ERROR}
  /\ STRING_LITERAL \notin {STRING_LITERAL_END, ERROR} /\ STRING_LITERAL_END # ERROR
BY DEF NUMBER, IDENTIFIER, COMMENT, COMMENT_END, COMMENT_SINGLE_LINE,
       STRING_LITERAL, STRING_LITERAL_END, ERROR

(* Which row of the table is asked.                                         *)
LEMMA Rows ==
  ASSUME NEW x
  PROVE  /\ Lexer_FSM(STATE0, x) = StartRow(x)
         /\ Lexer_FSM(NUMBER, x) = NumberRow(x)
         /\ Lexer_FSM(IDENTIFIER, x) = IdentifierRow(x)
         /\ \A s \in WordState : Lexer_FSM(s, x) = WordRow(s, x)
         /\ \A s \in OneSign : Lexer_FSM(s, x) = SignRow(s, x)
         /\ \A s \in TwoSigns : Lexer_FSM(s, x) = STATE0
         /\ Lexer_FSM(COMMENT, x) = CommentRow(x)
         /\ Lexer_FSM(COMMENT_END, x) = STATE0
         /\ Lexer_FSM(COMMENT_SINGLE_LINE, x) = SingleLineRow(x)
         /\ Lexer_FSM(STRING_LITERAL, x) = StringRow(x)
         /\ Lexer_FSM(STRING_LITERAL_END, x) = STATE0
<1>1. /\ Lexer_FSM(STATE0, x) = StartRow(x)
      /\ Lexer_FSM(NUMBER, x) = NumberRow(x)
      /\ Lexer_FSM(IDENTIFIER, x) = IdentifierRow(x)
      /\ Lexer_FSM(COMMENT, x) = CommentRow(x)
  BY StatesDiffer, NamesDiffer DEF Lexer_FSM, Names
<1>2. /\ Lexer_FSM(COMMENT_END, x) = STATE0
      /\ Lexer_FSM(COMMENT_SINGLE_LINE, x) = SingleLineRow(x)
      /\ Lexer_FSM(STRING_LITERAL, x) = StringRow(x)
      /\ Lexer_FSM(STRING_LITERAL_END, x) = STATE0
  BY StatesDiffer, NamesDiffer DEF Lexer_FSM, Names
<1>3. \A s \in WordState : Lexer_FSM(s, x) = WordRow(s, x)
  BY StatesDiffer DEF Lexer_FSM, Names
<1>4. \A s \in OneSign : Lexer_FSM(s, x) = SignRow(s, x)
  BY StatesDiffer DEF Lexer_FSM, Names
<1>5. \A s \in TwoSigns : Lexer_FSM(s, x) = STATE0
  BY StatesDiffer DEF Lexer_FSM, Names
<1> QED
  BY <1>1, <1>2, <1>3, <1>4, <1>5

-----------------------------------------------------------------------------
(* Steps of the automaton *)

(* What makes a state tell what is in the buffer.                           *)
LEMMA Told ==
  ASSUME NEW d, d # <<>>
  PROVE  /\ d \in WordState \cup OneSign \cup TwoSigns => Tells(d, d)
         /\ Promise!IsWord(d) /\ d \notin WordState => Tells(IDENTIFIER, d)
         /\ Promise!IsNumber(d) => Tells(NUMBER, d)
         /\ Promise!IsBlockComment(d) /\ (Len(d) > 1 => d[Len(d)] # "#") => Tells(COMMENT, d)
         /\ Promise!IsBlockComment(d) /\ Len(d) > 1 /\ d[Len(d)] = "#" => Tells(COMMENT_END, d)
         /\ Promise!IsLineComment(d) => Tells(COMMENT_SINGLE_LINE, d)
         /\ Promise!IsString(d) /\ (Len(d) > 1 => d[Len(d)] # "\"") => Tells(STRING_LITERAL, d)
         /\ Promise!IsString(d) /\ Len(d) > 1 /\ d[Len(d)] = "\"" => Tells(STRING_LITERAL_END, d)
<1>1. \/ Promise!IsWord(d) \/ Promise!IsNumber(d) \/ Promise!IsString(d)
      \/ Promise!IsBlockComment(d) \/ Promise!IsLineComment(d) \/ d \in OneSign \cup TwoSigns
      => Promise!IsLexeme(d)
  BY SignsDiffer DEF Promise!IsLexeme, Promise!IsComment
<1>2. ASSUME d \in WordState \cup OneSign \cup TwoSigns
      PROVE  Tells(d, d)
  BY <1>1, <1>2, WordStates, StatesDiffer DEF Tells, Names, STATE0
<1>3. /\ Promise!IsWord(d) /\ d \notin WordState => Tells(IDENTIFIER, d)
      /\ Promise!IsNumber(d) => Tells(NUMBER, d)
  BY <1>1, StatesDiffer, NamesDiffer DEF Tells, Names
<1>4. /\ Promise!IsBlockComment(d) /\ (Len(d) > 1 => d[Len(d)] # "#") => Tells(COMMENT, d)
      /\ Promise!IsBlockComment(d) /\ Len(d) > 1 /\ d[Len(d)] = "#" => Tells(COMMENT_END, d)
      /\ Promise!IsLineComment(d) => Tells(COMMENT_SINGLE_LINE, d)
  BY <1>1, StatesDiffer, NamesDiffer DEF Tells, Names
<1>5. /\ Promise!IsString(d) /\ (Len(d) > 1 => d[Len(d)] # "\"") => Tells(STRING_LITERAL, d)
      /\ Promise!IsString(d) /\ Len(d) > 1 /\ d[Len(d)] = "\"" => Tells(STRING_LITERAL_END, d)
  BY <1>1, StatesDiffer, NamesDiffer DEF Tells, Names
<1> QED
  BY <1>2, <1>3, <1>4, <1>5

(* A first character.                                                       *)
LEMMA Starts ==
  ASSUME NEW T, NEW x \in T, x \in Available_Lookup
  PROVE  /\ StartRow(x) # STATE0 => Tells(StartRow(x), <<x>>)
         /\ StartRow(x) = STATE0 => x \in Promise!Blank
<1> DEFINE d == <<x>>
<1>1. d # <<>> /\ Len(d) = 1 /\ d[1] = x
  OBVIOUS
<1> HIDE DEF d
<1>2. CASE x \in Digit
  <2>1. StartRow(x) = NUMBER /\ Promise!IsNumber(d)
    BY <1>1, <1>2, SignsDiffer DEF StartRow, Promise!IsNumber, Promise!Between
  <2> QED
    BY <2>1, <1>1, Told, StatesDiffer DEF Names, d
<1>3. CASE x \notin Digit /\ d \in WordState \cup OneSign
  <2>1. StartRow(x) = d
    BY <1>3 DEF StartRow, d
  <2> QED
    BY <2>1, <1>1, <1>3, Told, StatesDiffer DEF d
<1>4. CASE x \in Letter /\ d \notin WordState \cup OneSign
  <2>1. StartRow(x) = IDENTIFIER /\ Promise!IsWord(d)
    BY <1>1, <1>4, CharactersDiffer, SignsDiffer DEF StartRow, Promise!IsWord, Promise!Between, d
  <2> QED
    BY <2>1, <1>1, <1>4, Told, StatesDiffer DEF Names, d
<1>5. CASE x \in Marks
  <2>1. x \notin Digit /\ x \notin Letter /\ d \notin WordState \cup OneSign
    BY <1>1, <1>5, CharactersDiffer, SignsDiffer, WordStates
  <2>2. Promise!Between(d, 2, Len(d) - 1, {}) /\ ~ (Len(d) > 1)
    BY <1>1 DEF Promise!Between
  <2>3. CASE x = "\""
    <3>1. StartRow(x) = STRING_LITERAL
      BY <2>1, <2>3 DEF StartRow, d
    <3>2. Promise!IsString(d)
      BY <2>2, <2>3, <1>1 DEF Promise!IsString, Promise!Delimited, Promise!Between
    <3> QED
      BY <3>1, <3>2, <2>2, <1>1, Told, StatesDiffer DEF Names, d
  <2>4. CASE x = "#"
    <3>1. StartRow(x) = COMMENT
      BY <2>1, <2>4 DEF StartRow, d
    <3>2. Promise!IsBlockComment(d)
      BY <2>2, <2>4, <1>1 DEF Promise!IsBlockComment, Promise!Delimited, Promise!Between
    <3> QED
      BY <3>1, <3>2, <2>2, <1>1, Told, StatesDiffer DEF Names, d
  <2> QED
    BY <2>3, <2>4, <1>5 DEF Marks
<1>6. CASE x \in Promise!Sign
  <2>1. d \in OneSign /\ x \notin Digit
    BY <1>6, SignsDiffer DEF d
  <2> QED
    BY <2>1, <1>3
<1>7. CASE x \in Promise!Blank
  <2>1. x \notin Digit /\ x \notin Letter /\ x # "\"" /\ x # "#" /\ x \notin Promise!Sign
    BY <1>7, CharactersDiffer, SignsDiffer DEF Marks
  <2>2. d \notin WordState
    BY <2>1, <1>1, WordStates
  <2>3. ASSUME NEW g \in Promise!Sign, d = <<g>>
        PROVE  FALSE
    <3>1. d[1] = g
      BY <2>3
    <3> QED
      BY <3>1, <2>1, <1>1
  <2>4. d \notin OneSign
    BY <2>3, SignsDiffer
  <2> QED
    BY <2>1, <2>2, <2>4, <1>7 DEF StartRow, d
<1> QED
  BY <1>2, <1>3, <1>4, <1>5, <1>6, <1>7, SignsDiffer DEF d

(* The state n is right for the buffer d.                                   *)
Follows(n, d) ==
  /\ n # STATE0 => Tells(n, d)
  /\ n = STATE0 => ~ Promise!IsLexeme(d)

LEMMA WordGoesOn ==
  ASSUME NEW T, NEW c \in Seq(T), Len(c) >= 1, NEW x \in T, Promise!IsWord(c),
         Append(c, x) \notin WordState
  PROVE  Follows(IdentifierRow(x), Append(c, x))
<1> DEFINE d == Append(c, x)
<1>1. d \in Seq(T) /\ Len(d) >= 1 /\ d # <<>> /\ d[1] = c[1]
  BY Appended
<1>2. Promise!IsWord(d) <=> x \in Letter \cup Digit
  BY Extended
<1> HIDE DEF d
<1>3. d[1] \in Letter
  BY <1>1, FirstCharacter
<1>4. CASE x \in Letter \cup Digit
  BY <1>1, <1>2, <1>4, Told, StatesDiffer DEF Follows, IdentifierRow, Names, d
<1>5. CASE x \notin Letter \cup Digit
  <2>1. ~ Promise!IsLexeme(d)
    BY <1>1, <1>2, <1>3, <1>5, KindsDiffer
  <2> QED
    BY <2>1, <1>5 DEF Follows, IdentifierRow, d
<1> QED
  BY <1>4, <1>5

LEMMA BeginningGoesOn ==
  ASSUME NEW T, NEW c \in Seq(T), Len(c) >= 1, NEW x \in T, c \in WordState,
         ~ (c = <<"b">> /\ x = "r")
  PROVE  Follows(WordRow(c, x), Append(c, x))
<1>1. Append(c, x) # <<>>
  BY Appended
<1>2. CASE Append(c, x) \in WordState
  BY <1>1, <1>2, Told, StatesDiffer DEF Follows, WordRow
<1>3. CASE Append(c, x) \notin WordState
  BY <1>3, WordGoesOn, WordStates DEF WordRow
<1> QED
  BY <1>2, <1>3

LEMMA IdentifierGoesOn ==
  ASSUME NEW T, NEW c \in Seq(T), Len(c) >= 1, NEW x \in T, Promise!IsWord(c), c \notin WordState
  PROVE  Follows(IdentifierRow(x), Append(c, x))
<1>1. ASSUME Append(c, x) \in WordState
      PROVE  FALSE
  <2>1. Len(c) \in 1..Len(Append(c, x)) /\ SubSeq(Append(c, x), 1, Len(c)) = c
    <3>1. Append(c, x) \in Seq(T) /\ Len(c) \in Nat /\ Len(Append(c, x)) = Len(c) + 1
      BY Appended
    <3>2. \A i \in 1..Len(c) : Append(c, x)[i] = c[i]
      BY Appended
    <3> QED
      BY <3>1, <3>2
  <2> QED
    BY <1>1, <2>1, BeginningsOfWords
<1> QED
  BY <1>1, WordGoesOn

LEMMA NumberGoesOn ==
  ASSUME NEW T, NEW c \in Seq(T), Len(c) >= 1, NEW x \in T, Promise!IsNumber(c)
  PROVE  Follows(NumberRow(x), Append(c, x))
<1> DEFINE d == Append(c, x)
<1>1. d \in Seq(T) /\ Len(d) >= 1 /\ d # <<>> /\ d[1] = c[1]
  BY Appended
<1>2. Promise!IsNumber(d) <=> x \in Digit
  BY Extended
<1> HIDE DEF d
<1>3. d[1] \in Digit
  BY <1>1, FirstCharacter
<1>4. CASE x \in Digit
  BY <1>1, <1>2, <1>4, Told, StatesDiffer DEF Follows, NumberRow, Names, d
<1>5. CASE x \notin Digit
  <2>1. ~ Promise!IsLexeme(d)
    BY <1>1, <1>2, <1>3, <1>5, KindsDiffer
  <2> QED
    BY <2>1, <1>5 DEF Follows, NumberRow, d
<1> QED
  BY <1>4, <1>5

LEMMA SignGoesOn ==
  ASSUME NEW T, NEW c \in Seq(T), Len(c) >= 1, NEW x \in T, c \in OneSign
  PROVE  Follows(SignRow(c, x), Append(c, x))
<1> DEFINE d == Append(c, x)
<1>1. d \in Seq(T) /\ Len(d) >= 1 /\ d # <<>> /\ d[1] = c[1]
  BY Appended
<1>2. Len(c) = 1 /\ d[1] \in Promise!Sign
  BY <1>1, FirstCharacter
<1>3. /\ Promise!IsLineComment(d) <=> c = <<"/">> /\ x = "/"
      /\ d \in OneSign \cup TwoSigns => d \in TwoSigns
  <2>1. ~ Promise!IsLineComment(c)
    BY <1>2 DEF Promise!IsLineComment
  <2> QED
    BY <2>1, Extended
<1> HIDE DEF d
<1>4. CASE d \in TwoSigns
  BY <1>1, <1>4, Told, StatesDiffer DEF Follows, SignRow, d
<1>5. CASE d \notin TwoSigns /\ c = <<"/">> /\ x = "/"
  BY <1>1, <1>3, <1>5, Told, StatesDiffer DEF Follows, SignRow, Names, d
<1>6. CASE d \notin TwoSigns /\ ~ (c = <<"/">> /\ x = "/")
  <2>1. ~ Promise!IsLexeme(d)
    BY <1>1, <1>2, <1>3, <1>6, KindsDiffer
  <2> QED
    BY <2>1, <1>6 DEF Follows, SignRow, d
<1> QED
  BY <1>4, <1>5, <1>6

LEMMA TwoSignsEnd ==
  ASSUME NEW T, NEW c \in Seq(T), Len(c) >= 1, NEW x \in T, c \in TwoSigns
  PROVE  ~ Promise!IsLexeme(Append(c, x))
<1> DEFINE d == Append(c, x)
<1>1. d \in Seq(T) /\ Len(d) >= 1 /\ d[1] = c[1]
  BY Appended
<1>2. Len(c) = 2 /\ d[1] \in Promise!Sign /\ ~ Promise!IsLineComment(c)
  BY <1>1, FirstCharacter
<1>3. c # <<"/">>
  BY <1>2
<1>4. /\ ~ Promise!IsLineComment(d)
      /\ d \notin OneSign \cup TwoSigns
  <2>1. ~ Promise!IsLineComment(d)
    BY <1>2, <1>3, Extended
  <2>2. d \in OneSign \cup TwoSigns => Len(c) = 1
    BY Extended
  <2> QED
    BY <2>1, <2>2, <1>2
<1> HIDE DEF d
<1>5. ~ Promise!IsLexeme(d)
  BY <1>1, <1>2, <1>4, KindsDiffer
<1> QED
  BY <1>5 DEF d

LEMMA CommentGoesOn ==
  ASSUME NEW T, NEW c \in Seq(T), Len(c) >= 1, NEW x \in T, x \in Available_Lookup,
         Promise!IsBlockComment(c)
  PROVE  /\ (Len(c) > 1 => c[Len(c)] # "#") => Follows(CommentRow(x), Append(c, x))
         /\ Len(c) > 1 /\ c[Len(c)] = "#" => ~ Promise!IsLexeme(Append(c, x))
<1> DEFINE d == Append(c, x)
<1>1. /\ d \in Seq(T) /\ Len(d) >= 1 /\ d # <<>> /\ d[1] = c[1]
      /\ Len(d) > 1 /\ d[Len(d)] = x
  BY Appended
<1>2. Promise!IsBlockComment(d) <=> (Len(c) > 1 => c[Len(c)] # "#") /\ x # "-"
  BY Extended, SignsDiffer
<1> HIDE DEF d
<1>3. d[1] = "#"
  BY <1>1, FirstCharacter
<1>4. Promise!IsLexeme(d) => Promise!IsBlockComment(d)
  BY <1>1, <1>3, KindsDiffer
<1>5. CASE x = "#"
  BY <1>1, <1>2, <1>4, <1>5, Told, StatesDiffer DEF Follows, CommentRow, Names, d
<1>6. CASE x = "-"
  BY <1>2, <1>4, <1>6 DEF Follows, CommentRow, d
<1>7. CASE x # "#" /\ x # "-"
  BY <1>1, <1>2, <1>4, <1>7, Told, StatesDiffer DEF Follows, CommentRow, Names, d
<1> QED
  BY <1>5, <1>6, <1>7

LEMMA LineCommentGoesOn ==
  ASSUME NEW T, NEW c \in Seq(T), Len(c) >= 1, NEW x \in T, x \in Available_Lookup,
         Promise!IsLineComment(c)
  PROVE  Follows(SingleLineRow(x), Append(c, x))
<1> DEFINE d == Append(c, x)
<1>1. d \in Seq(T) /\ Len(d) >= 1 /\ d # <<>> /\ d[1] = c[1]
  BY Appended
<1>2. Len(c) > 1 /\ c # <<"/">> /\ d[1] \in Promise!Sign
  <2>1. Len(c) > 1 /\ c[1] = "/" /\ Len(c) \in Nat
    BY FirstCharacter, Appended
  <2>2. ASSUME c = <<"/">>
        PROVE  FALSE
    <3>1. Len(c) = 1
      BY <2>2
    <3> QED
      BY <2>1, <3>1, Counting
  <2>3. d[1] \in Promise!Sign
    BY <2>1, <1>1, SignsDiffer
  <2> QED
    BY <2>1, <2>2, <2>3
<1>3. Promise!IsLineComment(d) <=> x \notin {"\n", "-"}
  BY <1>2, Extended, SignsDiffer
<1>4. d \notin OneSign \cup TwoSigns
  <2>1. d \in OneSign \cup TwoSigns => Len(c) = 1
    BY Extended
  <2>2. Len(c) \in Nat
    BY Appended
  <2> QED
    BY <2>1, <2>2, <1>2, Counting
<1> HIDE DEF d
<1>5. CASE x \in {"\n", "-"}
  <2>1. ~ Promise!IsLexeme(d)
    BY <1>1, <1>2, <1>3, <1>4, <1>5, KindsDiffer
  <2> QED
    BY <2>1, <1>5 DEF Follows, SingleLineRow, d
<1>6. CASE x \notin {"\n", "-"}
  BY <1>1, <1>3, <1>6, Told, StatesDiffer DEF Follows, SingleLineRow, Names, d
<1> QED
  BY <1>5, <1>6

LEMMA StringGoesOn ==
  ASSUME NEW T, NEW c \in Seq(T), Len(c) >= 1, NEW x \in T, x \in Available_Lookup,
         Promise!IsString(c)
  PROVE  /\ (Len(c) > 1 => c[Len(c)] # "\"") => Follows(StringRow(x), Append(c, x))
         /\ Len(c) > 1 /\ c[Len(c)] = "\"" => ~ Promise!IsLexeme(Append(c, x))
<1> DEFINE d == Append(c, x)
<1>1. /\ d \in Seq(T) /\ Len(d) >= 1 /\ d # <<>> /\ d[1] = c[1]
      /\ Len(d) > 1 /\ d[Len(d)] = x
  BY Appended
<1>2. Promise!IsString(d) <=>
        (Len(c) > 1 => c[Len(c)] # "\"") /\ x \notin {"-", "\n", "\t", "\r"}
  BY Extended, SignsDiffer
<1> HIDE DEF d
<1>3. d[1] = "\""
  BY <1>1, FirstCharacter
<1>4. Promise!IsLexeme(d) => Promise!IsString(d)
  BY <1>1, <1>3, KindsDiffer
<1>5. CASE x = "\""
  BY <1>1, <1>2, <1>4, <1>5, Told, StatesDiffer DEF Follows, StringRow, Names, d
<1>6. CASE x \in {"-", "\n", "\t", "\r"}
  BY <1>2, <1>4, <1>6 DEF Follows, StringRow, d
<1>7. CASE x \notin {"-", "\n", "\t", "\r", "\""}
  BY <1>1, <1>2, <1>4, <1>7, Told, StatesDiffer DEF Follows, StringRow, Names, d
<1> QED
  BY <1>5, <1>6, <1>7

(* The automaton goes on exactly as long as the buffer is a lexeme.         *)
LEMMA AutomatonFollows ==
  ASSUME NEW T, NEW c \in Seq(T), Len(c) >= 1, NEW x \in T, x \in Available_Lookup,
         NEW s \in State, Tells(s, c), ~ (s = <<"b">> /\ x = "r")
  PROVE  Follows(Lexer_FSM(s, x), Append(c, x))
<1>0. s # STATE0
  <2>1. c # <<>>
    BY Appended
  <2> QED
    BY <2>1 DEF Tells
<1>1. CASE s = NUMBER
  BY <1>1, NumberGoesOn, Rows DEF Tells
<1>2. CASE s = IDENTIFIER
  BY <1>2, IdentifierGoesOn, Rows DEF Tells
<1>3. CASE s \in WordState
  <2>1. c = s
    BY <1>3 DEF Tells
  <2> QED
    BY <2>1, <1>3, BeginningGoesOn, Rows
<1>4. CASE s \in OneSign
  <2>1. c = s
    BY <1>4 DEF Tells
  <2> QED
    BY <2>1, <1>4, SignGoesOn, Rows
<1>5. CASE s \in TwoSigns
  <2>1. c = s
    BY <1>5 DEF Tells
  <2> QED
    BY <2>1, <1>5, TwoSignsEnd, Rows DEF Follows
<1>6. CASE s = COMMENT
  BY <1>6, CommentGoesOn, Rows DEF Tells
<1>7. CASE s = COMMENT_END
  BY <1>7, CommentGoesOn, Rows DEF Tells, Follows
<1>8. CASE s = COMMENT_SINGLE_LINE
  BY <1>8, LineCommentGoesOn, Rows DEF Tells
<1>9. CASE s = STRING_LITERAL
  BY <1>9, StringGoesOn, Rows DEF Tells
<1>10. CASE s = STRING_LITERAL_END
  BY <1>10, StringGoesOn, Rows DEF Tells, Follows
<1> QED
  BY <1>0, <1>1, <1>2, <1>3, <1>4, <1>5, <1>6, <1>7, <1>8, <1>9, <1>10 DEF State

(* It has no state outside State.                                           *)
LEMMA AutomatonStays ==
  ASSUME NEW x, NEW s \in State
  PROVE  Lexer_FSM(s, x) \in State /\ ERROR \notin State
<1>1. /\ StartRow(x) \in State /\ NumberRow(x) \in State /\ IdentifierRow(x) \in State
      /\ WordRow(s, x) \in State /\ SignRow(s, x) \in State
  <2>1. <<"r">> \in WordState
    <3>1. <<"r", "e", "t", "u", "r", "n">> \in Reserved
      BY DEF Reserved
    <3>2. PICK w \in WordState : w = <<"r", "e", "t", "u", "r", "n">>
      BY <3>1, BeginningsOfWords
    <3>3. w \in Seq(Letter) /\ Len(w) >= 1 /\ w[1] = "r"
      BY <3>2, BeginningsOfWords
    <3>4. 1 \in 1..Len(w) /\ SubSeq(w, 1, 1) = <<w[1]>>
      <4> DEFINE v == SubSeq(w, 1, 1)
      <4>1. 1 \in 1..Len(w) /\ v \in Seq(Letter) /\ Len(v) = 1 /\ v[1] = w[1]
        BY <3>3, SubSeqProperties
      <4>2. <<w[1]>> \in Seq(Letter) /\ Len(<<w[1]>>) = 1 /\ <<w[1]>>[1] = w[1]
        BY <4>1, <3>3
      <4>3. \A i \in 1..Len(v) : v[i] = <<w[1]>>[i]
        BY <4>1, <4>2
      <4> HIDE DEF v
      <4>4. v = <<w[1]>>
        BY <4>1, <4>2, <4>3, SeqEqual
      <4> QED
        BY <4>1, <4>4 DEF v
    <3>5. SubSeq(w, 1, 1) \in WordState
      BY <3>4, BeginningsOfWords
    <3> QED
      BY <3>3, <3>4, <3>5
  <2> QED
    BY <2>1 DEF StartRow, NumberRow, IdentifierRow, WordRow, SignRow, State
<1>2. CommentRow(x) \in State /\ SingleLineRow(x) \in State /\ StringRow(x) \in State
  BY DEF CommentRow, SingleLineRow, StringRow, State
<1>3. STATE0 \in State
  BY DEF State
<1>4. Lexer_FSM(s, x) \in State
  BY <1>1, <1>2, <1>3, Rows DEF State
<1>5. ERROR \notin State
  BY StatesDiffer, NamesDiffer DEF State, Names
<1> QED
  BY <1>4, <1>5

-----------------------------------------------------------------------------
(* The longest lexeme *)

LEMMA OneOrTwo ==
  ASSUME NEW n \in Nat, NEW l \in Nat, n >= 1, n <= l, l = 1 \/ l = 2
  PROVE  n = 1 \/ n = l
OBVIOUS

LEMMA LexemesAreKnown ==
  ASSUME NEW T, NEW s \in Seq(T), Len(s) >= 1, Promise!IsLexeme(s), NEW k \in 1..Len(s)
  PROVE  s[k] \in Promise!Known
<1>0. Len(s) \in Nat /\ k \in Nat /\ k >= 1 /\ k <= Len(s) /\ (k = 1 \/ k \in 2..Len(s))
  OBVIOUS
<1>1. Letter \cup Digit \cup Promise!Sign \cup Marks \subseteq Promise!Known
  BY SignsDiffer
<1>2. CASE Promise!IsWord(s) \/ Promise!IsNumber(s)
  BY <1>0, <1>1, <1>2, SignsDiffer DEF Promise!IsWord, Promise!IsNumber, Promise!Between
<1>3. ASSUME NEW m \in Marks, NEW S, S \subseteq Promise!Known, Promise!Delimited(s, m, S, m)
      PROVE  s[k] \in Promise!Known
  <2>1. k = 1 \/ (k = Len(s) /\ Len(s) > 1) \/ k \in 2..Len(s) - 1
    BY <1>0
  <2> QED
    BY <2>1, <1>1, <1>3 DEF Promise!Delimited, Promise!Between
<1>4. CASE Promise!IsString(s)
  BY <1>3, <1>4 DEF Promise!IsString, Marks
<1>5. CASE Promise!IsBlockComment(s)
  BY <1>3, <1>5 DEF Promise!IsBlockComment, Marks
<1>6. CASE Promise!IsLineComment(s)
  <2>1. k = 1 \/ k = 2 \/ k \in 3..Len(s)
    BY <1>0
  <2> QED
    BY <2>1, <1>1, <1>6, SignsDiffer DEF Promise!IsLineComment, Promise!Between
<1>7. CASE s \in OneSign
  <2>1. Len(s) = 1 /\ s[1] \in Promise!Sign
    BY <1>7, FirstCharacter
  <2>2. k = 1
    BY <2>1, <1>0, OneOrTwo
  <2> QED
    BY <2>1, <2>2, <1>1
<1>8. CASE s \in TwoSigns
  <2>1. Len(s) = 2 /\ s[1] \in Promise!Sign /\ s[2] \in Promise!Sign
    BY <1>8, TwoSignsWords
  <2>2. k = 1 \/ k = 2
    BY <2>1
  <2> QED
    BY <2>1, <2>2, <1>1
<1> QED
  BY <1>2, <1>4, <1>5, <1>6, <1>7, <1>8, SignsDiffer DEF Promise!IsLexeme, Promise!IsComment

LEMMA BeginningsAreLexemes ==
  ASSUME NEW T, NEW s \in Seq(T), Len(s) >= 1, Promise!IsLexeme(s), NEW n \in 1..Len(s)
  PROVE  Promise!IsLexeme(SubSeq(s, 1, n))
<1> DEFINE p == SubSeq(s, 1, n)
<1>0. Len(s) \in Nat /\ n \in Nat /\ n >= 1 /\ n <= Len(s)
  OBVIOUS
<1>1. p \in Seq(T) /\ Len(p) = n /\ (\A i \in 1..n : p[i] = s[i])
  BY <1>0, SubSeqProperties
<1>2. p[1] = s[1]
  BY <1>0, <1>1
<1> HIDE DEF p
<1>3. Promise!IsWord(s) => Promise!IsWord(p)
  BY <1>0, <1>1, <1>2 DEF Promise!IsWord, Promise!Between
<1>4. Promise!IsNumber(s) => Promise!IsNumber(p)
  BY <1>0, <1>1, <1>2 DEF Promise!IsNumber, Promise!Between
<1>5. ASSUME NEW m, NEW S, Promise!Delimited(s, m, S, m)
      PROVE  Promise!Delimited(p, m, S, m)
  <2>1. \A k \in 2..n - 1 : p[k] \in S
    <3> SUFFICES ASSUME NEW k \in 2..n - 1 PROVE p[k] \in S
      OBVIOUS
    <3>1. k \in 2..Len(s) - 1 /\ k \in 1..n
      BY <1>0
    <3> QED
      BY <3>1, <1>1, <1>5 DEF Promise!Delimited, Promise!Between
  <2>2. n > 1 => p[n] \in S \cup {m}
    <3> SUFFICES ASSUME n > 1 PROVE p[n] \in S \cup {m}
      OBVIOUS
    <3>1. n \in 1..n /\ (n = Len(s) \/ n \in 2..Len(s) - 1)
      BY <1>0
    <3>2. n = Len(s) => s[n] \in S \cup {m}
      BY <1>5 DEF Promise!Delimited
    <3>3. n \in 2..Len(s) - 1 => s[n] \in S
      BY <1>5 DEF Promise!Delimited, Promise!Between
    <3> QED
      BY <3>1, <3>2, <3>3, <1>1
  <2> QED
    BY <2>1, <2>2, <1>1, <1>2, <1>5 DEF Promise!Delimited, Promise!Between
<1>6. Promise!IsString(s) => Promise!IsString(p)
  BY <1>5 DEF Promise!IsString
<1>7. Promise!IsBlockComment(s) => Promise!IsBlockComment(p)
  BY <1>5 DEF Promise!IsBlockComment
<1>8. ASSUME n = 1, s[1] \in Promise!Sign
      PROVE  p \in OneSign
  <2>1. p = <<s[1]>>
    <3>1. s[1] \in T
      BY <1>0
    <3>2. <<s[1]>> \in Seq(T) /\ Len(<<s[1]>>) = 1 /\ <<s[1]>>[1] = s[1]
      BY <3>1
    <3>3. \A i \in 1..Len(p) : p[i] = <<s[1]>>[i]
      BY <3>2, <1>1, <1>2, <1>8
    <3> QED
      BY <3>2, <3>3, <1>1, <1>8, SeqEqual
  <2> QED
    BY <2>1, <1>8, SignsDiffer
<1>9. ASSUME Promise!IsLineComment(s), n > 1
      PROVE  Promise!IsLineComment(p)
  <2>1. 2 \in 1..n /\ \A k \in 3..n : k \in 1..n /\ k \in 3..Len(s)
    BY <1>0, <1>9
  <2> QED
    BY <2>1, <1>0, <1>1, <1>2, <1>9 DEF Promise!IsLineComment, Promise!Between
<1>10. n > 1 \/ n = 1
  BY <1>0
<1>11. Promise!IsLineComment(s) => Promise!IsLineComment(p) \/ p \in OneSign
  <2>1. Promise!IsLineComment(s) => s[1] \in Promise!Sign
    BY FirstCharacter, SignsDiffer
  <2> QED
    BY <2>1, <1>8, <1>9, <1>10
<1>12. ASSUME s \in OneSign \cup TwoSigns
       PROVE  p \in OneSign \cup TwoSigns
  <2>1. s[1] \in Promise!Sign
    BY <1>12, FirstCharacter
  <2>2. CASE n = 1
    BY <2>1, <2>2, <1>8
  <2>3. CASE n = Len(s)
    <3>1. p = s
      BY <2>3, SubSeqFull DEF p
    <3> QED
      BY <3>1, <1>12
  <2>4. Len(s) = 1 \/ Len(s) = 2
    BY <1>12, FirstCharacter
  <2>5. n = 1 \/ n = Len(s)
    BY <2>4, <1>0, OneOrTwo
  <2> QED
    BY <2>2, <2>3, <2>5
<1>13. Promise!IsLexeme(p)
  BY <1>3, <1>4, <1>6, <1>7, <1>11, <1>12, SignsDiffer DEF Promise!IsLexeme, Promise!IsComment
<1> QED
  BY <1>13 DEF p

-----------------------------------------------------------------------------
(* Token types *)

LEMMA SameOperators ==
  /\ Promise!Keyword = Reserved /\ Promise!Operator = OneSign \cup TwoSigns
  /\ Promise!EndOfProgram = EndOfProgram
<1>1. Promise!Keyword = Reserved
  BY Zenon DEF Promise!Keyword, Reserved
<1>2. Promise!EndOfProgram = EndOfProgram
  BY DEF Promise!EndOfProgram, EndOfProgram
<1> QED
  BY <1>1, <1>2, SignsDiffer

(* The parser is told the type of the lexeme, and nothing of a comment.     *)
LEMMA TypesOfLexemes ==
  ASSUME NEW T, NEW c \in Seq(T), Len(c) >= 1, NEW s \in State, Tells(s, c)
  PROVE  /\ is_ignored_state(s) <=> Promise!IsComment(c)
         /\ ~ is_ignored_state(s) => convert_state_to_token_type(s) = Promise!TypeOf(c)
<1>0. c # <<>> /\ s # STATE0
  <2>1. c # <<>>
    BY Appended
  <2> QED
    BY <2>1 DEF Tells
<1>1. Promise!IsComment(c) => c[1] = "#" \/ (c[1] = "/" /\ Len(c) > 1 /\ c[2] = "/")
  BY FirstCharacter DEF Promise!IsComment
<1>2. "#" \in Marks /\ "/" \in Promise!Sign /\ "\"" \in Marks /\ "\"" # "#"
  BY SignsDiffer DEF Marks
<1>3. CASE s \in WordState
  <2>1. c = s /\ Promise!IsWord(c) /\ c[1] \in Letter
    BY <1>3, WordStates DEF Tells
  <2>2. ~ Promise!IsComment(c)
    BY <1>1, <1>2, <2>1, CharactersDiffer
  <2>3. ~ is_ignored_state(s)
    BY <1>0, <1>3, StatesDiffer DEF is_ignored_state, Names
  <2>4. s \notin OneSign \cup TwoSigns
    BY <1>3, StatesDiffer
  <2>5. convert_state_to_token_type(s) = Promise!TypeOf(c)
    BY <2>1, <2>4, <1>3, SameOperators DEF convert_state_to_token_type, Promise!TypeOf, IDENTIFIER
  <2> QED
    BY <2>2, <2>3, <2>5
<1>4. CASE s \in OneSign \cup TwoSigns
  <2>1. c = s
    BY <1>4 DEF Tells
  <2>2. c[1] \in Promise!Sign /\ ~ (Len(c) > 1 /\ c[1] = "/" /\ c[2] = "/")
    <3>1. Len(c) \in Nat
      BY Appended
    <3>2. CASE c \in OneSign
      BY <3>1, <3>2, FirstCharacter, Counting
    <3>3. CASE c \in TwoSigns
      BY <3>3, FirstCharacter
    <3> QED
      BY <2>1, <1>4, <3>2, <3>3
  <2>3. ~ Promise!IsComment(c)
    BY <1>1, <1>2, <2>2, SignsDiffer
  <2>4. ~ is_ignored_state(s)
    BY <1>0, <1>4, StatesDiffer DEF is_ignored_state, Names
  <2>5. convert_state_to_token_type(s) = Promise!TypeOf(c)
    BY <2>1, <1>4, SameOperators DEF convert_state_to_token_type, Promise!TypeOf
  <2> QED
    BY <2>3, <2>4, <2>5
<1>5. ASSUME s \in Names
      PROVE  s \notin WordState \cup OneSign \cup TwoSigns \cup Reserved
  BY <1>5, StatesDiffer, BeginningsOfWords
<1>6. c[1] \notin Promise!Sign => c \notin OneSign \cup TwoSigns
  BY FirstCharacter
<1>7. c[1] \notin Letter => c \notin Reserved
  BY WordStates, BeginningsOfWords
<1>8. CASE s = IDENTIFIER
  <2>1. Promise!IsWord(c) /\ c \notin WordState /\ c[1] \in Letter
    BY <1>8, FirstCharacter DEF Tells
  <2>2. ~ Promise!IsComment(c) /\ c \notin OneSign \cup TwoSigns \cup Reserved
    BY <1>1, <1>2, <1>6, <2>1, CharactersDiffer, BeginningsOfWords
  <2>3. ~ is_ignored_state(s)
    BY <1>0, <1>8, NamesDiffer DEF is_ignored_state
  <2>4. convert_state_to_token_type(s) = s
    BY <1>5, <1>8, NamesDiffer DEF Names, convert_state_to_token_type
  <2>5. Promise!TypeOf(c) = s
    BY <2>1, <2>2, <1>8, SameOperators DEF Promise!TypeOf, IDENTIFIER
  <2> QED
    BY <2>2, <2>3, <2>4, <2>5
<1>9. CASE s = NUMBER
  <2>1. Promise!IsNumber(c) /\ c[1] \in Digit
    BY <1>9, FirstCharacter DEF Tells
  <2>2. /\ ~ Promise!IsComment(c) /\ c \notin OneSign \cup TwoSigns \cup Reserved
        /\ ~ Promise!IsWord(c)
    BY <1>1, <1>2, <1>6, <1>7, <2>1, CharactersDiffer, SignsDiffer, FirstCharacter
  <2>3. ~ is_ignored_state(s)
    BY <1>0, <1>9, NamesDiffer DEF is_ignored_state
  <2>4. convert_state_to_token_type(s) = s
    BY <1>5, <1>9, NamesDiffer DEF Names, convert_state_to_token_type
  <2>5. Promise!TypeOf(c) = s
    BY <2>1, <2>2, <1>9, SameOperators DEF Promise!TypeOf, NUMBER
  <2> QED
    BY <2>2, <2>3, <2>4, <2>5
<1>10. CASE s \in {STRING_LITERAL, STRING_LITERAL_END}
  <2>1. Promise!IsString(c) /\ c[1] = "\""
    BY <1>10, FirstCharacter DEF Tells
  <2>2. /\ ~ Promise!IsComment(c) /\ c \notin OneSign \cup TwoSigns \cup Reserved
        /\ ~ Promise!IsWord(c) /\ ~ Promise!IsNumber(c)
    BY <1>1, <1>2, <1>6, <1>7, <2>1, CharactersDiffer, SignsDiffer, FirstCharacter
  <2>3. ~ is_ignored_state(s)
    BY <1>0, <1>10, NamesDiffer DEF is_ignored_state
  <2>4. convert_state_to_token_type(s) = STRING_LITERAL
    BY <1>5, <1>10, NamesDiffer DEF Names, convert_state_to_token_type
  <2>5. Promise!TypeOf(c) = STRING_LITERAL
    BY <2>1, <2>2, SameOperators DEF Promise!TypeOf, STRING_LITERAL
  <2> QED
    BY <2>2, <2>3, <2>4, <2>5
<1>11. CASE s \in {COMMENT, COMMENT_END, COMMENT_SINGLE_LINE}
  <2>1. Promise!IsComment(c)
    BY <1>11 DEF Tells, Promise!IsComment
  <2>2. is_ignored_state(s)
    BY <1>11 DEF is_ignored_state
  <2> QED
    BY <2>1, <2>2
<1> QED
  BY <1>0, <1>3, <1>4, <1>8, <1>9, <1>10, <1>11 DEF State

-----------------------------------------------------------------------------
(* Positions *)

LEMMA Largest ==
  ASSUME NEW N \in Nat, NEW J, J \subseteq 1..N, J # {}
  PROVE  \E j \in J : \A i \in J : i <= j
<1> DEFINE D == {t \in Nat : \E j \in J : t = N - j}
<1>1. D \subseteq Nat /\ D # {}
  <2>1. PICK j \in J : j \in 1..N
    OBVIOUS
  <2>2. N - j \in D
    BY <2>1
  <2> QED
    BY <2>2
<1>2. PICK t \in D : \A u \in D : ~ (<<u, t>> \in OpToRel(<, Nat))
  <2> HIDE DEF D
  <2> QED
    BY <1>1, NatLessThanWellFounded, WFMin
<1>3. PICK j \in J : t = N - j
  OBVIOUS
<1>4. ASSUME NEW i \in J
      PROVE  i <= j
  <2>1. N - i \in D /\ N - i \in Nat /\ i \in 1..N /\ j \in 1..N
    OBVIOUS
  <2>2. ~ (N - i < N - j)
    <3> HIDE DEF D
    <3> QED
      BY <1>1, <1>2, <1>3, <2>1 DEF OpToRel
  <2> QED
    BY <2>1, <2>2
<1> QED
  BY <1>4

LEMMA Smallest ==
  ASSUME NEW J, J \subseteq Nat, J # {}
  PROVE  \E j \in J : \A i \in J : j <= i
<1>1. PICK j \in J : \A u \in J : ~ (<<u, j>> \in OpToRel(<, Nat))
  BY NatLessThanWellFounded, WFMin
<1>2. ASSUME NEW i \in J
      PROVE  j <= i
  <2>1. i \in Nat /\ j \in Nat /\ ~ (i < j)
    BY <1>1 DEF OpToRel
  <2> QED
    BY <2>1
<1> QED
  BY <1>2

(* The rest of a lexeme ends inside the text.                               *)
LEMMA RemainingInText ==
  ASSUME NEW p \in 1..Len(text), text \in Seq(STRING)
  PROVE  Remaining(p) \in Nat /\ p + Remaining(p) <= Len(text) + 1
<1> DEFINE ends == {q \in p..Len(text) : text[q] \in {"\t", "\n", "\r", " "}}
<1>0. Len(text) \in Nat /\ p \in Nat /\ p <= Len(text)
  OBVIOUS
<1> DEFINE q == CHOOSE e \in ends : \A r \in ends : e <= r
<1>1. Remaining(p) = (IF ends = {} THEN Len(text) + 1 ELSE q) - p
  BY Zenon DEF Remaining
<1>2. ends \subseteq p..Len(text)
  OBVIOUS
<1>3. ends # {} => q \in ends
  <2> HIDE DEF ends
  <2>1. ends \subseteq Nat
    BY <1>0, <1>2
  <2>2. ends # {} => \E e \in ends : \A r \in ends : e <= r
    BY <2>1, Smallest
  <2> QED
    BY <2>2
<1> HIDE DEF q, ends
<1>4. CASE ends = {}
  BY <1>0, <1>1, <1>4
<1>5. CASE ends # {}
  <2>1. q \in p..Len(text)
    BY <1>2, <1>3, <1>5
  <2> QED
    BY <1>0, <1>1, <1>5, <2>1
<1> QED
  BY <1>4, <1>5

(* Behind a lexeme's end no longer one ends.                                *)
LEMMA NoLongerLexeme ==
  ASSUME NEW T, NEW t \in Seq(T), NEW i \in 1..Len(t), NEW e \in i..Len(t),
         ~ Promise!IsLexeme(SubSeq(t, i, e)), NEW f \in e..Len(t)
  PROVE  ~ Promise!IsLexeme(SubSeq(t, i, f))
<1> DEFINE s == SubSeq(t, i, f)
           n == e - i + 1
<1>0. /\ Len(t) \in Nat /\ i \in Nat /\ e \in Nat /\ f \in Nat /\ n \in Nat
      /\ 1 <= i /\ i <= e /\ e <= f /\ f <= Len(t) /\ n >= 1 /\ i + n - 1 = e
      /\ n <= f - i + 1 /\ f - i + 1 \in Nat
  OBVIOUS
<1>1. s \in Seq(T) /\ Len(s) = f - i + 1 /\ \A k \in 1..Len(s) : s[k] = t[i + k - 1]
  BY <1>0, SubSeqProperties
<1>2. n \in 1..Len(s)
  BY <1>0, <1>1
<1>3. SubSeq(s, 1, n) = SubSeq(t, i, e)
  <2>1. /\ SubSeq(s, 1, n) \in Seq(T) /\ Len(SubSeq(s, 1, n)) = n
        /\ \A k \in 1..n : SubSeq(s, 1, n)[k] = s[k]
    <3> HIDE DEF s, n
    <3> QED
      BY <1>0, <1>1, <1>2, SubSeqProperties
  <2>2. /\ SubSeq(t, i, e) \in Seq(T) /\ Len(SubSeq(t, i, e)) = n
        /\ \A k \in 1..n : SubSeq(t, i, e)[k] = t[i + k - 1]
    BY <1>0, SubSeqProperties
  <2>3. \A k \in 1..n : s[k] = t[i + k - 1]
    <3> HIDE DEF s, n
    <3> QED
      BY <1>0, <1>1, <1>2
  <2> HIDE DEF s, n
  <2> QED
    BY <2>1, <2>2, <2>3, SeqEqual
<1> HIDE DEF s, n
<1>4. Promise!IsLexeme(s) => Promise!IsLexeme(SubSeq(s, 1, n))
  <2>1. Len(s) \in Nat /\ Len(s) >= 1
    BY <1>0, <1>1, <1>2
  <2> QED
    BY <1>1, <1>2, <2>1, BeginningsAreLexemes
<1> QED
  BY <1>3, <1>4 DEF s

-----------------------------------------------------------------------------
(* Types *)

LEMMA EmptyBuffer ==
  ASSUME text \in Seq(STRING), NEW p \in 1..Len(text) + 1
  PROVE  Len(<<>>) = 0 /\ Len(<<>>) < p /\ <<>> = SubSeq(text, p - Len(<<>>), p - 1)
<1>1. Len(<<>>) = 0 /\ p \in Nat /\ p >= 1 /\ Len(text) \in Nat
  OBVIOUS
<1>2. SubSeq(text, p, p - 1) = <<>>
  BY <1>1, SubSeqEmpty
<1>3. p - 0 = p
  BY <1>1
<1> QED
  BY <1>1, <1>2, <1>3

(* One more character.                                                      *)
LEMMA LongerBuffer ==
  ASSUME NEW T, NEW t \in Seq(T), NEW p \in 1..Len(t), NEW l \in Nat, l < p,
         NEW c, c = SubSeq(t, p - l, p - 1), Len(c) = l
  PROVE  /\ c \in Seq(T) /\ t[p] \in T /\ Len(Append(c, t[p])) = l + 1
         /\ Append(c, t[p]) = SubSeq(t, p - l, p)
         /\ Append(c, t[p]) = SubSeq(t, (p + 1) - Len(Append(c, t[p])), (p + 1) - 1)
<1> DEFINE d == Append(c, t[p])
           i == p - l
<1>0. p \in Nat /\ p <= Len(t) /\ i \in Nat /\ i >= 1 /\ i <= p /\ Len(t) \in Nat /\ t[p] \in T
  OBVIOUS
<1>1. c \in Seq(T) /\ \A k \in 1..l : c[k] = t[i + k - 1]
  BY <1>0, SubSeqProperties
<1>2. d \in Seq(T) /\ Len(d) = l + 1 /\ (\A k \in 1..l : d[k] = c[k]) /\ d[l + 1] = t[p]
  BY <1>0, <1>1, AppendProperties
<1>3. /\ SubSeq(t, i, p) \in Seq(T) /\ Len(SubSeq(t, i, p)) = l + 1
      /\ \A k \in 1..l + 1 : SubSeq(t, i, p)[k] = t[i + k - 1]
  BY <1>0, SubSeqProperties
<1>4. \A k \in 1..Len(d) : d[k] = SubSeq(t, i, p)[k]
  <2> SUFFICES ASSUME NEW k \in 1..Len(d) PROVE d[k] = SubSeq(t, i, p)[k]
    OBVIOUS
  <2>1. CASE k = l + 1
    <3>1. i + (l + 1) - 1 = p /\ l + 1 \in 1..l + 1
      BY <1>0
    <3> HIDE DEF d, i
    <3> QED
      BY <2>1, <3>1, <1>2, <1>3
  <2>2. CASE k \in 1..l
    <3>1. k \in 1..l + 1
      BY <2>2
    <3> HIDE DEF d, i
    <3> QED
      BY <2>2, <3>1, <1>1, <1>2, <1>3
  <2> HIDE DEF d
  <2>3. k = l + 1 \/ k \in 1..l
    BY <1>2
  <2> QED
    BY <2>1, <2>2, <2>3
<1>5. d = SubSeq(t, i, p)
  <2> HIDE DEF d, i
  <2> QED
    BY <1>2, <1>3, <1>4, SeqEqual
<1>6. (p + 1) - (l + 1) = i /\ (p + 1) - 1 = p
  BY <1>0
<1>7. d = SubSeq(t, (p + 1) - Len(d), (p + 1) - 1)
  <2> HIDE DEF d, i
  <2> QED
    BY <1>2, <1>5, <1>6
<1> QED
  BY <1>0, <1>1, <1>2, <1>5, <1>7

(* What the types say of the buffer and the character under pos.            *)
LEMMA Buffered ==
  ASSUME TypeOK
  PROVE  /\ text \in Seq(STRING) /\ Len(text) \in Nat /\ pos \in Nat /\ pos >= 1
         /\ pos <= Len(text) + 1 /\ current_token \in Seq(STRING)
         /\ Len(current_token) \in Nat /\ Len(current_token) < pos
         /\ pos <= Len(text) => /\ pos \in 1..Len(text) /\ text[pos] \in STRING
                                /\ Append(current_token, text[pos])
                                     = SubSeq(text, pos - Len(current_token), pos)
<1>1. text \in Seq(STRING)
  BY TextsAssumption DEF TypeOK
<1>2. /\ Len(text) \in Nat /\ pos \in Nat /\ pos >= 1 /\ pos <= Len(text) + 1
      /\ Len(current_token) \in Nat /\ Len(current_token) < pos
  BY <1>1, MaxTokenLengthAssumption DEF TypeOK
<1>3. pos <= Len(text) => pos \in 1..Len(text) /\ text[pos] \in STRING
  BY <1>1, <1>2
<1>4. current_token = SubSeq(text, pos - Len(current_token), pos - 1)
  BY DEF TypeOK
<1>5. current_token \in Seq(STRING)
  <2>1. \A k \in pos - Len(current_token)..pos - 1 : k \in 1..Len(text)
    BY <1>2
  <2>2. \A k \in pos - Len(current_token)..pos - 1 : text[k] \in STRING
    BY <1>1, <2>1
  <2>3. pos - Len(current_token) \in Int /\ pos - 1 \in Int
    BY <1>2
  <2>4. SubSeq(text, pos - Len(current_token), pos - 1) \in Seq(STRING)
    BY <2>2, <2>3, SubSeqProperties
  <2> QED
    BY <2>4, <1>4
<1>6. pos <= Len(text) => Append(current_token, text[pos])
                                     = SubSeq(text, pos - Len(current_token), pos)
  <2> SUFFICES ASSUME pos <= Len(text)
               PROVE  Append(current_token, text[pos])
                        = SubSeq(text, pos - Len(current_token), pos)
    OBVIOUS
  <2>1. pos \in 1..Len(text)
    BY <1>3
  <2>2. PICK l \in Nat : l = Len(current_token)
    BY <1>2
  <2>3. l < pos /\ current_token = SubSeq(text, pos - l, pos - 1) /\ Len(current_token) = l
    BY <2>2, <1>2, <1>4
  <2>4. Append(current_token, text[pos]) = SubSeq(text, pos - l, pos)
    BY <2>1, <2>3, <1>1, LongerBuffer
  <2> QED
    BY <2>2, <2>4
<1> QED
  BY <1>1, <1>2, <1>3, <1>5, <1>6

LEMMA TypesPreserved ==
  TypeOK /\ [Next]_vars => TypeOK'
<1> SUFFICES ASSUME TypeOK, [Next]_vars
             PROVE  TypeOK'
  OBVIOUS
<1>0. /\ text \in Texts /\ state \in State /\ Len(current_token) \in 0..MaxTokenLength + 1
      /\ failed \in BOOLEAN /\ phase \in {"scan", "last", "done"}
  BY DEF TypeOK
<1>1. STATE0 \in State /\ MaxTokenLength \in Nat
  BY MaxTokenLengthAssumption DEF State
<1>2. ASSUME text' = text, pos' \in 1..Len(text) + 1, current_token' = <<>>, state' = STATE0,
             failed' \in BOOLEAN, phase' \in {"scan", "last", "done"}
      PROVE  TypeOK'
  <2>1. /\ Len(<<>>) = 0 /\ Len(<<>>) < pos'
        /\ <<>> = SubSeq(text, pos' - Len(<<>>), pos' - 1)
    BY <1>2, Buffered, EmptyBuffer
  <2>2. Len(current_token') \in 0..MaxTokenLength + 1
    BY <1>1, <1>2, <2>1
  <2>3. /\ Len(current_token') < pos'
        /\ current_token' = SubSeq(text', pos' - Len(current_token'), pos' - 1)
    BY <1>2, <2>1
  <2>4. pos' \in 1..Len(text') + 1
    BY <1>2
  <2> QED
    BY <1>0, <1>1, <1>2, <2>2, <2>3, <2>4 DEF TypeOK
<1>3. Looping => /\ pos \in 1..Len(text) /\ pos + 1 \in 1..Len(text) + 1
                 /\ pos \in 1..Len(text) + 1
  BY Buffered DEF Looping
<1>4. CASE handle_end_of_path
  <2>1. pos' \in 1..Len(text) + 1
    BY <1>3, <1>4 DEF handle_end_of_path
  <2> QED
    BY <2>1, <1>0, <1>2, <1>4 DEF handle_end_of_path
<1>5. CASE handle_error
  <2>1. pos' \in 1..Len(text) + 1
    BY <1>3, <1>5 DEF handle_error
  <2> QED
    BY <2>1, <1>0, <1>2, <1>5 DEF handle_error
<1>6. CASE add_to_current_token
  <2>1. pos \in 1..Len(text) /\ pos' = pos + 1
    BY <1>3, <1>6 DEF add_to_current_token
  <2>2. Len(current_token) \in Nat /\ Len(current_token) <= MaxTokenLength
    BY <1>0, <1>1, <1>6 DEF add_to_current_token, Full
  <2>3. PICK l \in Nat : l = Len(current_token)
    BY <2>2
  <2>4. /\ l < pos /\ current_token = SubSeq(text, pos - l, pos - 1) /\ Len(current_token) = l
        /\ text \in Seq(STRING)
    BY <2>3, Buffered DEF TypeOK
  <2> DEFINE d == Append(current_token, text[pos])
  <2>5. Len(d) = l + 1 /\ d = SubSeq(text, (pos + 1) - Len(d), (pos + 1) - 1)
    <3>1. PICK T : text \in Seq(T)
      BY <2>4
    <3>2. pos \in 1..Len(text)
      BY <2>1
    <3>3. Len(Append(current_token, text[pos])) = l + 1
      BY <3>1, <3>2, <2>3, <2>4, LongerBuffer
    <3>4. Append(current_token, text[pos]) = SubSeq(text, pos - l, pos)
      <4>1. Append(current_token, text[pos]) = SubSeq(text, pos - Len(current_token), pos)
        <5>1. pos <= Len(text)
          BY <1>6 DEF add_to_current_token, Looping
        <5> QED
          BY <5>1, Buffered
      <4> QED
        BY <4>1, <2>3
    <3>5. (pos + 1) - (l + 1) = pos - l /\ (pos + 1) - 1 = pos
      BY <3>2, <2>3
    <3> HIDE DEF d
    <3>6. Len(d) = l + 1 /\ d = SubSeq(text, pos - l, pos)
      BY <3>3, <3>4 DEF d
    <3> QED
      BY <3>5, <3>6
  <2>6. current_token' = d /\ text' = text
    BY <1>6 DEF add_to_current_token
  <2> HIDE DEF d
  <2>7. Len(d) \in 0..MaxTokenLength + 1 /\ Len(d) < pos + 1 /\ pos + 1 \in 1..Len(text) + 1
    BY <2>1, <2>2, <2>3, <2>4, <2>5, <1>1, <1>3, <1>6 DEF add_to_current_token
  <2>8. state' \in State
    <3>1. Reached # ERROR /\ state' = Reached
      BY <1>6 DEF add_to_current_token
    <3>2. Reached = Lexer_FSM(state, text[pos])
      BY <3>1 DEF Reached, get_next_state
    <3> QED
      BY <3>1, <3>2, <1>0, AutomatonStays
  <2> QED
    BY <1>0, <2>1, <2>5, <2>6, <2>7, <2>8, <1>6 DEF TypeOK, add_to_current_token
<1>7. CASE handle_above_maximum_token_length
  <2>1. pos \in 1..Len(text) /\ pos' = (pos + Remaining(pos)) - 1
    BY <1>3, <1>7 DEF handle_above_maximum_token_length
  <2>2. Remaining(pos) \in Nat /\ pos + Remaining(pos) <= Len(text) + 1
    BY <2>1, Buffered, RemainingInText
  <2>3. pos >= 2
    BY Buffered, <1>1, <1>7 DEF handle_above_maximum_token_length, Full
  <2>4. pos' \in 1..Len(text) + 1
    BY <2>1, <2>2, <2>3, Buffered
  <2> QED
    BY <2>4, <1>0, <1>2, <1>7 DEF handle_above_maximum_token_length
<1>8. CASE AddLastToken
  BY <1>8 DEF AddLastToken, TypeOK
<1>9. CASE insert_eof_token
  BY <1>9 DEF insert_eof_token, TypeOK
<1>10. CASE UNCHANGED vars
  BY <1>10 DEF vars, TypeOK
<1> QED
  BY <1>4, <1>5, <1>6, <1>7, <1>8, <1>9, <1>10 DEF Next

LEMMA TypesAtFirst ==
  Init => TypeOK
<1> SUFFICES ASSUME Init
             PROVE  TypeOK
  OBVIOUS
<1>1. text \in Seq(STRING) /\ pos = 1 /\ 1 \in 1..Len(text) + 1
  BY TextsAssumption DEF Init
<1>2. Len(<<>>) = 0 /\ Len(<<>>) < 1 /\ <<>> = SubSeq(text, 1 - Len(<<>>), 1 - 1)
  BY <1>1, EmptyBuffer
<1>3. STATE0 \in State /\ 0 \in 0..MaxTokenLength + 1
  BY MaxTokenLengthAssumption DEF State
<1> QED
  BY <1>1, <1>2, <1>3 DEF Init, TypeOK

(* For every text and every limit, pos stays in the text or right behind it, *)
(* also when it is moved by the length of what is skipped; the buffer is     *)
(* what precedes pos and never longer than the limit and one (Lexer.c:70);   *)
(* and the automaton has no state without a meaning.                         *)
THEOREM TypeCorrect ==
  Spec => []TypeOK
<1> QED
  BY TypesAtFirst, TypesPreserved, PTL DEF Spec

-----------------------------------------------------------------------------
(* The invariant *)

LEMMA InvAtFirst ==
  Init => Inv
<1> SUFFICES ASSUME Init
             PROVE  Inv
  OBVIOUS
<1>1. STATE0 \notin Names \cup WordState \cup OneSign \cup TwoSigns
  BY StatesDiffer
<1>2. Tells(STATE0, <<>>)
  BY <1>1 DEF Tells, Names
<1> QED
  BY <1>2, TypesAtFirst DEF Init, Inv

LEMMA InvPreserved ==
  Inv /\ NoWordBeginsWithBr /\ [Next]_vars => Inv'
<1> SUFFICES ASSUME Inv, NoWordBeginsWithBr, [Next]_vars
             PROVE  Inv'
  OBVIOUS
<1>0. TypeOK /\ TypeOK' /\ Tells(state, current_token) /\ state \in State
  BY TypesPreserved DEF Inv, TypeOK
<1>1. Tells(STATE0, <<>>)
  <2>1. STATE0 \notin Names \cup WordState \cup OneSign \cup TwoSigns
    BY StatesDiffer
  <2> QED
    BY <2>1 DEF Tells, Names
<1>2. CASE handle_end_of_path
  BY <1>0, <1>1, <1>2 DEF handle_end_of_path, Looping, Inv
<1>3. CASE handle_error
  BY <1>0, <1>1, <1>3 DEF handle_error, Looping, Inv
<1>4. CASE add_to_current_token
  <2>1. /\ pos <= Len(text) /\ Reached # STATE0 /\ Reached # ERROR /\ state' = Reached
        /\ current_token' = Append(current_token, text[pos]) /\ phase' = "scan"
    BY <1>4 DEF add_to_current_token, Looping
  <2>2. Reached = Lexer_FSM(state, text[pos]) /\ text[pos] \in Available_Lookup
    BY <2>1 DEF Reached, get_next_state
  <2>3. current_token \in Seq(STRING) /\ text[pos] \in STRING /\ Len(current_token) \in Nat
    BY <1>0, <2>1, Buffered
  <2>4. CASE current_token = <<>>
    <3>1. state = STATE0
      BY <1>0, <2>4 DEF Tells
    <3>2. Append(current_token, text[pos]) = <<text[pos]>>
      BY <2>4
    <3> QED
      BY <1>0, <2>1, <2>2, <2>3, <3>1, <3>2, Starts, Rows DEF Inv
  <2>5. CASE current_token # <<>>
    <3>1. Len(current_token) >= 1
      BY <2>3, <2>5, EmptySeq
    <3>2. Follows(Lexer_FSM(state, text[pos]), Append(current_token, text[pos]))
      BY <1>0, <2>1, <2>2, <2>3, <3>1, AutomatonFollows DEF NoWordBeginsWithBr
    <3> QED
      BY <1>0, <2>1, <2>2, <3>2 DEF Follows, Inv
  <2> QED
    BY <2>4, <2>5
<1>5. CASE handle_above_maximum_token_length
  BY <1>0, <1>1, <1>5 DEF handle_above_maximum_token_length, Looping, Inv
<1>6. CASE AddLastToken
  BY <1>0, <1>6 DEF AddLastToken, Inv
<1>7. CASE insert_eof_token
  BY <1>0, <1>7 DEF insert_eof_token, Inv
<1>8. CASE UNCHANGED vars
  BY <1>0, <1>8 DEF vars, Inv
<1> QED
  BY <1>2, <1>3, <1>4, <1>5, <1>6, <1>7, <1>8 DEF Next

-----------------------------------------------------------------------------
(* The promise is kept *)

(* LongestEnd for a lexeme that starts at i.                                *)
Ends(i, e) ==
  /\ Promise!IsLexeme(SubSeq(text, i, e))
  /\ \A f \in e + 1..Len(text) : ~ Promise!IsLexeme(SubSeq(text, i, f))

LEMMA LongestEnds ==
  ASSUME TypeOK, phase = "scan", current_token # <<>>, Promise!IsLexeme(current_token)
  PROVE  LET i == pos - Len(current_token) IN
         /\ Promise!LongestEnd \in i..Len(text) /\ Ends(i, Promise!LongestEnd)
         /\ Promise!AtLexeme
         /\ Promise!LongestEnd >= pos - 1
<1> DEFINE i == pos - Len(current_token)
           E == {e \in i..Len(text) : Promise!IsLexeme(SubSeq(text, i, e))}
           L == CHOOSE e \in i..Len(text) : Ends(i, e)
<1>1. /\ i \in Nat /\ i >= 1 /\ i <= pos - 1 /\ pos - 1 \in Nat /\ pos \in Nat
      /\ pos <= Len(text) + 1 /\ Len(text) \in Nat /\ pos - 1 <= Len(text)
      /\ text \in Seq(STRING) /\ current_token \in Seq(STRING)
  <2>1. Len(current_token) >= 1
    BY Buffered, EmptySeq
  <2> QED
    BY <2>1, Buffered
<1>2. current_token = SubSeq(text, i, pos - 1)
  BY DEF TypeOK
<1>3. Promise!LongestEnd = L
  BY DEF Promise!LongestEnd, Ends
<1>4. \E e \in i..Len(text) : Ends(i, e)
  <2> HIDE DEF i
  <2>1. pos - 1 \in E
    BY <1>1, <1>2
  <2>2. E \subseteq 1..Len(text)
    BY <1>1
  <2>3. PICK e \in E : \A f \in E : f <= e
    <3> HIDE DEF E
    <3> QED
      BY <1>1, <2>1, <2>2, Largest
  <2>4. e \in i..Len(text) /\ Promise!IsLexeme(SubSeq(text, i, e))
    OBVIOUS
  <2>5. ASSUME NEW f \in e + 1..Len(text), Promise!IsLexeme(SubSeq(text, i, f))
        PROVE  FALSE
    <3>1. f \in i..Len(text) /\ ~ (f <= e)
      BY <1>1, <2>4
    <3>2. f \in E
      BY <3>1, <2>5
    <3> HIDE DEF E
    <3> QED
      BY <3>1, <3>2, <2>3
  <2> QED
    BY <2>4, <2>5 DEF Ends
<1>5. L \in i..Len(text) /\ Ends(i, L)
  <2> HIDE DEF i
  <2> QED
    BY <1>4
<1>6. L >= pos - 1
  <2> HIDE DEF i, L
  <2>1. L \in Nat /\ (L < pos - 1 => pos - 1 \in L + 1..Len(text))
    BY <1>1, <1>5
  <2> QED
    BY <2>1, <1>1, <1>2, <1>5 DEF Ends
<1>7. Promise!AtLexeme
  <2>1. Len(current_token) >= 1
    BY Buffered, EmptySeq
  <2>2. 1 \in 1..Len(current_token) /\ Len(current_token) \in Nat
    BY <2>1, Buffered
  <2>3. Promise!IsLexeme(SubSeq(current_token, 1, 1))
    BY <2>1, <2>2, <1>1, BeginningsAreLexemes
  <2>4. /\ SubSeq(current_token, 1, 1) \in Seq(STRING) /\ Len(SubSeq(current_token, 1, 1)) = 1
        /\ SubSeq(current_token, 1, 1)[1] = current_token[1]
    BY <2>2, <1>1, SubSeqProperties
  <2>5. current_token[1] = text[i] /\ text[i] \in STRING
    <3> HIDE DEF i
    <3>1. \A k \in 1..(pos - 1) - i + 1 : SubSeq(text, i, pos - 1)[k] = text[i + k - 1]
      BY <1>1, SubSeqProperties
    <3>2. 1 \in 1..(pos - 1) - i + 1 /\ i + 1 - 1 = i /\ i \in 1..Len(text)
      BY <1>1
    <3> QED
      BY <3>1, <3>2, <1>1, <1>2
  <2>6. <<text[i]>> \in Seq(STRING) /\ Len(<<text[i]>>) = 1 /\ <<text[i]>>[1] = text[i]
    BY <2>5
  <2>7. SubSeq(current_token, 1, 1) = <<text[i]>>
    <3> HIDE DEF i
    <3>1. \A k \in 1..Len(SubSeq(current_token, 1, 1)) :
            SubSeq(current_token, 1, 1)[k] = <<text[i]>>[k]
      BY <2>4, <2>5, <2>6
    <3> QED
      BY <3>1, <2>4, <2>6, SeqEqual
  <2>8. i <= Len(text)
    BY <1>1
  <2> QED
    BY <2>3, <2>7, <2>8 DEF Promise!AtLexeme
<1> QED
  BY <1>3, <1>5, <1>6, <1>7

(* When the lexeme in the buffer does not go on, it is the longest one.     *)
LEMMA TakesLongest ==
  ASSUME TypeOK, phase = "scan", current_token # <<>>, Promise!IsLexeme(current_token),
         pos <= Len(text) => ~ Promise!IsLexeme(Append(current_token, text[pos]))
  PROVE  /\ Promise!AtLexeme
         /\ Promise!LongestEnd = pos - 1 /\ Promise!Longest = current_token
         /\ ~ Promise!TooLong
<1> DEFINE i == pos - Len(current_token)
<1>1. /\ i \in Nat /\ i >= 1 /\ i <= pos - 1 /\ pos - 1 \in Nat /\ pos \in Nat
      /\ pos <= Len(text) + 1 /\ Len(text) \in Nat /\ text \in Seq(STRING)
  <2>1. Len(current_token) >= 1
    BY Buffered, EmptySeq
  <2> QED
    BY <2>1, Buffered
<1>2. /\ Promise!LongestEnd \in i..Len(text) /\ Ends(i, Promise!LongestEnd)
      /\ Promise!LongestEnd >= pos - 1
  BY LongestEnds
<1>3. pos <= Len(text) => Append(current_token, text[pos]) = SubSeq(text, i, pos)
  BY Buffered
<1>4. PICK L : L = Promise!LongestEnd
  OBVIOUS
<1>5. current_token = SubSeq(text, i, pos - 1)
  BY DEF TypeOK
<1> HIDE DEF i
<1>6. ASSUME L > pos - 1
      PROVE  FALSE
  <2>1. L \in pos..Len(text) /\ pos \in i..Len(text) /\ i \in 1..Len(text) /\ pos <= Len(text)
    BY <1>1, <1>2, <1>4, <1>6
  <2>2. ~ Promise!IsLexeme(SubSeq(text, i, pos))
    BY <1>1, <1>3, <2>1
  <2>3. ~ Promise!IsLexeme(SubSeq(text, i, L))
    BY <1>1, <2>1, <2>2, NoLongerLexeme
  <2> QED
    BY <2>3, <1>2, <1>4 DEF Ends
<1>7. Promise!LongestEnd = pos - 1
  BY <1>1, <1>2, <1>4, <1>6
<1>8. Promise!Longest = current_token
  BY <1>5, <1>7 DEF Promise!Longest, i
<1>9. ~ Promise!TooLong
  BY <1>8, MaxTokenLengthAssumption, Buffered DEF Promise!TooLong, TypeOK
<1> QED
  BY <1>7, <1>8, <1>9, LongestEnds

(* Behind a character that is not known there is no lexeme.                 *)
LEMMA UnknownEnds ==
  ASSUME NEW T, NEW c \in Seq(T), Len(c) >= 1, NEW x \in T, x \notin Promise!Known
  PROVE  ~ Promise!IsLexeme(Append(c, x))
<1> DEFINE d == Append(c, x)
<1>1. d \in Seq(T) /\ Len(d) \in Nat /\ Len(d) >= 1 /\ d[Len(d)] = x
  BY Appended
<1> HIDE DEF d
<1>2. Len(d) \in 1..Len(d)
  BY <1>1
<1>3. Promise!IsLexeme(d) => d[Len(d)] \in Promise!Known
  BY <1>1, <1>2, LexemesAreKnown
<1> QED
  BY <1>1, <1>3 DEF d

(* The automaton's answer for the character under pos.                      *)
LEMMA Answers ==
  ASSUME Inv, NoWordBeginsWithBr, Looping
  PROVE  /\ Reached = ERROR <=> text[pos] \notin Promise!Known
         /\ current_token = <<>> <=> state = STATE0
         /\ state = STATE0 /\ Reached = STATE0 => text[pos] \in Promise!Blank
         /\ state # STATE0 /\ Reached \in {STATE0, ERROR}
              => ~ Promise!IsLexeme(Append(current_token, text[pos]))
         /\ state # STATE0 /\ Reached \notin {STATE0, ERROR}
              => Promise!IsLexeme(Append(current_token, text[pos]))
         /\ state # STATE0 => Promise!IsLexeme(current_token) /\ Len(current_token) >= 1
<1>1. /\ TypeOK /\ state \in State /\ pos <= Len(text) /\ Tells(state, current_token)
      /\ current_token \in Seq(STRING) /\ Len(current_token) \in Nat /\ text[pos] \in STRING
  BY Buffered DEF Inv, TypeOK, Looping
<1>2. Reached = ERROR <=> text[pos] \notin Promise!Known
  BY <1>1, AutomatonStays, SignsDiffer DEF Reached, get_next_state
<1>3. current_token = <<>> <=> state = STATE0
  BY <1>1 DEF Tells
<1>4. Reached # ERROR => Reached = Lexer_FSM(state, text[pos]) /\ text[pos] \in Available_Lookup
  BY DEF Reached, get_next_state
<1>5. STATE0 # ERROR
  BY StatesDiffer DEF Names
<1>6. state = STATE0 /\ Reached = STATE0 => text[pos] \in Promise!Blank
  BY <1>1, <1>4, <1>5, Rows, Starts
<1>7. state # STATE0 => Promise!IsLexeme(current_token) /\ Len(current_token) >= 1
  <2>1. state # STATE0 => Promise!IsLexeme(current_token)
    BY <1>1, <1>3 DEF Tells
  <2>2. current_token # <<>> => Len(current_token) >= 1
    BY <1>1, EmptySeq
  <2> QED
    BY <2>1, <2>2, <1>3
<1>8. ASSUME state # STATE0, Reached = ERROR
      PROVE  ~ Promise!IsLexeme(Append(current_token, text[pos]))
  BY <1>1, <1>2, <1>7, <1>8, UnknownEnds
<1>9. ASSUME state # STATE0, Reached # ERROR
      PROVE  /\ Reached = STATE0 => ~ Promise!IsLexeme(Append(current_token, text[pos]))
             /\ Reached # STATE0 => Promise!IsLexeme(Append(current_token, text[pos]))
  <2>1. Follows(Reached, Append(current_token, text[pos]))
    BY <1>1, <1>4, <1>7, <1>9, AutomatonFollows DEF NoWordBeginsWithBr
  <2>2. Append(current_token, text[pos]) # <<>>
    BY <1>1, AppendProperties
  <2> QED
    BY <2>1, <2>2 DEF Follows, Tells
<1> QED
  BY <1>2, <1>3, <1>6, <1>7, <1>8, <1>9

LEMMA EndOfPathKeeps ==
  ASSUME Inv, NoWordBeginsWithBr, handle_end_of_path
  PROVE  Promise!SkipBlank \/ Promise!TakeLexeme
<1>1. /\ Looping /\ phase = "scan" /\ pos <= Len(text) /\ Reached = STATE0 /\ STATE0 # ERROR
      /\ text' = text /\ failed' = failed /\ phase' = "scan" /\ current_token' = <<>>
      /\ tokens' = (IF is_ignored_state(state) THEN tokens
                    ELSE add_token(tokens, state, current_token))
      /\ pos' = (IF state = STATE0 \/ text[pos] = "\n" THEN pos + 1 ELSE pos)
  BY StatesDiffer DEF handle_end_of_path, Looping, Names
<1>2. /\ TypeOK /\ pos \in Nat /\ Len(<<>>) = 0 /\ pos' \in Nat /\ pos' - Len(<<>>) = pos'
      /\ current_token \in Seq(STRING) /\ state \in State /\ Tells(state, current_token)
  BY <1>1, Buffered DEF Inv, TypeOK
<1>3. text[pos] \in Promise!Known
  BY <1>1, Answers
<1>4. CASE state = STATE0
  <2>1. current_token = <<>> /\ text[pos] \in Promise!Blank
    BY <1>1, <1>4, Answers
  <2>2. tokens' = tokens /\ pos' = pos + 1
    BY <1>1, <1>4 DEF is_ignored_state
  <2>3. pos - Len(current_token) = pos
    BY <1>2, <2>1
  <2> QED
    BY <1>1, <1>2, <2>1, <2>2, <2>3 DEF Promise!SkipBlank
<1>5. CASE state # STATE0
  <2>1. /\ current_token # <<>> /\ Promise!IsLexeme(current_token) /\ Len(current_token) >= 1
        /\ ~ Promise!IsLexeme(Append(current_token, text[pos]))
    BY <1>1, <1>5, Answers
  <2>2. /\ Promise!AtLexeme /\ Promise!LongestEnd = pos - 1
        /\ Promise!Longest = current_token /\ ~ Promise!TooLong
    BY <1>1, <1>2, <2>1, TakesLongest
  <2>3. (pos - 1) + 1 = pos /\ (pos - 1) + 2 = pos + 1 /\ pos - 1 < Len(text)
    BY <1>1, <1>2, Buffered
  <2>4. ~ Promise!Broken
    BY <2>2, <2>3, <1>3 DEF Promise!Broken
  <2>5. tokens' = IF Promise!IsComment(Promise!Longest) THEN tokens
                  ELSE Append(tokens, [type |-> Promise!TypeOf(Promise!Longest),
                                       lexeme |-> Promise!Longest])
    BY <1>1, <1>2, <2>1, <2>2, TypesOfLexemes DEF add_token
  <2>6. pos' = IF Promise!LongestEnd < Len(text) /\ text[Promise!LongestEnd + 1] = "\n"
               THEN Promise!LongestEnd + 2 ELSE Promise!LongestEnd + 1
    BY <1>1, <1>5, <2>2, <2>3
  <2> QED
    BY <1>1, <1>2, <2>2, <2>4, <2>5, <2>6 DEF Promise!TakeLexeme
<1> QED
  BY <1>4, <1>5

LEMMA ErrorKeeps ==
  ASSUME Inv, NoWordBeginsWithBr, handle_error
  PROVE  Promise!Report
<1>1. /\ Looping /\ phase = "scan" /\ pos <= Len(text) /\ Reached = ERROR
      /\ text' = text /\ failed' = TRUE /\ phase' = "scan" /\ current_token' = <<>>
      /\ tokens' = tokens /\ pos' = pos + 1
  BY DEF handle_error, Looping
<1>2. /\ TypeOK /\ pos \in Nat /\ Len(<<>>) = 0 /\ pos' - Len(<<>>) = pos + 1
      /\ Len(text) \in Nat /\ Len(current_token) \in Nat /\ Len(current_token) < pos
  BY <1>1, Buffered DEF Inv
<1>3. text[pos] \notin Promise!Known
  BY <1>1, Answers
<1>4. /\ pos - Len(current_token) <= Len(text)
      /\ pos + 1 \in (pos - Len(current_token)) + 1..Len(text) + 1
  BY <1>1, <1>2
<1>5. CASE state = STATE0
  <2>1. pos - Len(current_token) = pos
    BY <1>1, <1>2, <1>5, Answers
  <2> QED
    BY <1>1, <1>2, <1>3, <1>4, <2>1 DEF Promise!Report
<1>6. CASE state # STATE0
  <2>1. /\ current_token # <<>> /\ Promise!IsLexeme(current_token)
        /\ ~ Promise!IsLexeme(Append(current_token, text[pos]))
    BY <1>1, <1>6, Answers
  <2>2. Promise!AtLexeme /\ Promise!LongestEnd = pos - 1
    BY <1>1, <1>2, <2>1, TakesLongest
  <2>3. (pos - 1) + 1 = pos /\ pos - 1 < Len(text)
    BY <1>1, <1>2
  <2>4. Promise!Broken
    BY <1>3, <2>2, <2>3 DEF Promise!Broken
  <2> QED
    BY <1>1, <1>2, <1>4, <2>2, <2>4 DEF Promise!Report
<1> QED
  BY <1>5, <1>6

LEMMA AddKeeps ==
  ASSUME Inv, add_to_current_token
  PROVE  UNCHANGED Promise!vars
<1>1. /\ Looping /\ phase = "scan" /\ pos <= Len(text)
      /\ text' = text /\ failed' = failed /\ phase' = "scan" /\ tokens' = tokens
      /\ current_token' = Append(current_token, text[pos]) /\ pos' = pos + 1
  BY DEF add_to_current_token, Looping
<1>2. /\ pos \in Nat /\ current_token \in Seq(STRING) /\ text[pos] \in STRING
      /\ Len(current_token) \in Nat
  BY <1>1, Buffered DEF Inv
<1>3. Len(current_token') = Len(current_token) + 1
  BY <1>1, <1>2, AppendProperties
<1>4. pos' - Len(current_token') = pos - Len(current_token)
  BY <1>1, <1>2, <1>3
<1> QED
  BY <1>1, <1>4 DEF Promise!vars

LEMMA AboveMaximumKeeps ==
  ASSUME Inv, NoWordBeginsWithBr, handle_above_maximum_token_length
  PROVE  Promise!Report
<1>1. /\ Looping /\ phase = "scan" /\ pos <= Len(text) /\ Reached \notin {STATE0, ERROR} /\ Full
      /\ text' = text /\ failed' = TRUE /\ phase' = "scan" /\ current_token' = <<>>
      /\ tokens' = tokens /\ pos' = (pos + Remaining(pos)) - 1
  BY DEF handle_above_maximum_token_length, Looping
<1>2. /\ TypeOK /\ pos \in Nat /\ pos \in 1..Len(text) /\ Len(<<>>) = 0 /\ text \in Seq(STRING)
      /\ Len(text) \in Nat /\ Len(current_token) \in Nat /\ Len(current_token) < pos
      /\ current_token \in Seq(STRING)
  BY <1>1, Buffered DEF Inv
<1>3. MaxTokenLength \in Nat /\ MaxTokenLength >= 1 /\ Len(current_token) > MaxTokenLength
  BY <1>1, MaxTokenLengthAssumption DEF Full
<1>4. current_token # <<>>
  BY <1>2, <1>3
<1>5. /\ Promise!IsLexeme(current_token)
      /\ Promise!IsLexeme(Append(current_token, text[pos]))
  BY <1>1, <1>4, Answers
<1> DEFINE i == pos - Len(current_token)
<1>6. /\ Promise!LongestEnd \in i..Len(text) /\ Ends(i, Promise!LongestEnd)
      /\ Promise!AtLexeme /\ Promise!LongestEnd >= pos - 1
  BY <1>1, <1>2, <1>4, <1>5, LongestEnds
<1>7. PICK L : L = Promise!LongestEnd
  OBVIOUS
<1>8. /\ i \in Nat /\ i >= 1 /\ i <= pos - 2 /\ pos - i = Len(current_token)
  BY <1>2, <1>3
<1>9. Append(current_token, text[pos]) = SubSeq(text, i, pos)
  BY <1>1, <1>2, Buffered
<1>10. i <= Len(text) /\ pos' - Len(<<>>) \in i + 1..Len(text) + 1
  <2>1. Remaining(pos) \in Nat /\ pos + Remaining(pos) <= Len(text) + 1
    BY <1>2, RemainingInText
  <2> HIDE DEF i
  <2> QED
    BY <1>1, <1>2, <1>8, <2>1
<1>11. L \in pos..Len(text)
  <2> HIDE DEF i
  <2>1. L \in Nat /\ L <= Len(text) /\ L >= pos - 1
    BY <1>2, <1>6, <1>7, <1>8
  <2>2. L # pos - 1
    <3> SUFFICES ASSUME L = pos - 1 PROVE FALSE
      OBVIOUS
    <3>1. pos \in L + 1..Len(text)
      BY <1>2
    <3> QED
      BY <3>1, <1>5, <1>6, <1>7, <1>9 DEF Ends
  <2> QED
    BY <2>1, <2>2, <1>2
<1>12. Promise!TooLong
  <2>1. Promise!Longest = SubSeq(text, i, L)
    BY <1>1, <1>7 DEF Promise!Longest
  <2> HIDE DEF i
  <2>2. \A k \in i..L : text[k] \in STRING
    BY <1>2, <1>8, <1>11
  <2>3. i \in Int /\ L \in Int /\ i <= L
    BY <1>2, <1>8, <1>11
  <2>4. Len(Promise!Longest) = L - i + 1
    BY <2>1, <2>2, <2>3, SubSeqProperties
  <2>5. L - i + 1 > MaxTokenLength + 1
    BY <1>2, <1>3, <1>8, <1>11
  <2> QED
    BY <2>4, <2>5 DEF Promise!TooLong
<1> QED
  BY <1>1, <1>2, <1>6, <1>10, <1>12 DEF Promise!Report

LEMMA LastTokenKeeps ==
  ASSUME Inv, AddLastToken
  PROVE  Promise!TakeLexeme \/ UNCHANGED Promise!vars
<1>1. /\ phase = "scan" /\ pos > Len(text) /\ phase' = "last"
      /\ tokens' = (IF is_ignored_state(state) THEN tokens
                    ELSE add_token(tokens, state, current_token))
      /\ text' = text /\ pos' = pos /\ failed' = failed
  BY DEF AddLastToken
<1>2. /\ TypeOK /\ pos \in Nat /\ Len(text) \in Nat /\ pos = Len(text) + 1
      /\ current_token \in Seq(STRING) /\ Len(current_token) \in Nat
      /\ state \in State /\ Tells(state, current_token)
  BY <1>1, Buffered DEF Inv, TypeOK
<1>3. CASE current_token = <<>>
  <2>1. state = STATE0 /\ tokens' = tokens
    BY <1>1, <1>2, <1>3 DEF Tells, is_ignored_state
  <2>2. pos - Len(current_token) = pos
    BY <1>2, <1>3
  <2> QED
    BY <1>1, <2>1, <2>2 DEF Promise!vars
<1>4. CASE current_token # <<>>
  <2>1. Promise!IsLexeme(current_token) /\ Len(current_token) >= 1
    <3>1. Promise!IsLexeme(current_token)
      BY <1>2, <1>4 DEF Tells
    <3> QED
      BY <3>1, <1>2, <1>4, EmptySeq
  <2>2. ~ (pos <= Len(text))
    BY <1>2
  <2>3. /\ Promise!AtLexeme /\ Promise!LongestEnd = pos - 1
        /\ Promise!Longest = current_token /\ ~ Promise!TooLong
    BY <1>1, <1>2, <1>4, <2>1, <2>2, TakesLongest
  <2>4. ~ (pos - 1 < Len(text)) /\ (pos - 1) + 1 = pos
    BY <1>2
  <2>5. ~ Promise!Broken
    BY <2>3, <2>4 DEF Promise!Broken
  <2>6. tokens' = IF Promise!IsComment(Promise!Longest) THEN tokens
                  ELSE Append(tokens, [type |-> Promise!TypeOf(Promise!Longest),
                                       lexeme |-> Promise!Longest])
    BY <1>1, <1>2, <2>1, <2>3, TypesOfLexemes DEF add_token
  <2> QED
    BY <1>1, <2>3, <2>4, <2>5, <2>6 DEF Promise!TakeLexeme
<1> QED
  BY <1>3, <1>4

LEMMA EndKeeps ==
  ASSUME Inv, insert_eof_token
  PROVE  Promise!End
<1>1. /\ phase = "last" /\ phase' = "done" /\ pos > Len(text)
      /\ text' = text /\ pos' = pos /\ failed' = failed
      /\ tokens' = tokens \o <<EndOfProgram, EndOfProgram>>
  BY DEF insert_eof_token, Inv
<1> QED
  BY <1>1, SameOperators DEF Promise!End

(* For every text and every limit, tokenize implements Scanner: the longest *)
(* lexeme becomes a token of the right type, blanks and comments nothing,   *)
(* unknown characters and lexemes beyond the limit are reported (Lexer.c    *)
(* and the tables of LexerFSM.c); as long as no word begins with "br",      *)
(* which the row of B in LexerFSM.c takes for a beginning of "return".      *)
THEOREM LexerImplementsScanner ==
  Spec /\ []NoWordBeginsWithBr => ScansLongestLexemes
<1>1. Init => Promise!Init
  <2> SUFFICES ASSUME Init
               PROVE  Promise!Init
    OBVIOUS
  <2>1. Len(<<>>) = 0 /\ 1 - 0 = 1
    OBVIOUS
  <2> QED
    BY <2>1 DEF Init, Promise!Init
<1>2. Inv /\ NoWordBeginsWithBr /\ [Next]_vars => [Promise!Next]_Promise!vars
  <2> SUFFICES ASSUME Inv, NoWordBeginsWithBr, [Next]_vars
               PROVE  Promise!Next \/ UNCHANGED Promise!vars
    OBVIOUS
  <2>1. CASE handle_end_of_path
    BY <2>1, EndOfPathKeeps DEF Promise!Next
  <2>2. CASE handle_error
    BY <2>2, ErrorKeeps DEF Promise!Next
  <2>3. CASE add_to_current_token
    BY <2>3, AddKeeps
  <2>4. CASE handle_above_maximum_token_length
    BY <2>4, AboveMaximumKeeps DEF Promise!Next
  <2>5. CASE AddLastToken
    BY <2>5, LastTokenKeeps DEF Promise!Next
  <2>6. CASE insert_eof_token
    BY <2>6, EndKeeps DEF Promise!Next
  <2>7. CASE UNCHANGED vars
    BY <2>7 DEF vars, Promise!vars
  <2> QED
    BY <2>1, <2>2, <2>3, <2>4, <2>5, <2>6, <2>7 DEF Next
<1> QED
  BY <1>1, <1>2, InvAtFirst, InvPreserved, PTL
     DEF Spec, ScansLongestLexemes, Promise!Spec
=============================================================================
