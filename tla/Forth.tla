------------------------------- MODULE Forth --------------------------------
(***************************************************************************)
(* The postfix language of -myId, -myAddress and -myParent.  A program is  *)
(* the sequence of its words, a stack a sequence with its top first.       *)
(***************************************************************************)
EXTENDS Integers, SequencesExt

CONSTANTS
  Letters,  \* what may stand in front of the number of a host
  Number    \* the integers that programs meet: a bound

Itoa(n) == ToString(n)
Values  == [s \in {Itoa(n) : n \in Number} |-> CHOOSE n \in Number : Itoa(n) = s]

IsInt(s) == s \in DOMAIN Values
Atoi(s)  == Values[s]

(* Go's division: the quotient is rounded towards zero.                    *)
Quot(y, x) == LET abs(n) == IF n < 0 THEN -n ELSE n
              IN  IF (y < 0) = (x < 0) THEN abs(y) \div abs(x) ELSE -(abs(y) \div abs(x))

Arithmetic == {"+", "-", "*", "/", "%", "roundup"}
Compute(word, y, x) ==
  CASE word = "+"       -> y + x
    [] word = "-"       -> y - x
    [] word = "*"       -> y * x
    [] word = "/"       -> Quot(y, x)
    [] word = "%"       -> y - x * Quot(y, x)
    [] word = "roundup" -> Quot(y + x - 1, x) * x

(* strings.TrimLeft: what follows the letters, if anything does.          *)
Trims ==
  LET digits == {Itoa(n) : n \in Number \cap Nat}
  IN  [s \in {w \o t : w \in Letters, t \in digits} |->
         CHOOSE t \in digits : \E w \in Letters : s = w \o t]

(* Variant in which a host without a number keeps its name.                *)
TrimToNumber(s) == IF s \in DOMAIN Trims THEN Trims[s] ELSE s

TrimLetters(s) ==
  IF s \in DOMAIN Trims THEN Trims[s] ELSE IF s \in Letters THEN "" ELSE s

(* A pop from an empty stack, a number that is none and a division by zero *)
(* all end the evaluation, the last one with the whole process.            *)
Fails    == [ok |-> FALSE, stack |-> <<>>]
Gives(s) == [ok |-> TRUE, stack |-> s]

(* Variant that joins its operands in the order they are popped.           *)
JoinedTopFirst(x, y) == x \o y

Joined(x, y) == y \o x

Chosen(x, y, z) == IF Atoi(x) # 0 THEN y ELSE z

(* One word, on a machine called host.                                     *)
Apply(word, s, host) ==
  LET x == s[1]
      y == s[2]
      Has(n)     == Len(s) >= n
      Leave(n, t) == Gives(t \o SubSeq(s, n + 1, Len(s)))
  IN  CASE word \in Arithmetic ->
             IF /\ Has(2) /\ IsInt(x) /\ IsInt(y)
                /\ word \in {"/", "%", "roundup"} => Atoi(x) # 0
             THEN Leave(2, <<Itoa(Compute(word, Atoi(y), Atoi(x)))>>) ELSE Fails
        [] word = "swap"     -> IF Has(2) THEN Leave(2, <<y, x>>) ELSE Fails
        [] word = "strcat"   -> IF Has(2) THEN Leave(2, <<Joined(x, y)>>) ELSE Fails
        [] word = "dup"      -> IF Has(1) THEN Leave(1, <<x, x>>) ELSE Fails
        [] word = "hostbase" -> IF Has(1) THEN Leave(1, <<TrimLetters(x)>>) ELSE Fails
        [] word = "ifelse"   -> IF Has(3) /\ IsInt(x) THEN Leave(3, <<Chosen(x, y, s[3])>>)
                                ELSE Fails
        [] word = "hostname" -> Leave(0, <<host>>)
        [] OTHER             -> Leave(0, <<word>>)

IEval(prog, s, host) ==
  FoldLeft(LAMBDA r, word : IF r.ok THEN Apply(word, r.stack, host) ELSE Fails,
           Gives(s), prog)

(* The result is the top; what is left below stays for the next program.   *)
Eval(prog, s, host) ==
  LET r == IEval(prog, s, host)
  IN  IF r.ok /\ r.stack # <<>>
      THEN [ok |-> TRUE, value |-> Head(r.stack), stack |-> Tail(r.stack)]
      ELSE [ok |-> FALSE, value |-> "", stack |-> <<>>]
=============================================================================
