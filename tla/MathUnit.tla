------------------------------- MODULE MathUnit --------------------------------
(***************************************************************************)
(* The ARM9's divider and square-root unit (src/runner/src/io.cpp).  Every *)
(* control or operand write restarts a completion event; the results keep  *)
(* their previous value until it fires.  A register word has DivBits bits  *)
(* in the divider and RootBits in the root unit (32 in the code); a narrow *)
(* write merges into the old word, which reaches the same words as writing *)
(* it whole.                                                               *)
(***************************************************************************)
EXTENDS Integers, Sequences

CONSTANTS DivBits, RootBits

VARIABLES div,  \* the divider: mode, operands, results, flags
          root  \* the square-root unit

vars == <<div, root>>

\* 2 ^ w.
Two(w) == LET p[k \in 0 .. w] == IF k = 0 THEN 1 ELSE 2 * p[k - 1] IN p[w]
Words(w) == 0 .. Two(w) - 1

\* words_u64, as_s32, as_s64 and store_s64.
Unsigned(w, p) == p[1] + Two(w) * p[2]
Signed(bits, n) == IF n >= Two(bits - 1) THEN n - Two(bits) ELSE n
AsS32(p) == Signed(DivBits, p[1])
AsS64(p) == Signed(2 * DivBits, Unsigned(DivBits, p))
Store(n) == LET u == n % Two(2 * DivBits)
            IN  <<u % Two(DivBits), u \div Two(DivBits)>>

Init ==
  /\ div = [mode |-> 0, num |-> <<0, 0>>, den |-> <<0, 0>>, quot |-> <<0, 0>>,
            rem |-> <<0, 0>>, busy |-> FALSE, zero |-> FALSE, used |-> FALSE]
  /\ root = [mode |-> 0, val |-> <<0, 0>>, res |-> 0, busy |-> FALSE,
             used |-> FALSE]

-----------------------------------------------------------------------------
(* finish_div.  C division truncates toward zero.                          *)

Abs(n) == IF n < 0 THEN -n ELSE n
Quotient(a, b) ==
  IF (a < 0) = (b < 0) THEN Abs(a) \div Abs(b) ELSE -(Abs(a) \div Abs(b))
Remainder(a, b) == a - b * Quotient(a, b)

\* Mode 0 divides 32 by 32 bits, mode 1 (and 3) 64 by 32, mode 2 64 by 64.
Numerator(d) == IF d.mode = 0 THEN AsS32(d.num) ELSE AsS64(d.num)
Denominator(d) == IF d.mode = 2 THEN AsS64(d.den) ELSE AsS32(d.den)
Least(d) == IF d.mode = 0 THEN -Two(DivBits - 1) ELSE -Two(2 * DivBits - 1)
Overflows(d) == Numerator(d) = Least(d) /\ Denominator(d) = -1

\* Dividing by zero answers +-1, in mode 0 with the high word inverted; the
\* quotient that does not fit is the numerator itself, and in mode 0 it leaves
\* the remainder of the division before.
Divided(d) ==
  LET n == Numerator(d)
      z == Denominator(d)
      top == Two(DivBits) - 1
  IN  IF z = 0
      THEN [d EXCEPT !.quot = IF d.mode = 0
                              THEN IF n < 0 THEN <<1, top>> ELSE <<top, 0>>
                              ELSE Store(IF n < 0 THEN 1 ELSE -1),
                     !.rem = Store(n)]
      ELSE IF Overflows(d)
      THEN [d EXCEPT !.quot = Store(IF d.mode = 0 THEN -n ELSE n),
                     !.rem = IF d.mode = 0 THEN @ ELSE Store(0)]
      ELSE [d EXCEPT !.quot = Store(Quotient(n, z)),
                     !.rem = Store(Remainder(n, z))]

\* The zero flag looks at both denominator words whatever the mode.
FinishDiv ==
  /\ div.busy
  /\ div' = [Divided(div) EXCEPT !.busy = FALSE, !.zero = div.den = <<0, 0>>]
  /\ UNCHANGED root

\* math_reg_write and start_div.  A control write overwrites the zero flag
\* until the event sets it again.
RestartedByControl(d, new) ==
  [new EXCEPT !.busy = d.busy \/ new.mode # d.mode, !.used = TRUE]
Restarted(d, new) == [new EXCEPT !.busy = TRUE, !.used = TRUE]
WriteDiv ==
  /\ \/ \E m \in 0 .. 3, flag \in BOOLEAN :
          div' = Restarted(div, [div EXCEPT !.mode = m, !.zero = flag])
     \/ \E v \in Words(DivBits), i \in 1 .. 2 :
          \/ div' = Restarted(div, [div EXCEPT !.num[i] = v])
          \/ div' = Restarted(div, [div EXCEPT !.den[i] = v])
  /\ UNCHANGED root

-----------------------------------------------------------------------------
(* finish_sqrt: two bits of the operand per step.  The trial product is a  *)
(* 32-bit word and wraps.                                                  *)

ShiftIn(w, s, bits) ==
  LET rem == s.rem * 4 + bits
      res == (s.res * 2) % Two(w)
      prod == (res * 2 + 1) % Two(w)
  IN  IF rem >= prod THEN [rem |-> rem - prod, res |-> (res + 1) % Two(w)]
      ELSE [rem |-> rem, res |-> res]

\* The loop over the n pairs of bits of v, most significant first.
SquareRoot(w, n, v) ==
  LET step[k \in 0 .. n] ==
        IF k = 0 THEN [rem |-> 0, res |-> 0]
        ELSE ShiftIn(w, step[k - 1], (v \div Two(2 * (n - k))) % 4)
  IN  step[n].res

Operand(r) == IF r.mode = 1 THEN Unsigned(RootBits, r.val) ELSE r.val[1]
Steps(r) == IF r.mode = 1 THEN RootBits ELSE RootBits \div 2

FinishSqrt ==
  /\ root.busy
  /\ root' = [root EXCEPT !.busy = FALSE,
                          !.res = SquareRoot(RootBits, Steps(root), Operand(root))]
  /\ UNCHANGED div

WriteSqrt ==
  /\ \/ \E m \in 0 .. 1 : root' = Restarted(root, [root EXCEPT !.mode = m])
     \/ \E v \in Words(RootBits), i \in 1 .. 2 :
          root' = Restarted(root, [root EXCEPT !.val[i] = v])
  /\ UNCHANGED div

DivNext == FinishDiv \/ WriteDiv
RootNext == FinishSqrt \/ WriteSqrt

-----------------------------------------------------------------------------
\* When the divider is not busy its results belong to the operands it shows:
\* the quotient and remainder of a division toward zero, at both ends of the
\* range and after any order of operand and mode writes.  The exceptions are
\* division by zero, the 64-bit quotient that does not fit, and the stale
\* remainder of the 32-bit one (finish_div).
DivisionExact ==
  LET n == Numerator(div)  z == Denominator(div)
      q == AsS64(div.quot)  r == AsS64(div.rem)
  IN  div.used /\ ~div.busy =>
        /\ div.zero <=> div.den = <<0, 0>>
        /\ z # 0 /\ ~Overflows(div) => /\ q * z + r = n
                                       /\ Abs(r) < Abs(z)
                                       /\ r # 0 => (r < 0) = (n < 0)
        /\ Overflows(div) /\ div.mode = 0 => q * z = n
        /\ z = 0 => r = n

\* A root that is not busy is the floor of the square root of the operand it
\* shows, for every operand whose root fits half a word's doubling: from
\* 2^62 on the wrapped product lets the last bits go wrong (finish_sqrt).
RootExact ==
  LET v == Operand(root)
  IN  /\ root.used /\ ~root.busy
      /\ root.mode = 1 => v < Two(2 * RootBits - 2)
      => root.res * root.res <= v /\ v < (root.res + 1) * (root.res + 1)
=============================================================================
