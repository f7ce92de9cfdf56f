-------------------------------- MODULE Text --------------------------------
(***************************************************************************)
(* Formatted output (lib/print.c) and the four ways it reaches the         *)
(* console: printk and debugk in the kernel (kern/printk.c), debugf and    *)
(* the user's panic through a buffer (user/lib/debugf.c), printf through   *)
(* write (user/lib/fprintf.c).                                             *)
(*                                                                         *)
(* A call is made by one of several environments.  vprintfmt hands its     *)
(* text over in pieces; a piece of the kernel's is followed by no other    *)
(* environment's, while in user space an environment can be preempted      *)
(* between any two system calls.                                           *)
(*                                                                         *)
(* A string is a sequence of one-character strings, the position behind    *)
(* its end holds the NUL.  An int has INT values and a long LONG; an       *)
(* argument is its bit pattern, or a string for %s and %c.                 *)
(***************************************************************************)
EXTENDS Integers, Sequences, SequencesExt, FiniteSetsExt

CONSTANTS
    Printer,              \* the environments that print
    BUF_LEN,              \* debugf's buffer
    KERNEL_BUFFER_SIZE,   \* what sys_print_cons takes, exclusive
    INT, LONG,            \* 2^32 and 2^64 in the code
    Firmware,             \* what a write of the firmware may come to, of
                          \* {"whole", "partial", "beyond"}
    Calls                 \* the calls made: [op, fmt, args, rest]

ASSUME TextAssumption ==
    /\ {BUF_LEN, KERNEL_BUFFER_SIZE, INT, LONG} \subseteq Nat \ {0}
    /\ INT <= LONG
    /\ Firmware \in SUBSET {"whole", "partial", "beyond"} \ {{}}

VARIABLES
    call,        \* [printer -> its call: [op, fmt, args, rest, at, arg, buf, ret, state,
                 \* whole, calls]]; rest holds the [fmt, args] it prints after this one
    screen,      \* the console: [by, text] of every write to it, in order
    shown        \* the directive a printer converted last: [conv, long, width, zero, left, arg, text]

textVars == <<call, screen, shown>>

NoDirective == [conv |-> "none"]

----------------------------------------------------------------------------
(* Characters and numbers *)

Lower == <<"0", "1", "2", "3", "4", "5", "6", "7", "8", "9",
           "a", "b", "c", "d", "e", "f">>
Upper == SubSeq(Lower, 1, 10) \o <<"A", "B", "C", "D", "E", "F">>
Both == ToSet(Lower) \cup ToSet(Upper)
Digit(c) == (CHOOSE i \in 1 .. 16 : Lower[i] = c \/ Upper[i] = c) - 1

\* The character at i, "" for the NUL.
At(s, i) == IF i > Len(s) THEN "" ELSE s[i]

\* parse_number: [value, next] of the digits of the base from i on.
parse_number(s, i, base) ==
    LET stop == Min({k \in i .. i + Len(s) :
                       At(s, k) \notin Both \/ Digit(At(s, k)) >= base})
    IN  [value |-> FoldLeft(LAMBDA n, c : n * base + Digit(c), 0, SubSeq(s, i, stop - 1)),
         next |-> stop]

Signed(v, m) == IF v % m >= m \div 2 THEN (v % m) - m ELSE v % m

\* va_arg, as the cases of vprintfmt fetch it into the long num.
Fetch(v, long) == Signed(v, IF long THEN LONG ELSE INT)

----------------------------------------------------------------------------
(* print_num, print_char and print_str: the pieces they hand over *)

\* The do-while loop: the digits of u, the last one first.
Reversed(u, base, upcase) ==
    LET d[n \in 0 .. u] ==
            << (IF upcase THEN Upper ELSE Lower)[(n % base) + 1] >>
                \o (IF n < base THEN <<>> ELSE d[n \div base])
    IN  d[u]

\* The padding; zeros go between a sign and its number.
Padded(raw, length, neg, padc) ==
    [i \in 1 .. length |->
        IF neg /\ padc = "0"
          THEN IF i < Len(raw) THEN raw[i] ELSE IF i < length THEN padc ELSE "-"
          ELSE IF i <= Len(raw) THEN raw[i] ELSE padc]

print_num(u, base, neg, width, ladjust, padc, upcase) ==
    LET raw == Reversed(u, base, upcase) \o (IF neg THEN <<"-">> ELSE <<>>)
        length == Max({width, Len(raw)})
        buf == Padded(raw, length, neg, IF ladjust THEN " " ELSE padc)
        end == IF ladjust THEN Len(raw) ELSE length
    IN  << [i \in 1 .. length |-> IF i <= end THEN buf[end + 1 - i] ELSE buf[i]] >>

Blanks(n) == IF n <= 0 THEN <<>> ELSE [i \in 1 .. n |-> <<" ">>]

print_str(s, width, ladjust) ==
    IF ladjust THEN <<s>> \o Blanks(width - Len(s)) ELSE Blanks(width - Len(s)) \o <<s>>

print_char(c, width, ladjust) == print_str(<<c>>, width, ladjust)

----------------------------------------------------------------------------
(* One iteration of vprintfmt from position i: the text before the next    *)
(* directive, and the directive there, up to its conversion letter.        *)

Scan(fmt, i) ==
    LET p == Min({k \in i .. Len(fmt) + 1 : At(fmt, k) \in {"%", ""}})
        flag == At(fmt, p + 1)
        w == parse_number(fmt, IF flag \in {"-", "0"} THEN p + 2 ELSE p + 1, 10)
        long == At(fmt, w.next) = "l"
        q == IF long THEN w.next + 1 ELSE w.next
    IN  [text |-> SubSeq(fmt, i, p - 1),
         ends |-> At(fmt, p) = "",
         conv |-> At(fmt, q),
         width |-> w.value, long |-> long, left |-> flag = "-", zero |-> flag = "0",
         \* A NUL after the '%' is met again by the next iteration.
         next |-> IF At(fmt, q) = "" THEN q ELSE q + 1]

Base(conv) == CASE conv = "b" -> 2 [] conv \in {"o", "O"} -> 8
                [] conv \in {"d", "D", "u", "U"} -> 10 [] conv \in {"x", "X"} -> 16
Numeric == {"b", "d", "D", "o", "O", "u", "U", "x", "X"}
Takes(d) == d.conv \in Numeric \cup {"c", "s"}

\* The pieces of directive d with argument v.
Pieces(d, v) ==
    LET padc == IF d.zero THEN "0" ELSE " " IN
    CASE d.conv \in {"d", "D"} ->
            LET num == Fetch(v, d.long)
            IN  print_num((IF num < 0 THEN -num ELSE num) % LONG, 10, num < 0,
                          d.width, d.left, padc, FALSE)
      [] d.conv \in Numeric \ {"d", "D"} ->
            print_num(Fetch(v, d.long) % LONG, Base(d.conv), FALSE,
                      d.width, d.left, padc, d.conv = "X")
      [] d.conv = "c" -> print_char(v[1], d.width, d.left)
      [] d.conv = "s" -> print_str(v, d.width, d.left)
      [] d.conv = "" -> <<>>
      [] OTHER -> << <<d.conv>> >>

Arg(c) == IF c.arg <= Len(c.args) THEN c.args[c.arg] ELSE 0

\* What one iteration hands to the output function of call c.
Given(c) ==
    LET d == Scan(c.fmt, c.at)
    IN  <<d.text>> \o (IF d.ends THEN <<>> ELSE Pieces(d, Arg(c)))

\* The call after it.
Advanced(c) ==
    LET d == Scan(c.fmt, c.at)
    IN  [c EXCEPT !.at = d.next, !.arg = IF ~d.ends /\ Takes(d) THEN @ + 1 ELSE @,
                  !.state = IF d.ends THEN "flush" ELSE @]

Show(c) == LET d == Scan(c.fmt, c.at) IN
    shown' = IF d.ends \/ ~Takes(d) THEN NoDirective
             ELSE [conv |-> d.conv, long |-> d.long, width |-> d.width, zero |-> d.zero,
                   left |-> d.left, arg |-> Arg(c), text |-> FlattenSeq(Pieces(d, Arg(c)))]

\* _user_panic and _user_halt print by three calls of debugf, each with a
\* buffer of its own, before they end the program.
user_panic(c) ==
    IF c.rest = <<>> THEN [c EXCEPT !.buf = <<>>, !.state = "done"]
    ELSE [c EXCEPT !.fmt = Head(c.rest).fmt, !.args = Head(c.rest).args, !.rest = Tail(@),
                   !.at = 1, !.arg = 1, !.buf = <<>>, !.state = "format"]

\* What call c still hands over: the rest of its format, then the others.
RECURSIVE Remaining(_)
Remaining(c) ==
    IF c.state = "format" THEN FlattenSeq(Given(c)) \o Remaining(Advanced(c))
    ELSE IF c.state = "flush" THEN Remaining(user_panic(c))
    ELSE <<>>

\* A call as it starts; whole is the text it has to print.
Begun(c) ==
    LET b == [op |-> c.op, fmt |-> c.fmt, args |-> c.args, rest |-> c.rest, at |-> 1, arg |-> 1,
              buf |-> <<>>, ret |-> 0, state |-> "format", whole |-> <<>>,
              calls |-> 1 + Len(c.rest)]
    IN  [b EXCEPT !.whole = Remaining(b)]

TextInit(calls) ==
    /\ call \in [Printer -> {Begun(c) : c \in calls}]
    /\ screen = <<>>
    /\ shown = NoDirective

----------------------------------------------------------------------------
(* The output functions *)

\* outputk hands the firmware the physical address of the piece's first byte,
\* and drops its answer.  The console then shows all of the piece, or only a
\* beginning, or, when the pages of a piece do not follow one another in
\* memory (a string on the kernel heap), other bytes after its first page.
outputk(p, text) ==
    {[by |-> p, text |-> t] : t \in
        UNION {CASE o = "whole" -> {text}
                 [] o = "partial" -> {SubSeq(text, 1, n) : n \in 0 .. Len(text) - 1}
                 [] o = "beyond" -> {[i \in DOMAIN text |-> IF i <= n THEN text[i] ELSE "?"] :
                                        n \in 1 .. Len(text) - 1} : o \in Firmware}}

\* sys_print_cons refuses a text too long for the kernel's buffer, and writes
\* any other by one call of outputk; the buffer is of one piece.
sys_print_cons_refuses(text) == Len(text) >= KERNEL_BUFFER_SIZE
syscall_print_cons(p, text) ==
    IF sys_print_cons_refuses(text) THEN UNCHANGED screen
    ELSE \E s \in outputk(p, text) : screen' = Append(screen, s)

\* debugf, of a text the system call refused: the program panics and exits.
\* (The panic's own message is left out.)
Refused(c) == [c EXCEPT !.buf = <<>>, !.rest = <<>>, !.state = "panicked"]

\* printk: the kernel is not preempted, all iterations are one step.  (debugk
\* prints its scope by a directive before the others.)
printk(p) ==
    /\ call[p].op = "printk" /\ call[p].state = "format"
    /\ LET end == Len(call[p].fmt) + 1
           run[n \in 0 .. end] ==
               IF n = 0 THEN [c |-> call[p], out |-> <<>>]
               ELSE LET r == run[n - 1] IN
                    IF r.c.state = "flush" THEN r
                    ELSE [c |-> Advanced(r.c), out |-> r.out \o Given(r.c)]
           add(shows, text) == {Append(s, o) : s \in shows, o \in outputk(p, text)}
       IN  /\ screen' \in FoldLeft(add, {screen}, run[end].out)
           /\ call' = [call EXCEPT ![p] = [run[end].c EXCEPT !.state = "done"]]
    /\ UNCHANGED shown

\* A bug: what does not fit is dropped with the flush.
Kept_Drop(text) == <<>>

\* debug_output fills the buffer and flushes it while the text does not fit;
\* a text that fills it exactly is not flushed.
Kept(text) == SubSeq(text, BUF_LEN + 1, Len(text))

\* An iteration of vprintfmt for debugf, up to the next full buffer.
debug_output(p) ==
    /\ call[p].op = "debugf" /\ call[p].state = "format"
    /\ Len(call[p].buf) <= BUF_LEN
    /\ call' = [call EXCEPT ![p] = [Advanced(call[p]) EXCEPT
                    !.buf = @ \o FlattenSeq(Given(call[p]))]]
    /\ Show(call[p])
    /\ UNCHANGED screen

debug_flush(p) ==
    /\ call[p].op = "debugf" /\ call[p].state \in {"format", "flush"}
    /\ \/ /\ Len(call[p].buf) > BUF_LEN
          /\ LET text == SubSeq(call[p].buf, 1, BUF_LEN)
             IN  /\ syscall_print_cons(p, text)
                 /\ call' = [call EXCEPT ![p] = IF sys_print_cons_refuses(text) THEN Refused(@)
                                                ELSE [@ EXCEPT !.buf = Kept(@)]]
       \/ /\ Len(call[p].buf) \in 1 .. BUF_LEN /\ call[p].state = "flush"
          /\ syscall_print_cons(p, call[p].buf)
          /\ call' = [call EXCEPT ![p] = IF sys_print_cons_refuses(call[p].buf) THEN Refused(@)
                                         ELSE user_panic(@)]
       \/ /\ call[p].buf = <<>> /\ call[p].state = "flush"
          /\ call' = [call EXCEPT ![p] = user_panic(@)]
          /\ UNCHANGED screen
    /\ UNCHANGED shown

\* write, to a descriptor of the console; it answers what the call answered.
cons_write(p, text) == ~sys_print_cons_refuses(text) /\ syscall_print_cons(p, text)

\* printf: print_output writes each piece at once; a failed write, of a piece
\* that is refused or to a descriptor that is closed meanwhile, stops the
\* output but not vprintfmt.
\* buf holds the pieces still to hand over.
print_output(p) ==
    /\ call[p].op = "printf" /\ call[p].state \in {"format", "flush"}
    /\ IF call[p].buf = <<>>
         THEN /\ IF call[p].state = "flush"
                   THEN call' = [call EXCEPT ![p].state = "done"] /\ UNCHANGED shown
                   ELSE /\ call' = [call EXCEPT ![p] = [Advanced(call[p]) EXCEPT
                                       !.buf = SelectSeq(Given(call[p]), LAMBDA t : t # <<>>)]]
                        /\ Show(call[p])
              /\ UNCHANGED screen
         ELSE /\ \/ /\ call[p].ret >= 0
                    /\ cons_write(p, Head(call[p].buf))
                    /\ call' = [call EXCEPT ![p].buf = Tail(@),
                                            ![p].ret = @ + Len(Head(call[p].buf))]
                 \/ /\ call' = [call EXCEPT ![p].buf = Tail(@), ![p].ret = -1]
                    /\ UNCHANGED screen
              /\ UNCHANGED shown

TextNext == \E p \in Printer :
    printk(p) \/ debug_output(p) \/ debug_flush(p) \/ print_output(p)

----------------------------------------------------------------------------
(* Properties *)

WrittenBy(p) == FlattenSeq([i \in DOMAIN screen |->
                              IF screen[i].by = p THEN screen[i].text ELSE <<>>])

\* Handed to an output function and not written yet.
Held(c) == IF c.op = "printf" THEN FlattenSeq(c.buf) ELSE c.buf

\* Each printer's text reaches the console completely and in order, however
\* the others' is interleaved with it: what it has written, what its buffer
\* holds and what is still to format are at every moment its whole text,
\* unless a write of printf failed; and then what is on the console is the
\* beginning of the text.  printf returns the number of characters it wrote.
\* A text that fits debugf's buffer appears in one piece.  (Where Firmware =
\* {"whole"}: outputk neither looks at the firmware's answer nor at where the
\* second page of a piece is.)
ConsoleInOrder == \A p \in Printer :
    LET c == call[p] IN
    /\ IsPrefix(WrittenBy(p), c.whole)
    /\ c.ret >= 0 => WrittenBy(p) \o Held(c) \o Remaining(c) = c.whole
    /\ c.op = "printf" /\ c.ret >= 0 => c.ret = Len(WrittenBy(p))
    /\ c.op = "debugf" /\ Len(c.whole) <= BUF_LEN /\ c.calls = 1 =>
          Cardinality({i \in DOMAIN screen : screen[i].by = p}) <= 1

\* The value a directive stands for in C: %d signed, the others unsigned.
Meant == IF shown.conv \in {"d", "D"} THEN Fetch(shown.arg, shown.long)
         ELSE shown.arg % (IF shown.long THEN LONG ELSE INT)

\* The number that was printed: blanks stripped, a sign, digits.
ReadBack(text) ==
    LET t == SelectSeq(text, LAMBDA c : c # " ")
        neg == t[1] = "-"
        n == parse_number(t, IF neg THEN 2 ELSE 1, Base(shown.conv))
    IN  [value |-> IF neg THEN -n.value ELSE n.value, whole |-> n.next = Len(t) + 1]

ReadsBack ==
    shown.conv \in Numeric =>
        /\ ReadBack(shown.text) = [value |-> Meant, whole |-> TRUE]
        /\ Len(shown.text) >= shown.width
        \* Blanks on one side only, and none beyond the width.
        /\ \A i \in DOMAIN shown.text : shown.text[i] = " " =>
              /\ Len(shown.text) = shown.width
              /\ \A j \in (IF shown.left THEN i .. Len(shown.text) ELSE 1 .. i) :
                    shown.text[j] = " "

\* A number is printed so that it reads back as itself, sign, zeros and
\* blanks in their places.  (For %u, %x, %o and %b without l: while the
\* argument is below 2^31.)
NumbersReadBack ==
    (shown.conv \in Numeric \ {"d", "D"} /\ ~shown.long => Fetch(shown.arg, FALSE) >= 0)
        => ReadsBack

\* The same for every argument.
UnsignedReadsBack == ReadsBack

\* What printk, debugf and printf put on the console is what their formats and
\* arguments say: all of the text, in order, and numbers that read back.
TextFaithful == ConsoleInOrder /\ NumbersReadBack
============================================================================
