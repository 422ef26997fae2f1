----------------------------- MODULE Arguments -----------------------------
(***************************************************************************)
(* The programs that look at their arguments: c/basics/4_11_1 (seven       *)
(* questions, one function after the other), 4_12 (a pattern in strings)   *)
(* and 4_14 (spaces removed in place), and c/networks/6_05 (the networks   *)
(* an address is in).  Each action is one function of main(), or all of    *)
(* it in 6_05.  An argument is the sequence of its characters before the   *)
(* '\0'; in 6_05 a character is its code minus that of '0'.                *)
(***************************************************************************)
EXTENDS Integers, FiniteSets, SequencesExt

CONSTANTS Arguments41, Arguments42, Arguments44, Arguments65
    (* what 4_11_1, 4_12, 4_14 and 6_05 may be called with: sets of         *)
    (* sequences of arguments                                               *)

VARIABLES
  which,       (* the program                                              *)
  argv,        (* its arguments, from argv[1] on                           *)
  stage,       (* the functions that have returned                         *)
  answers      (* what each has printed                                    *)

argVars == <<which, argv, stage, answers>>

NUL == "NUL"
At(str, i) == IF i < Len(str) THEN str[i + 1] ELSE NUL    (* str[i]         *)
Letters == {"a", "m", "M", "Z"}
Edges == {"a", "z", "A", "Z"}
DigitChars == {"5", "7"}

Init ==
  /\ \/ which = "4_11_1" /\ argv \in Arguments41
     \/ which = "4_12" /\ argv \in Arguments42
     \/ which = "4_14" /\ argv \in Arguments44
     \/ which = "6_05" /\ argv \in Arguments65
  /\ stage = 0 /\ answers = <<>>

Answer(n, answer) ==
  /\ stage = n /\ stage' = n + 1
  /\ answers' = Append(answers, answer)
  /\ UNCHANGED <<which, argv>>
Crash == stage = 0 /\ stage' = -1 /\ UNCHANGED <<which, argv, answers>>
Chosen(Test(_)) == SelectSeq(argv, Test)

-----------------------------------------------------------------------------
(* 4_11_1 a): the index of the first longest argument.  When all are empty  *)
(* it is never set: any argument may be printed, or the program crash.      *)
Longer(best, i) == IF Len(argv[i]) > Len(argv[best]) THEN i ELSE best
max_index == FoldLeft(Longer, 1, [i \in DOMAIN argv |-> i])
print_longest ==
  /\ which = "4_11_1"
  /\ IF argv[max_index] # <<>> THEN Answer(0, <<argv[max_index]>>)
     ELSE Answer(0, <<>>) \/ Crash

find_duplicates(str) ==
  \A i \in 0 .. Len(str) - 1 : \A j \in 1 .. Len(str) - 1 - i : At(str, i) # At(str, i + j)
print_no_duplicates == which = "4_11_1" /\ Answer(1, Chosen(find_duplicates))

check_dots(str) == "." \in ToSet(str)
check_one_atsign(str) ==
  FoldLeft(LAMBDA flag, c : IF flag > 1 THEN flag ELSE IF c = "@" THEN flag + 1 ELSE flag,
           0, str) = 1
print_c ==
  which = "4_11_1" /\ Answer(2, Chosen(LAMBDA s : check_dots(s) /\ check_one_atsign(s)))

check_only_digits(str) == \A i \in DOMAIN str : str[i] \in DigitChars
print_only_digits == which = "4_11_1" /\ Answer(3, Chosen(check_only_digits))

check_only_one_symbol(str) == \A i \in DOMAIN str : str[i] = At(str, 0)
print_only_one_symbol == which = "4_11_1" /\ Answer(4, Chosen(check_only_one_symbol))

(* Both comparisons with the ends of the alphabet are strict.               *)
is_latin(c) == c \in Letters \ Edges
check_latin(str) == \E i \in DOMAIN str : is_latin(str[i])
print_at_least_one_latin == which = "4_11_1" /\ Answer(5, Chosen(check_latin))

check_common_char(sample, compared) ==
  \E i \in DOMAIN sample, j \in DOMAIN compared : sample[i] = compared[j]
print_common_char_with_first ==
  which = "4_11_1"
  /\ Answer(6, SelectSeq(Tail(argv), LAMBDA s : check_common_char(argv[1], s)))

-----------------------------------------------------------------------------
(* 4_12: where the pattern stands first from a position on, -1 for NULL.    *)
(* The pattern is the first argument.                                       *)
Agree(str, at, pat) ==
  Min({n \in 0 .. Len(str) - at : at + n = Len(str) \/ At(str, at + n) # At(pat, n)})
Ends(str, at, pat) == At(pat, Agree(str, at, pat)) = NUL
check_pattern(str, from, pat) ==
  Min({i \in from .. Len(str) - 1 : Ends(str, i, pat)} \cup {Len(str)})
count_occurences(str, pat) ==
  LET next[from \in 0 .. Len(str)] ==
        LET i == check_pattern(str, from, pat)
        IN  IF i = Len(str) THEN 0 ELSE 1 + next[i + 1]
  IN  next[0]
print_strings_with_pattern ==
  /\ which = "4_12"
  /\ Answer(0, SelectSeq(Tail(argv), LAMBDA s : check_pattern(s, 0, argv[1]) # Len(s)))
print_strings_with_pattern_and_count ==
  /\ which = "4_12"
  /\ LET counts == [i \in 1 .. Len(argv) - 1 |-> <<argv[i + 1], count_occurences(argv[i + 1], argv[1])>>]
     IN  Answer(1, SelectSeq(counts, LAMBDA p : p[2] # 0))

(* 4_14: src runs over the argument, dest stays behind where a space was.   *)
Move(a, src) ==
  IF At(argv[1], src) = " " THEN a
  ELSE [str |-> [a.str EXCEPT ![a.dest] = At(argv[1], src)], dest |-> a.dest + 1]
remove_spaces_from_string ==
  /\ which = "4_14"
  /\ LET cells == [i \in 0 .. Len(argv[1]) |-> At(argv[1], i)]
         moved == FoldLeft(Move, [str |-> cells, dest |-> 0],
                           [i \in 1 .. Len(argv[1]) + 1 |-> i - 1]).str
         end == Min({i \in DOMAIN moved : moved[i] = NUL})
     IN  Answer(0, [i \in 1 .. end |-> moved[i - 1]])

(* 6_05: the next number of an address; a character that is no digit counts *)
(* as its code does.  "rest" is what is left, "valid" that nothing was too  *)
(* long or too large.                                                       *)
Dot == -2
get_num_from_ip(a) ==
  LET src == IF a.rest # <<>> /\ Head(a.rest) = Dot THEN Tail(a.rest) ELSE a.rest
      i == Min({4, Len(src)} \cup {k \in 0 .. Len(src) - 1 : src[k + 1] = Dot})
      number == FoldLeft(LAMBDA n, c : 10 * n + c, 0, SubSeq(src, 1, i))
  IN  [rest |-> SubSeq(src, i + 1, Len(src)), nums |-> Append(a.nums, number % 256),
       valid |-> a.valid /\ i < 4 /\ number <= 255]
Octets(str, n) ==
  FoldLeft(LAMBDA a, i : get_num_from_ip(a), [rest |-> str, nums |-> <<>>, valid |-> TRUE],
           [i \in 1 .. n |-> i])
(* Every turn of the loop takes at least one character.                     *)
check_ip_is_valid(str) ==
  /\ Cardinality({i \in DOMAIN str : str[i] = Dot}) = 3
  /\ Octets(str, Len(str)).valid

(* One more bit of the mask goes; it is full again when it has none left.   *)
And(byte, mask) == byte - (byte % (256 - mask))
Shift(mask) == (2 * mask) % 256
NextSubnet(a, i) ==
  LET mask == Shift(a.mask)
      n == 4 - (i - 1) \div 8
      ip == [a.ip EXCEPT ![n] = IF @ # 0 THEN And(@, mask) ELSE @]
  IN  [ip |-> ip, mask |-> IF mask = 0 THEN 255 ELSE mask,
       printed |-> Append(a.printed, <<ip, 32 - i>>)]
print_subnets(ip) ==
  FoldLeft(NextSubnet, [ip |-> ip, mask |-> 255, printed |-> <<<<ip, 32>>>>],
           [i \in 1 .. 32 |-> i]).printed
print_networks ==
  /\ which = "6_05"
  /\ Answer(0, IF check_ip_is_valid(argv[1]) THEN print_subnets(Octets(argv[1], 4).nums)
               ELSE <<"Invalid ip address">>)

Next ==
  \/ print_longest \/ print_no_duplicates \/ print_c \/ print_only_digits
  \/ print_only_one_symbol \/ print_at_least_one_latin \/ print_common_char_with_first
  \/ print_strings_with_pattern \/ print_strings_with_pattern_and_count
  \/ remove_spaces_from_string \/ print_networks

Spec == Init /\ [][Next]_argVars

-----------------------------------------------------------------------------
Occurrences(str, pat) ==
  Cardinality({i \in 1 .. Len(str) : i + Len(pat) - 1 <= Len(str) /\ SubSeq(str, i, i + Len(pat) - 1) = pat})
How(str, c) == Cardinality({i \in DOMAIN str : str[i] = c})
Expected(n) ==
  CASE n = 1 -> Chosen(LAMBDA s : Cardinality(ToSet(s)) = Len(s))
    [] n = 2 -> Chosen(LAMBDA s : How(s, ".") > 0 /\ How(s, "@") = 1)
    [] n = 3 -> Chosen(LAMBDA s : ToSet(s) \subseteq DigitChars)
    [] n = 4 -> Chosen(LAMBDA s : Cardinality(ToSet(s)) <= 1)
    [] n = 5 -> Chosen(LAMBDA s : ToSet(s) \cap (Letters \ Edges) # {})
    [] n = 6 -> SelectSeq(Tail(argv), LAMBDA s : ToSet(s) \cap ToSet(argv[1]) # {})

(* The networks of an address, the largest prefix first: of each number the *)
(* bits that the prefix leaves.                                             *)
Parts(str) ==
  LET cuts == {0, Len(str) + 1} \cup {i \in DOMAIN str : str[i] = Dot}
      cut(k) == CHOOSE c \in cuts : Cardinality({d \in cuts : d < c}) = k
  IN  [k \in 1 .. Cardinality(cuts) - 1 |-> SubSeq(str, cut(k - 1) + 1, cut(k) - 1)]
Value(digits) ==
  FoldLeft(LAMBDA n, k : n + digits[k] * 10 ^ (Len(digits) - k), 0,
           [k \in DOMAIN digits |-> k])
Prefix(byte, bits) == (byte \div 2 ^ (8 - bits)) * 2 ^ (8 - bits)
Networks(nums) ==
  [k \in 1 .. 33 |->
    <<[n \in 1 .. 4 |-> Prefix(nums[n], Max({0, Min({8, 33 - k - 8 * (n - 1)})}))], 33 - k>>]
Kept(parts) == IF parts[1] = <<>> THEN Append(Tail(parts), <<>>) ELSE parts

(* Every question of 4_11_1 is answered with the arguments it is true of,   *)
(* in their order, and the first with the first longest one (a, z, A and Z  *)
(* are no letters to it, and the empty argument has only digits and only    *)
(* one symbol); 4_12 counts every position of the pattern, overlapping ones *)
(* too, and finds an empty pattern in every string but the empty one; 4_14  *)
(* keeps what is not a space.  6_05 prints the 33 networks of an address of *)
(* four numbers up to 255 and refuses any other, but does not notice        *)
(* numbers that are missing: they are 0, the first is made up for by the    *)
(* second.                                                                  *)
ArgumentsAsAsked ==
  CASE which = "4_11_1" ->
         \A n \in 1 .. stage :
           IF n > 1 THEN answers[n] = Expected(n - 1)
           ELSE \E k \in DOMAIN argv :
             /\ answers[1] = <<argv[k]>> \/ (answers[1] = <<>> /\ argv[k] = <<>>)
             /\ \A i \in DOMAIN argv : Len(argv[i]) <= Len(argv[k])
             /\ \A i \in 1 .. k - 1 : Len(argv[i]) < Len(argv[k])
    [] which = "4_12" ->
         LET has == SelectSeq(Tail(argv), LAMBDA s : Occurrences(s, argv[1]) > 0) IN
           /\ stage > 0 => answers[1] = has
           /\ stage > 1 => answers[2] = [i \in DOMAIN has |-> <<has[i], Occurrences(has[i], argv[1])>>]
    [] which = "4_14" -> stage > 0 => answers[1] = SelectSeq(argv[1], LAMBDA c : c # " ")
    [] which = "6_05" ->
         LET parts == Parts(argv[1])
             valid == /\ Len(parts) = 4
                      /\ \A n \in 1 .. 4 : Len(parts[n]) <= 3 /\ Value(parts[n]) <= 255
         IN  stage > 0 =>
               answers[1] = IF valid
                            THEN Networks([n \in 1 .. 4 |-> Value(Kept(parts)[n]) % 256])
                            ELSE <<"Invalid ip address">>
    [] OTHER -> TRUE
=============================================================================
