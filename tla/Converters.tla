----------------------------- MODULE Converters -----------------------------
(***************************************************************************)
(* How the text and the binary answers of the device manager are read:     *)
(* xconvert (libusb/xconvert.hpp) and the find and parse functions of      *)
(* libusb/lib_interface.cpp.  A value is a sequence of items, each a       *)
(* record:                                                                 *)
(*   [id, val]      a reading: of a text, the piece "id:val" between two   *)
(*                  commas (val may be empty), of a binary, id and number  *)
(*   [val]          a number of a binary without ids                       *)
(*   [num]          an integer in front of the numbers, or a text that is  *)
(*                  one integer                                            *)
(*   [ch, lock, n]  a clock chip: its channels, its lock, frequencies sent *)
(*   [chip, regs]   the registers of a UTP chip                            *)
(*   [bad]          a piece of a text that is not two parts with a colon   *)
(*                  between them, and what is left of a cut binary item    *)
(***************************************************************************)
EXTENDS Integers, Sequences, SequencesExt, FiniteSetsExt

CONSTANTS
    MAX_9528_CHIP_SIZE,     \* chips in struct clock_status
    MAX_PWM_CHIP_SIZE,      \* channels in struct pwm_val
    MAX_SERDES_SIZE,        \* links in struct serdes_val
    UTP_REGISTER_NUM        \* registers of a UTP chip

ASSUME SizesAssumption ==
    \A n \in {MAX_9528_CHIP_SIZE, MAX_PWM_CHIP_SIZE, MAX_SERDES_SIZE, UTP_REGISTER_NUM} :
        n \in Nat \ {0}

\* What is left when a piece of text is not there, or is empty.
NoVal == 0 - 1

\* A conversion that gives up.
Failed == <<[bad |-> TRUE]>>

Bad(item)    == "bad" \in DOMAIN item
HasBad(v)    == \E k \in DOMAIN v : Bad(v[k])

\* The items at some places, in their order: what a loop over a vector collects.
Chosen(v, places) ==
    LET h[n \in 0 .. Len(v)] ==
            IF n = 0 THEN <<>>
            ELSE IF n \in places THEN Append(h[n - 1], v[n]) ELSE h[n - 1]
    IN  h[Len(v)]

\* The last of an interval is left out (a plausible mistake).
WithinOpen(v, lo, hi) ==
    Chosen(v, {k \in DOMAIN v : ~Bad(v[k]) /\ v[k].id \in lo .. hi - 1})

\* The readings of an interval; malformed pieces are left out.
Within(v, lo, hi) == Chosen(v, {k \in DOMAIN v : ~Bad(v[k]) /\ v[k].id \in lo .. hi})
Clamp(v, max) == SubSeq(v, 1, IF Len(v) < max THEN Len(v) ELSE max)

\* An array of a struct, and how many entries the struct says it has.
Filled(sz, arry) == [sz |-> sz, arry |-> arry]
Zeroed == Filled(0, <<>>)

-----------------------------------------------------------------------------
(* xconvert.                                                               *)

\* A count, then so many numbers; they are given the ids 1, 2, ...
Numbered(v) == [k \in 1 .. Len(v) - 1 |-> [id |-> k, val |-> v[k + 1].val]]
Counted(v)  == v # <<>> /\ ~HasBad(v) /\ v[1].num = Len(v) - 1

parse_pcbvolt_data(v) == IF Counted(v) THEN Numbered(v) ELSE Failed

\* Items of one size, as many as there are.
parse_comb_temp(v)    == IF v = <<>> \/ HasBad(v) THEN Failed ELSE v
parse_serdes_state(v) == IF v = <<>> \/ HasBad(v) THEN Failed ELSE v

\* The count is only compared with zero.
xconvert_ad9528_lockdata(v) ==
    IF v = <<>> \/ v[1].num = 0 THEN Failed
    ELSE [k \in 1 .. Len(v) - 1 |-> [lock |-> v[k + 1].lock]]

xconvert_ad9545_lockdata(v) ==
    IF v = <<>> \/ v[1].ch = 0 \/ v[1].ch # v[1].n THEN Failed
    ELSE <<[lock |-> v[1].lock]>>

\* The loop increments its index twice, once for the id.
parse_pwm_check(v) ==
    IF ~Counted(v) THEN Failed
    ELSE [j \in 1 .. Len(v) \div 2 |-> Numbered(v)[2 * j - 1]]

parse_utp40_register(v) ==
    IF v = <<>> \/ HasBad(v) \/ \E k \in DOMAIN v : v[k].regs # UTP_REGISTER_NUM
    THEN Failed ELSE v

parse_utp102_register(v) ==
    IF v = <<>> \/ HasBad(v) \/ \E k \in DOMAIN v : v[k].regs # UTP_REGISTER_NUM
    THEN Failed ELSE v

-----------------------------------------------------------------------------
(* One reading: its number, or NoVal.                                      *)

\* The first reading from n on (a plausible mistake).
ReadingFrom(items, n) ==
    LET at == {k \in DOMAIN items : items[k].id >= n}
    IN  IF at = {} THEN NoVal ELSE items[Min(at)].val

Reading(items, n) ==
    LET at == {k \in DOMAIN items : items[k].id = n}
    IN  IF at = {} THEN NoVal ELSE items[Min(at)].val

find_temp_by_serialnum(v, n) ==
    LET items == parse_comb_temp(v) IN IF items = Failed THEN NoVal ELSE Reading(items, n)

find_voltage_by_serialnum(v, n) ==
    LET items == parse_pcbvolt_data(v) IN IF items = Failed THEN NoVal ELSE Reading(items, n)

\* The search of a text ends at the first piece that is malformed.
find_string_by_serialnum(v, n) ==
    LET stop == {k \in DOMAIN v : Bad(v[k]) \/ v[k].id = n}
    IN  IF stop = {} \/ Bad(v[Min(stop)]) THEN NoVal ELSE v[Min(stop)].val

-----------------------------------------------------------------------------
(* The readings whose ids are in an interval.                              *)

\* This search leaves malformed pieces out and goes on.
find_string_from_start_to_end(v, lo, hi) ==
    Within(v, lo, hi)

\* What stof throws at.
Unreadable(v) == \E k \in DOMAIN v : v[k].val = NoVal

\* Every piece of the text that was found is well formed.
str_to_multiple_temp(v)      == Filled(Len(v), v)
str_to_multiple_volatage(v)  == Filled(Len(v), v)

\* The struct is cleared first, and filled without a look at its size.
find_temp_from_start_to_end(v, lo, hi) ==
    LET found == Within(parse_comb_temp(v), lo, hi) IN Filled(Len(found), found)

find_voltage_from_start_to_end(v, lo, hi) ==
    LET found == Within(parse_pcbvolt_data(v), lo, hi) IN Filled(Len(found), found)

find_serdes_from_start_to_end(v, lo, hi) ==
    LET found == Within(parse_serdes_state(v), lo, hi) IN Filled(Len(found), found)

-----------------------------------------------------------------------------
(* Whole structs.  The first three say how many there were, not how many   *)
(* the array has room for; the serdes links are cut down to it.            *)

parse_ad9528_lckdata(v) ==
    LET locks == xconvert_ad9528_lockdata(v)
    IN  Filled(Len(locks), Clamp(locks, MAX_9528_CHIP_SIZE))

parse_ad9545_lckdata(v) == Filled(1, xconvert_ad9545_lockdata(v))

parse_pwm_frequency(v) ==
    LET channels == parse_pwm_check(v)
    IN  Filled(Len(channels), Clamp(channels, MAX_PWM_CHIP_SIZE))

parse_serdes_status(v) ==
    LET links == Clamp(parse_serdes_state(v), MAX_SERDES_SIZE)
    IN  Filled(Len(links), links)

\* One chip exactly; the function ends without a return.
parse_utp_register_info(v) ==
    IF Len(v) # 1 \/ HasBad(v) \/ v[1].regs # UTP_REGISTER_NUM THEN Failed ELSE v

parse_utp102_register_info(v) ==
    IF Len(v) # 1 \/ HasBad(v) \/ v[1].regs # UTP_REGISTER_NUM THEN Failed ELSE v

\* The chips of an interval.
Chips(v, lo, hi) ==
    IF v = Failed THEN <<>> ELSE Chosen(v, {k \in DOMAIN v : v[k].chip \in lo .. hi})

find_utp_register_in_interval(v, lo, hi)    == Chips(parse_utp40_register(v), lo, hi)
find_utp102_register_in_interval(v, lo, hi) == Chips(parse_utp102_register(v), lo, hi)

\* The boards: what is behind a malformed piece is not read, and of two pieces
\* with the same id the later one counts.
get_all_data_from_result(v) ==
    LET bad  == {k \in DOMAIN v : Bad(v[k])}
        good == IF bad = {} THEN v ELSE SubSeq(v, 1, Min(bad) - 1)
    IN  [b \in {good[k].id : k \in DOMAIN good} |->
            good[Max({k \in DOMAIN good : good[k].id = b})].val]

=============================================================================
