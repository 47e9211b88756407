-------------------------------- MODULE MTables --------------------------------
(***************************************************************************)
(* The lookups of src/src/kplugin/m.c: channel numbers, frequencies and    *)
(* data rates.  They are functions; a run calls each of them with every    *)
(* argument and compares the result with what 802.11 says.                 *)
(***************************************************************************)
EXTENDS Integers, Sequences

CONSTANTS Nums, Freqs,    \* the channel numbers and frequencies asked for
          Indexes         \* rate indexes; the parameter is a uint8_t

ASSUME ArgumentsAssumption ==
    Nums \subseteq Nat /\ Freqs \subseteq Nat /\ Indexes \subseteq 0 .. 255

VARIABLES call, result    \* the last call, and what it returned

-------------------------------------------------------------------------------
\* <<center_freq, hw_value>>, in the order of the source.
mwifiex_channels_2ghz == <<
    <<2412, 1>>, <<2417, 2>>, <<2422, 3>>, <<2427, 4>>, <<2432, 5>>, <<2437, 6>>,
    <<2442, 7>>, <<2447, 8>>, <<2452, 9>>, <<2457, 10>>, <<2462, 11>>,
    <<2467, 12>>, <<2472, 13>>, <<2484, 14>> >>

mwifiex_channels_5ghz == <<
    <<5040, 8>>, <<5060, 12>>, <<5080, 16>>, <<5170, 34>>, <<5190, 38>>,
    <<5210, 42>>, <<5230, 46>>, <<5180, 36>>, <<5200, 40>>, <<5220, 44>>,
    <<5240, 48>>, <<5260, 52>>, <<5280, 56>>, <<5300, 60>>, <<5320, 64>>,
    <<5500, 100>>, <<5520, 104>>, <<5540, 108>>, <<5560, 112>>, <<5580, 116>>,
    <<5600, 120>>, <<5620, 124>>, <<5640, 128>>, <<5660, 132>> >>

\* Rates are in units of 500 kb/s.
mwifiex_data_rates == <<
    2, 4, 11, 22, 0, 12, 18, 24, 36, 48, 72, 96, 108, 144,
    13, 26, 39, 52, 78, 104, 117, 130,
    12, 27, 54, 81, 108, 162, 216, 243, 270, 0 >>

\* The first eight columns: no index reaches the others.
mcs_rate == <<
    <<27, 54, 81, 108, 162, 216, 243, 270>>,     \* LGI 40M
    <<30, 60, 90, 120, 180, 240, 270, 300>>,     \* SGI 40M
    <<13, 26, 39, 52, 78, 104, 117, 130>>,       \* LGI 20M
    <<14, 28, 43, 57, 86, 115, 130, 144>> >>     \* SGI 20M

\* What the loops do: the field of the first row whose key matches, or 0.
Search(table, key, value, field) ==
    LET hits == {i \in DOMAIN table : table[i][key] = value}
    IN  IF hits = {} THEN 0
        ELSE table[CHOOSE i \in hits : \A j \in hits : i <= j][field]

ByBand(band) == IF band # 0 THEN mwifiex_channels_5ghz ELSE mwifiex_channels_2ghz

ByFreq_TooHigh(freq) ==               \* slip: the first channels cut off
    IF freq >= 5060 THEN mwifiex_channels_5ghz ELSE mwifiex_channels_2ghz
ByFreq(freq) ==
    IF freq > 5000 THEN mwifiex_channels_5ghz ELSE mwifiex_channels_2ghz

m_chan_valid(num, band)      == IF Search(ByBand(band), 2, num, 1) # 0 THEN 1 ELSE 0
m_freq_valid(freq)           == IF Search(ByFreq(freq), 1, freq, 2) # 0 THEN 1 ELSE 0
m_hwvalue_to_freq(num, band) == Search(ByBand(band), 2, num, 1)
m_freq_to_hwvalue(freq)      == Search(ByFreq(freq), 1, freq, 2)

Bit(ht_info, n) == (ht_info \div 2^n) % 2 = 1

\* The row of mcs_rate.
HtRow_Swapped(wide, short) ==         \* slip: the bits the other way round
    IF short THEN (IF wide THEN 2 ELSE 1) ELSE (IF wide THEN 4 ELSE 3)
HtRow(wide, short) ==
    IF wide THEN (IF short THEN 2 ELSE 1) ELSE (IF short THEN 4 ELSE 3)

\* Whatever is in memory behind the table.
Beyond == -1

\* sizeof(mwifiex_data_rates) is the size in bytes, of entries of two.
LegacyRate(index) ==
    LET i == IF index >= 2 * Len(mwifiex_data_rates) THEN 0 ELSE index
    IN  IF i < Len(mwifiex_data_rates) THEN mwifiex_data_rates[i + 1] ELSE Beyond

mwifiex_index_to_data_rate(index, ht_info) ==
    IF ~Bit(ht_info, 0)  THEN LegacyRate(index)
    ELSE IF index = 32   THEN IF Bit(ht_info, 2) THEN 13 ELSE 12
    ELSE IF index < 8    THEN mcs_rate[HtRow(Bit(ht_info, 1), Bit(ht_info, 2))][index + 1]
    ELSE mwifiex_data_rates[1]

-------------------------------------------------------------------------------
NoCall == [what |-> "none", arg |-> 0, sel |-> 0]
Init   == call = NoCall /\ result = 0

Calls(what, args, sels) == [what : {what}, arg : args, sel : sels]

CallsTo(what, args, sels, F(_, _)) ==
    /\ call = NoCall
    /\ call' \in Calls(what, args, sels)
    /\ result' = F(call'.arg, call'.sel)

AskChannel ==
    \/ CallsTo("chan_valid", Nums, {0, 1}, m_chan_valid)
    \/ CallsTo("hwvalue_to_freq", Nums, {0, 1}, m_hwvalue_to_freq)

AskFrequency ==
    \/ CallsTo("freq_valid", Freqs, {0}, LAMBDA f, s : m_freq_valid(f))
    \/ CallsTo("freq_to_hwvalue", Freqs, {0}, LAMBDA f, s : m_freq_to_hwvalue(f))

AskRate == CallsTo("rate", Indexes, 0 .. 7, mwifiex_index_to_data_rate)

Return == call # NoCall /\ call' = NoCall /\ result' = 0

Next == AskChannel \/ AskFrequency \/ AskRate \/ Return

Spec == Init /\ [][Next]_<<call, result>>
-------------------------------------------------------------------------------
\* 802.11: channel n is n times 5 MHz above the base of its band, 14 is apart.
Standard(num, band) ==
    IF band # 0 THEN 5000 + 5 * num ELSE IF num = 14 THEN 2484 ELSE 2407 + 5 * num

\* The four channel lookups agree with 802.11 and with each other: what is valid
\* has a frequency, the standard's, and the way back finds the channel again, in
\* one band or the other; what is not valid has none.  (Channels 8 and 12 are in
\* both bands.)
ChannelsAgree ==
    LET n == call.arg
    IN  /\ call.what = "hwvalue_to_freq" =>
             /\ result \in {0, Standard(n, call.sel)}
             /\ result # 0 <=> m_chan_valid(n, call.sel) = 1
             /\ result # 0 => m_freq_to_hwvalue(result) = n
        /\ call.what = "freq_to_hwvalue" =>
             /\ result # 0 <=> m_freq_valid(n) = 1
             /\ result # 0 => \E band \in {0, 1} : m_hwvalue_to_freq(result, band) = n

\* 802.11n: data bits per symbol, every 4 us or, with a short guard interval,
\* every 3.6 us.  Twice the bits per carrier, on 52 or 108 carriers; MCS 32 has
\* 24 bits.
Carried == <<1, 2, 3, 4, 6, 8, 9, 10>>
DataBits(index, wide) ==
    IF index = 32 THEN 24 ELSE Carried[index + 1] * (IF wide THEN 54 ELSE 26)

\* An HT rate is that of 802.11n for its MCS, bandwidth and guard interval,
\* rounded down: the bits of ht_info choose the right row.
HtRateStandard ==
    LET wide == Bit(call.sel, 1)  short == Bit(call.sel, 2)
    IN  call.what = "rate" /\ Bit(call.sel, 0) /\ call.arg \in 0 .. 7 \cup {32} =>
          result = IF short THEN (5 * DataBits(call.arg, wide)) \div 9
                            ELSE DataBits(call.arg, wide) \div 2

\* "maps an index in supported rates table into the corresponding data rate",
\* and any other to that of index 0 (doc/mwifiex/cfp.c:247-248, 285-286): nothing
\* else is ever returned.
RateFromTable == result # Beyond
===============================================================================
