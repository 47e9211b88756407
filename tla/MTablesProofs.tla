---------------------------- MODULE MTablesProofs ----------------------------
(***************************************************************************)
(* The lookups of m.c return what 802.11 says, for whatever numbers,       *)
(* frequencies and indexes they are asked.                                 *)
(***************************************************************************)
EXTENDS MTables, TLAPS

\* A field of a table identifies its rows.
Unique(table, key) ==
    \A i, j \in DOMAIN table : table[i][key] = table[j][key] => i = j

\* The loops of m.c return the field of the row that matches, if there is one.
LEMMA SearchFinds ==
    ASSUME NEW table, NEW key, NEW field, NEW i \in DOMAIN table, i \in Int,
           Unique(table, key)
    PROVE  Search(table, key, table[i][key], field) = table[i][field]
<1> DEFINE hits == {k \in DOMAIN table : table[k][key] = table[i][key]}
<1>1. hits = {i}
  BY DEF Unique
<1>2. (CHOOSE k \in hits : \A j \in hits : k <= j) = i
  BY <1>1
<1> QED
  BY <1>1, <1>2 DEF Search

LEMMA SearchFails ==
    ASSUME NEW table, NEW key, NEW value, NEW field,
           \A i \in DOMAIN table : table[i][key] # value
    PROVE  Search(table, key, value, field) = 0
BY DEF Search

-------------------------------------------------------------------------------
(***************************************************************************)
(* The two tables.                                                         *)
(***************************************************************************)
Low   == {f \in Int : 0 < f /\ f <= 5000}
High  == {f \in Int : 5000 < f}
Bands == {mwifiex_channels_2ghz, mwifiex_channels_5ghz}

\* The frequencies and channels of the rows are 802.11's, and the two bands are
\* told apart by the frequency.
LEMMA Rows ==
    /\ \A i \in DOMAIN mwifiex_channels_2ghz :
         /\ mwifiex_channels_2ghz[i][1] = Standard(mwifiex_channels_2ghz[i][2], 0)
         /\ mwifiex_channels_2ghz[i][1] \in Low
         /\ mwifiex_channels_2ghz[i][2] \in 1 .. 132
    /\ \A i \in DOMAIN mwifiex_channels_5ghz :
         /\ mwifiex_channels_5ghz[i][1] = Standard(mwifiex_channels_5ghz[i][2], 1)
         /\ mwifiex_channels_5ghz[i][1] \in High
         /\ mwifiex_channels_5ghz[i][2] \in 1 .. 132
<1>1. \A i \in DOMAIN mwifiex_channels_2ghz :
        /\ mwifiex_channels_2ghz[i][1] = Standard(mwifiex_channels_2ghz[i][2], 0)
        /\ mwifiex_channels_2ghz[i][1] \in Low
        /\ mwifiex_channels_2ghz[i][2] \in 1 .. 132
  BY DEF mwifiex_channels_2ghz, Standard, Low
<1>2. \A i \in DOMAIN mwifiex_channels_5ghz :
        /\ mwifiex_channels_5ghz[i][1] = Standard(mwifiex_channels_5ghz[i][2], 1)
        /\ mwifiex_channels_5ghz[i][1] \in High
        /\ mwifiex_channels_5ghz[i][2] \in 1 .. 132
  BY DEF mwifiex_channels_5ghz, Standard, High
<1> QED
  BY <1>1, <1>2

\* The frequency decides which table is searched.
LEMMA BandOf ==
    /\ \A f \in Low : f # 0 /\ ByFreq(f) = mwifiex_channels_2ghz
    /\ \A f \in High : f # 0 /\ ByFreq(f) = mwifiex_channels_5ghz
BY DEF ByFreq, Low, High

\* No channel and no frequency is twice in a table.
LEMMA RowsUnique ==
    ASSUME NEW table \in Bands
    PROVE  Unique(table, 1) /\ Unique(table, 2) /\ DOMAIN table \subseteq Int
<1>1. Unique(mwifiex_channels_2ghz, 1) /\ Unique(mwifiex_channels_2ghz, 2)
  BY DEF mwifiex_channels_2ghz, Unique
<1>2. Unique(mwifiex_channels_5ghz, 2)
  BY DEF mwifiex_channels_5ghz, Unique
<1>3. Unique(mwifiex_channels_5ghz, 1)
  BY DEF mwifiex_channels_5ghz, Unique
<1>4. DOMAIN table \subseteq Int
  BY DEF Bands, mwifiex_channels_2ghz, mwifiex_channels_5ghz
<1> QED
  BY <1>1, <1>2, <1>3, <1>4 DEF Bands

\* Each row is found by its frequency and by its channel.
LEMMA RowFound ==
    ASSUME NEW table \in Bands, NEW i \in DOMAIN table
    PROVE  /\ Search(table, 1, table[i][1], 2) = table[i][2]
           /\ Search(table, 2, table[i][2], 1) = table[i][1]
<1>1. i \in Int /\ Unique(table, 1) /\ Unique(table, 2)
  BY RowsUnique
<1>2. Search(table, 1, table[i][1], 2) = table[i][2]
  BY <1>1, SearchFinds
<1>3. Search(table, 2, table[i][2], 1) = table[i][1]
  BY <1>1, SearchFinds
<1> QED
  BY <1>2, <1>3

\* A channel is valid in a band when it has a frequency there, the standard's,
\* and that frequency has the channel.
LEMMA ChannelThereAndBack ==
    ASSUME NEW num, NEW band \in {0, 1}
    PROVE  /\ m_hwvalue_to_freq(num, band) \in {0, Standard(num, band)}
           /\ m_hwvalue_to_freq(num, band) # 0 <=> m_chan_valid(num, band) = 1
           /\ m_hwvalue_to_freq(num, band) # 0
                => m_freq_to_hwvalue(m_hwvalue_to_freq(num, band)) = num
<1> DEFINE table == ByBand(band)
<1>1. table \in Bands
  BY DEF ByBand, Bands
<1>2. CASE \A i \in DOMAIN table : table[i][2] # num
  BY <1>2, SearchFails DEF m_hwvalue_to_freq, m_chan_valid
<1>3. ASSUME NEW i \in DOMAIN table, table[i][2] = num
      PROVE  /\ m_hwvalue_to_freq(num, band) = table[i][1]
             /\ m_freq_to_hwvalue(table[i][1]) = num
             /\ table[i][1] = Standard(num, band) /\ table[i][1] # 0
  <2>1. m_hwvalue_to_freq(num, band) = table[i][1]
    BY <1>1, <1>3, RowFound DEF m_hwvalue_to_freq
  <2>2. /\ table[i][1] = Standard(num, band) /\ table[i][1] # 0
        /\ ByFreq(table[i][1]) = table
    <3>1. CASE band = 0
      <4>1. table = mwifiex_channels_2ghz
        BY <3>1 DEF ByBand
      <4> QED
        BY <1>3, <3>1, <4>1, Rows, BandOf
    <3>2. CASE band = 1
      <4>1. table = mwifiex_channels_5ghz
        BY <3>2 DEF ByBand
      <4> QED
        BY <1>3, <3>2, <4>1, Rows, BandOf
    <3> QED
      BY <3>1, <3>2
  <2>3. Search(table, 1, table[i][1], 2) = table[i][2]
    BY <1>1, RowFound
  <2> QED
    BY <1>3, <2>1, <2>2, <2>3 DEF m_freq_to_hwvalue
<1> QED
  BY <1>2, <1>3 DEF m_hwvalue_to_freq, m_chan_valid

\* A frequency is valid when it has a channel, whose frequency in one of the
\* bands it is.
LEMMA FrequencyThereAndBack ==
    ASSUME NEW freq
    PROVE  /\ m_freq_to_hwvalue(freq) # 0 <=> m_freq_valid(freq) = 1
           /\ m_freq_to_hwvalue(freq) # 0
                => \E band \in {0, 1} :
                     m_hwvalue_to_freq(m_freq_to_hwvalue(freq), band) = freq
<1> DEFINE table == ByFreq(freq)
           band  == IF freq > 5000 THEN 1 ELSE 0
<1>1. table \in Bands /\ band \in {0, 1} /\ ByBand(band) = table
  BY DEF ByFreq, ByBand, Bands
<1>2. CASE \A i \in DOMAIN table : table[i][1] # freq
  BY <1>2, SearchFails DEF m_freq_to_hwvalue, m_freq_valid
<1>3. ASSUME NEW i \in DOMAIN table, table[i][1] = freq
      PROVE  m_hwvalue_to_freq(m_freq_to_hwvalue(freq), band) = freq
  <2>1. m_freq_to_hwvalue(freq) = table[i][2]
    BY <1>1, <1>3, RowFound DEF m_freq_to_hwvalue
  <2>2. Search(table, 2, table[i][2], 1) = table[i][1]
    BY <1>1, RowFound
  <2> QED
    BY <1>1, <1>3, <2>1, <2>2 DEF m_hwvalue_to_freq
<1> QED
  BY <1>1, <1>2, <1>3 DEF m_freq_to_hwvalue, m_freq_valid

\* The data rate of an HT index is 802.11n's.
LEMMA HtRate ==
    ASSUME NEW index \in 0 .. 7 \cup {32}, NEW ht_info, Bit(ht_info, 0)
    PROVE  LET wide == Bit(ht_info, 1)  short == Bit(ht_info, 2)
           IN  mwifiex_index_to_data_rate(index, ht_info) =
                 IF short THEN (5 * DataBits(index, wide)) \div 9
                          ELSE DataBits(index, wide) \div 2
BY DEF mwifiex_index_to_data_rate, mcs_rate, HtRow, DataBits, Carried

\* Only without the HT bit, and with an index from the number of the table's
\* entries up to its size in bytes, is something read that is not in a table.
LEMMA ReadsBeyond ==
    ASSUME NEW index \in 0 .. 255, NEW ht_info,
           mwifiex_index_to_data_rate(index, ht_info) = Beyond
    PROVE  ~Bit(ht_info, 0) /\ index \in 32 .. 63
<1>1. Len(mwifiex_data_rates) = 32
  BY DEF mwifiex_data_rates
<1>2. \A i \in 1 .. 32 : mwifiex_data_rates[i] # Beyond
  BY DEF mwifiex_data_rates, Beyond
<1>3. ~Bit(ht_info, 0)
  <2>1. \A i \in 1 .. 4, j \in 1 .. 8 : mcs_rate[i][j] # Beyond
    BY DEF mcs_rate, Beyond
  <2> QED
    BY <1>2, <2>1 DEF mwifiex_index_to_data_rate, HtRow, Beyond
<1> QED
  BY <1>1, <1>2, <1>3 DEF mwifiex_index_to_data_rate, LegacyRate

-------------------------------------------------------------------------------
(***************************************************************************)
(* Every call.                                                             *)
(***************************************************************************)
\* What has been returned is what the function called returns.
Answered ==
    /\ call.what = "hwvalue_to_freq" =>
         call.sel \in {0, 1} /\ result = m_hwvalue_to_freq(call.arg, call.sel)
    /\ call.what = "freq_to_hwvalue" => result = m_freq_to_hwvalue(call.arg)
    /\ call.what = "rate" =>
         /\ call.arg \in 0 .. 255
         /\ result = mwifiex_index_to_data_rate(call.arg, call.sel)

LEMMA AlwaysAnswered == Spec => []Answered
<1>1. Init => Answered
  BY DEF Init, NoCall, Answered
<1>2. Answered /\ [Next]_<<call, result>> => Answered'
  <2> SUFFICES ASSUME Answered, [Next]_<<call, result>> PROVE Answered'
    OBVIOUS
  <2>1. CASE AskChannel
    BY <2>1 DEF AskChannel, CallsTo, Calls, Answered
  <2>2. CASE AskFrequency
    BY <2>2 DEF AskFrequency, CallsTo, Calls, Answered
  <2>3. CASE AskRate
    BY <2>3, ArgumentsAssumption DEF AskRate, CallsTo, Calls, Answered
  <2>4. CASE Return
    BY <2>4 DEF Return, NoCall, Answered
  <2>5. CASE UNCHANGED <<call, result>>
    BY <2>5 DEF Answered
  <2> QED
    BY <2>1, <2>2, <2>3, <2>4, <2>5 DEF Next
<1> QED
  BY <1>1, <1>2, PTL DEF Spec

\* m_chan_valid, m_freq_valid, m_hwvalue_to_freq and m_freq_to_hwvalue agree with
\* one another and with the channels of 802.11, whatever numbers and frequencies
\* they are asked for: the tables hold nothing twice, and the cut at 5000 MHz
\* sends every frequency to the table that has it.
THEOREM ChannelsCorrect == Spec => []ChannelsAgree
<1>1. Answered => ChannelsAgree
  BY ChannelThereAndBack, FrequencyThereAndBack DEF Answered, ChannelsAgree
<1> QED
  BY <1>1, AlwaysAnswered, PTL

\* mwifiex_index_to_data_rate returns 802.11n's rate for every HT index below 8
\* and for MCS 32: bandwidth and guard interval choose the right row.
THEOREM HtRateCorrect == Spec => []HtRateStandard
<1>1. Answered => HtRateStandard
  BY HtRate DEF Answered, HtRateStandard
<1> QED
  BY <1>1, AlwaysAnswered, PTL

\* mwifiex_index_to_data_rate reads behind its table only for a legacy index of
\* 32 to 63, where it compares the index with a size in bytes.
THEOREM BeyondCorrect ==
    Spec => [](call.what = "rate" /\ result = Beyond
                 => ~Bit(call.sel, 0) /\ call.arg \in 32 .. 63)
<1>1. Answered => (call.what = "rate" /\ result = Beyond
                     => ~Bit(call.sel, 0) /\ call.arg \in 32 .. 63)
  BY ReadsBeyond DEF Answered
<1> QED
  BY <1>1, AlwaysAnswered, PTL
==============================================================================
