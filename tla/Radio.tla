------------------------------- MODULE Radio -------------------------------
(***************************************************************************)
(* Channel numbers and frequencies of GSM, LTE and NR                      *)
(* (packages/core/src/radio).  Pure functions: a band is a record of its   *)
(* two frequency ranges, its channel range and its channel spacing; all    *)
(* frequencies are integers in kHz, as in the code.                        *)
(*                                                                         *)
(* A call that throws returns Thrown, an absent optional field is          *)
(* undefined.  channelBandwidth, which is handed through, is left out.     *)
(***************************************************************************)
EXTENDS Integers, Sequences, SequencesExt

CONSTANTS undefined,   \* JavaScript's undefined
          Thrown       \* the call ended in an exception

-----------------------------------------------------------------------------
(* The bands, in the order of the enums, which is the order of the tables. *)

RadioTechnology == {"GSM", "LTE", "NR"}
GSMBand == <<"GSM850", "GSM900", "EGSM900", "DCS1800", "PCS1900">>
LTEBand == <<"B1", "B2", "B3", "B4", "B5", "B7", "B8", "B12", "B13", "B17", 
                      "B18", "B19", "B20", "B21", "B25", "B26", "B28", "B32", "B34", 
                      "B38", "B39", "B40", "B41", "B42", "B43", "B46", "B48">>
NRBand  == <<"N1", "N2", "N3", "N5", "N7", "N8", "N12", "N20", "N25", "N28", 
                      "N38", "N40", "N41", "N48", "N66", "N71", "N77", "N78", "N79", 
                      "N257", "N258", "N260", "N261">>

BandConfig(upStart, upEnd, downStart, downEnd, arfcnStart, arfcnEnd, spacing) ==
  [uplinkStart |-> upStart, uplinkEnd |-> upEnd,
   downlinkStart |-> downStart, downlinkEnd |-> downEnd,
   arfcnStart |-> arfcnStart, arfcnEnd |-> arfcnEnd, spacing |-> spacing]

GSM_BANDS == [
  GSM850  |-> BandConfig(824200, 848800, 869200, 893800, 128, 251, 200),
  GSM900  |-> BandConfig(890000, 915000, 935000, 960000, 0, 124, 200),
  EGSM900 |-> BandConfig(880200, 890000, 925200, 935000, 975, 1023, 200),
  DCS1800 |-> BandConfig(1710200, 1784800, 1805200, 1879800, 512, 885, 200),
  PCS1900 |-> BandConfig(1850200, 1909800, 1930200, 1989800, 512, 810, 200) ]

LTE_PAIRED == [
  B1      |-> BandConfig(1920000, 1980000, 2110000, 2170000, 0, 599, 100),
  B2      |-> BandConfig(1850000, 1910000, 1930000, 1990000, 600, 1199, 100),
  B3      |-> BandConfig(1710000, 1785000, 1805000, 1880000, 1200, 1949, 100),
  B4      |-> BandConfig(1710000, 1755000, 2110000, 2155000, 1950, 2399, 100),
  B5      |-> BandConfig(824000, 849000, 869000, 894000, 2400, 2649, 100),
  B7      |-> BandConfig(2500000, 2570000, 2620000, 2690000, 2750, 3449, 100),
  B8      |-> BandConfig(880000, 915000, 925000, 960000, 3450, 3799, 100),
  B12     |-> BandConfig(699000, 716000, 729000, 746000, 5010, 5179, 100),
  B13     |-> BandConfig(777000, 787000, 746000, 756000, 5180, 5279, 100),
  B17     |-> BandConfig(704000, 716000, 734000, 746000, 5730, 5849, 100),
  B18     |-> BandConfig(815000, 830000, 860000, 875000, 5850, 5999, 100),
  B19     |-> BandConfig(830000, 845000, 875000, 890000, 6000, 6149, 100),
  B20     |-> BandConfig(832000, 862000, 791000, 821000, 6150, 6449, 100),
  B21     |-> BandConfig(1447900, 1462900, 1495900, 1510900, 6450, 6599, 100),
  B25     |-> BandConfig(1850000, 1915000, 1930000, 1995000, 8040, 8689, 100),
  B26     |-> BandConfig(814000, 849000, 859000, 894000, 8690, 9039, 100),
  B28     |-> BandConfig(703000, 748000, 758000, 803000, 9210, 9659, 100) ]

LTE_UNPAIRED == [
  B32     |-> BandConfig(1452000, 1496000, 1452000, 1496000, 9770, 10359, 100),
  B34     |-> BandConfig(2010000, 2025000, 2010000, 2025000, 36200, 36349, 100),
  B38     |-> BandConfig(2570000, 2620000, 2570000, 2620000, 37750, 38249, 100),
  B39     |-> BandConfig(1880000, 1920000, 1880000, 1920000, 38250, 38649, 100),
  B40     |-> BandConfig(2300000, 2400000, 2300000, 2400000, 38650, 39649, 100),
  B41     |-> BandConfig(2496000, 2690000, 2496000, 2690000, 39650, 41589, 100),
  B42     |-> BandConfig(3400000, 3600000, 3400000, 3600000, 41590, 43589, 100),
  B43     |-> BandConfig(3600000, 3800000, 3600000, 3800000, 43590, 45589, 100),
  B46     |-> BandConfig(5150000, 5925000, 5150000, 5925000, 46590, 54339, 100),
  B48     |-> BandConfig(3550000, 3700000, 3550000, 3700000, 55240, 56739, 100) ]

LTE_BANDS == LTE_PAIRED @@ LTE_UNPAIRED

NR_LOWER == [
  N1      |-> BandConfig(1920000, 1980000, 2110000, 2170000, 422000, 434000, 15),
  N2      |-> BandConfig(1850000, 1910000, 1930000, 1990000, 370000, 382000, 15),
  N3      |-> BandConfig(1710000, 1785000, 1805000, 1880000, 361000, 366000, 15),
  N5      |-> BandConfig(824000, 849000, 869000, 894000, 164800, 169800, 15),
  N7      |-> BandConfig(2500000, 2570000, 2620000, 2690000, 524000, 538000, 15),
  N8      |-> BandConfig(880000, 915000, 925000, 960000, 176000, 183000, 15),
  N12     |-> BandConfig(699000, 716000, 729000, 746000, 139800, 143200, 15),
  N20     |-> BandConfig(832000, 862000, 791000, 821000, 158200, 164200, 15),
  N25     |-> BandConfig(1850000, 1915000, 1930000, 1995000, 370000, 383000, 15),
  N28     |-> BandConfig(703000, 748000, 758000, 803000, 140600, 149600, 15),
  N38     |-> BandConfig(2570000, 2620000, 2570000, 2620000, 524000, 527333, 15),
  N40     |-> BandConfig(2300000, 2400000, 2300000, 2400000, 460000, 480000, 15),
  N41     |-> BandConfig(2496000, 2690000, 2496000, 2690000, 499200, 537999, 15) ]

NR_UPPER == [
  N48     |-> BandConfig(3550000, 3700000, 3550000, 3700000, 636667, 646666, 15),
  N66     |-> BandConfig(1710000, 1780000, 2110000, 2200000, 342000, 356000, 15),
  N71     |-> BandConfig(663000, 698000, 617000, 652000, 123400, 130400, 15),
  N77     |-> BandConfig(3300000, 4200000, 3300000, 4200000, 653334, 680000, 15),
  N78     |-> BandConfig(3300000, 3800000, 3300000, 3800000, 620000, 653333, 15),
  N79     |-> BandConfig(4400000, 5000000, 4400000, 5000000, 693334, 733333, 15),
  N257    |-> BandConfig(26500000, 29500000, 26500000, 29500000, 2054166, 2104165, 60),
  N258    |-> BandConfig(24250000, 27500000, 24250000, 27500000, 2016667, 2070832, 60),
  N260    |-> BandConfig(37000000, 40000000, 37000000, 40000000, 2229166, 2279165, 60),
  N261    |-> BandConfig(27500000, 28350000, 27500000, 28350000, 2070833, 2084999, 60) ]

NR_BANDS == NR_LOWER @@ NR_UPPER

\* A band's configuration as the tables write it.
BandConfigs == [uplinkStart : Nat, uplinkEnd : Nat, downlinkStart : Nat, downlinkEnd : Nat,
                arfcnStart : Nat, arfcnEnd : Nat, spacing : Nat \ {0}]

\* The enums name exactly the bands of the tables, each with its seven numbers.
ASSUME RadioTables ==
  /\ ToSet(GSMBand) = DOMAIN GSM_BANDS
  /\ ToSet(LTEBand) = DOMAIN LTE_BANDS
  /\ ToSet(NRBand) = DOMAIN NR_BANDS
  /\ \A b \in ToSet(GSMBand) : b \in STRING /\ GSM_BANDS[b] \in BandConfigs
  /\ \A b \in ToSet(LTEBand) : b \in STRING /\ LTE_BANDS[b] \in BandConfigs
  /\ \A b \in ToSet(NRBand) : b \in STRING /\ NR_BANDS[b] \in BandConfigs

\* A band's two ranges are the same or apart, so that no downlink frequency is
\* taken for an uplink frequency at another offset.
RangesApart(c) ==
  c.uplinkStart = c.downlinkStart \/ c.uplinkEnd < c.downlinkStart \/ c.downlinkEnd < c.uplinkStart

ASSUME RadioRanges ==
  /\ \A b \in ToSet(GSMBand) : RangesApart(GSM_BANDS[b])
  /\ \A b \in ToSet(LTEBand) : RangesApart(LTE_BANDS[b])
  /\ \A b \in ToSet(NRBand) : RangesApart(NR_BANDS[b])

\* The two markers are no value a call returns.
ASSUME RadioMarkers ==
  /\ undefined # Thrown
  /\ undefined \notin Int
  /\ undefined \notin STRING \cup RadioTechnology
  /\ Thrown \notin Int
  /\ Thrown \notin STRING \cup RadioTechnology
  /\ Thrown \notin [uplink : Int, downlink : Int]
  /\ Thrown \notin [arfcn : Int, technology : RadioTechnology, band : STRING,
                    uplinkFrequency : Int, downlinkFrequency : Int]

-----------------------------------------------------------------------------
(* One band, whatever its technology.  The three technologies repeat this   *)
(* arithmetic with their own table and spacing.                             *)

InUplink(c, f)   == c.uplinkStart <= f /\ f <= c.uplinkEnd
InDownlink(c, f) == c.downlinkStart <= f /\ f <= c.downlinkEnd
InBand(c, f)     == InUplink(c, f) \/ InDownlink(c, f)
InArfcns(c, n)   == c.arfcnStart <= n /\ n <= c.arfcnEnd

\* Mutant of Downlink: counts the channels from one.
DownlinkFromOne(c, n) == c.downlinkStart + (n - c.arfcnStart + 1) * c.spacing

Uplink(c, n)   == c.uplinkStart + (n - c.arfcnStart) * c.spacing
Downlink(c, n) == c.downlinkStart + (n - c.arfcnStart) * c.spacing

\* Mutant of Round: Math.floor.
RoundDown(d, s) == d \div s

\* Math.round(d / s) of integers, d >= 0: halves round up.
Round(d, s) == (2 * d + s) \div (2 * s)

\* The start of the range the frequency is taken to be in: uplink first.
BaseFreq(c, f) == IF InUplink(c, f) THEN c.uplinkStart ELSE c.downlinkStart

\* Nothing checks that the channel is one of the band's.
ChannelOf(c, f) == c.arfcnStart + Round(f - BaseFreq(c, f), c.spacing)

\* A band that is not in the table makes the code read a field of undefined.
ArfcnToFrequency(bands, n, b) ==
  IF b \in DOMAIN bands /\ InArfcns(bands[b], n)
  THEN [uplink |-> Uplink(bands[b], n), downlink |-> Downlink(bands[b], n)]
  ELSE Thrown

FrequencyToArfcn(bands, f, b) ==
  IF b \in DOMAIN bands /\ InBand(bands[b], f) THEN ChannelOf(bands[b], f) ELSE Thrown

\* The bands found, each at its place in the table.  To find none stands for the
\* exception the code throws then.
BandsAtFrequency(bands, order, f) == RestrictValues(order, LAMBDA b : InBand(bands[b], f))
BandsAtArfcn(bands, order, n)     == RestrictValues(order, LAMBDA b : InArfcns(bands[b], n))

NoneFound(found)  == DOMAIN found = {}
FirstFound(found) == found[Min(DOMAIN found)]

ArfcnRange(bands, b) ==
  IF b \in DOMAIN bands
  THEN [arfcnStart |-> bands[b].arfcnStart, arfcnEnd |-> bands[b].arfcnEnd] ELSE undefined

FrequencyRange(bands, b) ==
  IF b \in DOMAIN bands
  THEN [uplinkStart |-> bands[b].uplinkStart, uplinkEnd |-> bands[b].uplinkEnd,
        downlinkStart |-> bands[b].downlinkStart, downlinkEnd |-> bands[b].downlinkEnd]
  ELSE undefined

-----------------------------------------------------------------------------
(* gsm.ts, lte.ts and nr.ts *)

gsmArfcnToFrequency(n, b) == ArfcnToFrequency(GSM_BANDS, n, b)
lteArfcnToFrequency(n, b) == ArfcnToFrequency(LTE_BANDS, n, b)
nrArfcnToFrequency(n, b)  == ArfcnToFrequency(NR_BANDS, n, b)

gsmFrequencyToArfcn(f, b) == FrequencyToArfcn(GSM_BANDS, f, b)
lteFrequencyToArfcn(f, b) == FrequencyToArfcn(LTE_BANDS, f, b)
nrFrequencyToArfcn(f, b)  == FrequencyToArfcn(NR_BANDS, f, b)

detectGSMBandFromFrequency(f) == BandsAtFrequency(GSM_BANDS, GSMBand, f)
detectLTEBandFromFrequency(f) == BandsAtFrequency(LTE_BANDS, LTEBand, f)
detectNRBandFromFrequency(f)  == BandsAtFrequency(NR_BANDS, NRBand, f)

detectGSMBandFromArfcn(n) == BandsAtArfcn(GSM_BANDS, GSMBand, n)
detectLTEBandFromArfcn(n) == BandsAtArfcn(LTE_BANDS, LTEBand, n)
detectNRBandFromArfcn(n)  == BandsAtArfcn(NR_BANDS, NRBand, n)

getGSMBandArfcnRange(b) == ArfcnRange(GSM_BANDS, b)
getLTEBandArfcnRange(b) == ArfcnRange(LTE_BANDS, b)
getNRBandArfcnRange(b)  == ArfcnRange(NR_BANDS, b)

getGSMBandFrequencyRange(b) == FrequencyRange(GSM_BANDS, b)
getLTEBandFrequencyRange(b) == FrequencyRange(LTE_BANDS, b)
getNRBandFrequencyRange(b)  == FrequencyRange(NR_BANDS, b)

-----------------------------------------------------------------------------
(* arfcn.ts: the technology chooses the table *)

detectBandFromFrequency(f, t) ==
  [GSM |-> detectGSMBandFromFrequency(f), LTE |-> detectLTEBandFromFrequency(f),
   NR |-> detectNRBandFromFrequency(f)][t]

detectBandFromArfcn(n, t) ==
  [GSM |-> detectGSMBandFromArfcn(n), LTE |-> detectLTEBandFromArfcn(n),
   NR |-> detectNRBandFromArfcn(n)][t]

\* The first technology that has a band for the frequency.
detectTechnologyFromFrequency(f) ==
  LET fits == RestrictValues(<<"GSM", "LTE", "NR">>, LAMBDA t : ~ NoneFound(detectBandFromFrequency(f, t)))
  IN  IF NoneFound(fits) THEN Thrown ELSE FirstFound(fits)

arfcnToFrequency(n, t, b) ==
  [GSM |-> gsmArfcnToFrequency(n, b), LTE |-> lteArfcnToFrequency(n, b),
   NR |-> nrArfcnToFrequency(n, b)][t]

frequencyToArfcn(f, t, b) ==
  [GSM |-> gsmFrequencyToArfcn(f, b), LTE |-> lteFrequencyToArfcn(f, b),
   NR |-> nrFrequencyToArfcn(f, b)][t]

\* The band given, or the first of the detected ones; Thrown when there is none.
ChosenBand(band, detected) ==
  IF band # undefined THEN band ELSE IF NoneFound(detected) THEN Thrown ELSE FirstFound(detected)

ARFCNConfig(n, t, b, up, down) ==
  [arfcn |-> n, technology |-> t, band |-> b, uplinkFrequency |-> up, downlinkFrequency |-> down]

\* Both frequencies from the channel, also when the channel came from a frequency.
Configured(n, t, b) ==
  LET fs == IF n = Thrown \/ b = Thrown THEN Thrown ELSE arfcnToFrequency(n, t, b)
  IN  IF fs = Thrown THEN Thrown
      ELSE ARFCNConfig(n, t, b, fs.uplink, fs.downlink)

\* A channel number takes precedence over a frequency.
configureARFCN(input) ==
  LET t == IF input.technology # undefined THEN input.technology
           ELSE IF input.frequency # undefined THEN detectTechnologyFromFrequency(input.frequency)
           ELSE "LTE"
  IN  IF t = Thrown THEN Thrown
      ELSE IF input.arfcn # undefined
      THEN Configured(input.arfcn, t, ChosenBand(input.band, detectBandFromArfcn(input.arfcn, t)))
      ELSE IF input.frequency # undefined
      THEN LET b == ChosenBand(input.band, detectBandFromFrequency(input.frequency, t))
           IN  Configured(IF b = Thrown THEN Thrown ELSE frequencyToArfcn(input.frequency, t, b), t, b)
      ELSE Thrown

getSupportedBands(t) ==
  IF t \in RadioTechnology THEN [GSM |-> GSMBand, LTE |-> LTEBand, NR |-> NRBand][t] ELSE <<>>

getBandArfcnRange(t, b) ==
  [GSM |-> getGSMBandArfcnRange(b), LTE |-> getLTEBandArfcnRange(b),
   NR |-> getNRBandArfcnRange(b)][t]

getBandFrequencyRange(t, b) ==
  [GSM |-> getGSMBandFrequencyRange(b), LTE |-> getLTEBandFrequencyRange(b),
   NR |-> getNRBandFrequencyRange(b)][t]

=============================================================================
