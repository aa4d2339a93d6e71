--------------------------- MODULE BtsFormProofs ---------------------------
(***************************************************************************)
(* The form never shows a channel that does not belong to its band or      *)
(* frequencies of another channel, for every list of technologies, every   *)
(* sequence of selections and every configuration a page may give it.      *)
(*                                                                         *)
(* The invariant is inductive as it stands, because every handler ends by  *)
(* recomputing what depends on the field it changed.  A configuration the  *)
(* page gives is shown, and with the repository's tables the channel found *)
(* for a frequency is the nearest and a channel comes back from its own    *)
(* frequencies.  The lemmas about the channel arithmetic hold for every    *)
(* band table, any ranges, any spacing, not only those of the repository.  *)
(***************************************************************************)
EXTENDS BtsForm, WellFoundedInduction, TLAPS

-----------------------------------------------------------------------------
(* Channel arithmetic (module Radio), for any band table                     *)

\* Integer division is determined by its bounds.
LEMMA DivBounds ==
  ASSUME NEW a \in Nat, NEW b \in Nat, b > 0
  PROVE  /\ a \div b \in Nat
         /\ b * (a \div b) =< a
         /\ a < b * (a \div b) + b
  OBVIOUS

\* Rounding an exact multiple of the spacing gives the multiple.
LEMMA RoundExact ==
  ASSUME NEW k \in Nat, NEW s \in Nat, s > 0
  PROVE  Round(k * s, s) = k
<1> DEFINE a == 2 * (k * s) + s
           q == a \div (2 * s)
<1>1. /\ k * s \in Nat
      /\ a \in Nat
      /\ 2 * s \in Nat
      /\ 2 * s > 0
  OBVIOUS
<1>2. /\ q \in Nat
      /\ (2 * s) * q =< a
      /\ a < (2 * s) * q + 2 * s
  BY <1>1, DivBounds
<1>3. ~ (q < k)
  <2> SUFFICES ASSUME q < k PROVE FALSE
    OBVIOUS
  <2>1. q + 1 =< k
    BY <1>2
  <2>2. s * (q + 1) =< s * k
    BY <2>1, <1>2
  <2> QED
    BY <2>2, <1>2
<1>4. ~ (q > k)
  <2> SUFFICES ASSUME q > k PROVE FALSE
    OBVIOUS
  <2>1. s * (k + 1) =< s * q
    BY <1>2
  <2> QED
    BY <2>1, <1>2
<1> QED
  BY <1>2, <1>3, <1>4 DEF Round

\* Rounding moves a frequency by at most half a spacing.
LEMMA RoundNearest ==
  ASSUME NEW d \in Nat, NEW s \in Nat, s > 0
  PROVE  /\ Round(d, s) \in Nat
         /\ 2 * (s * Round(d, s)) - 2 * d =< s
         /\ 2 * d - 2 * (s * Round(d, s)) < s
<1> DEFINE a == 2 * d + s
           q == a \div (2 * s)
<1>1. /\ q \in Nat
      /\ (2 * s) * q =< a
      /\ a < (2 * s) * q + 2 * s
  BY DivBounds, a \in Nat, 2 * s \in Nat, 2 * s > 0
<1>2. (2 * s) * q = 2 * (s * q)
  BY <1>1
<1> QED
  BY <1>1, <1>2 DEF Round

\* Both frequencies of a channel are frequencies of the same channel: where one
\* lies in its band's range it leads back to the channel it was computed from.
THEOREM UplinkRoundTrips ==
  ASSUME NEW c \in BandConfigs, NEW n \in Nat, InArfcns(c, n), InUplink(c, Uplink(c, n))
  PROVE  ChannelOf(c, Uplink(c, n)) = n
<1> DEFINE k == n - c.arfcnStart
<1>1. /\ c.arfcnStart \in Nat
      /\ c.uplinkStart \in Nat
      /\ c.spacing \in Nat
      /\ c.spacing > 0
      /\ k \in Nat
  BY DEF BandConfigs, InArfcns
<1>2. Uplink(c, n) - c.uplinkStart = k * c.spacing
  BY <1>1 DEF Uplink
<1>3. Round(k * c.spacing, c.spacing) = k
  BY <1>1, RoundExact
<1> QED
  BY <1>1, <1>2, <1>3 DEF ChannelOf, BaseFreq

\* Downlink frequencies too, as long as the band's own uplink range does not hold
\* them at another offset, which is what a table must see to.
THEOREM DownlinkRoundTrips ==
  ASSUME NEW c \in BandConfigs, NEW n \in Nat, InArfcns(c, n), InDownlink(c, Downlink(c, n)),
         InUplink(c, Downlink(c, n)) => c.uplinkStart = c.downlinkStart
  PROVE  ChannelOf(c, Downlink(c, n)) = n
<1> DEFINE k == n - c.arfcnStart
<1>1. /\ c.arfcnStart \in Nat
      /\ c.downlinkStart \in Nat
      /\ c.spacing \in Nat
      /\ c.spacing > 0
      /\ k \in Nat
  BY DEF BandConfigs, InArfcns
<1>2. Downlink(c, n) - c.downlinkStart = k * c.spacing
  BY <1>1 DEF Downlink
<1>3. Round(k * c.spacing, c.spacing) = k
  BY <1>1, RoundExact
<1>4. BaseFreq(c, Downlink(c, n)) = c.downlinkStart
  BY DEF BaseFreq
<1> QED
  BY <1>1, <1>2, <1>3, <1>4 DEF ChannelOf

\* A frequency of a band leads to a channel of which one side is at most half a
\* spacing away, never below the band's first channel.
THEOREM NearestChannelOf ==
  ASSUME NEW c \in BandConfigs, NEW f \in Nat, InBand(c, f)
  PROVE  /\ ChannelOf(c, f) \in Nat
         /\ ChannelOf(c, f) >= c.arfcnStart
         /\ \E g \in {Uplink(c, ChannelOf(c, f)), Downlink(c, ChannelOf(c, f))} :
              /\ 2 * g - 2 * f =< c.spacing
              /\ 2 * f - 2 * g < c.spacing
<1> DEFINE base == BaseFreq(c, f)
           r == Round(f - base, c.spacing)
<1>1. /\ c.arfcnStart \in Nat
      /\ c.uplinkStart \in Nat
      /\ c.downlinkStart \in Nat
      /\ c.spacing \in Nat
      /\ c.spacing > 0
  BY DEF BandConfigs
<1>2. base \in {c.uplinkStart, c.downlinkStart} /\ base =< f
  BY <1>1 DEF BaseFreq, InBand, InUplink, InDownlink
<1>3. f - base \in Nat
  BY <1>1, <1>2
<1>4. /\ r \in Nat
      /\ 2 * (c.spacing * r) - 2 * (f - base) =< c.spacing
      /\ 2 * (f - base) - 2 * (c.spacing * r) < c.spacing
  BY <1>1, <1>3, RoundNearest
<1>5. ChannelOf(c, f) = c.arfcnStart + r
  BY DEF ChannelOf
<1>6. ChannelOf(c, f) - c.arfcnStart = r
  BY <1>1, <1>4, <1>5
<1>7. /\ Uplink(c, ChannelOf(c, f)) = c.uplinkStart + c.spacing * r
      /\ Downlink(c, ChannelOf(c, f)) = c.downlinkStart + c.spacing * r
  BY <1>1, <1>4, <1>6 DEF Uplink, Downlink
<1> DEFINE g == base + c.spacing * r
<1>8. g \in {Uplink(c, ChannelOf(c, f)), Downlink(c, ChannelOf(c, f))}
  BY <1>2, <1>7
<1>9. 2 * g - 2 * f =< c.spacing /\ 2 * f - 2 * g < c.spacing
  <2>1. c.spacing * r \in Nat
    BY <1>1, <1>4
  <2> QED
    BY <1>1, <1>2, <1>4, <2>1
<1> QED
  BY <1>1, <1>4, <1>5, <1>8, <1>9

\* When the code throws for a frequency it has just found in the band: exactly
\* from half a spacing above the last channel on.
THEOREM LastChannelReached ==
  ASSUME NEW c \in BandConfigs, NEW f \in Nat, InBand(c, f), c.arfcnStart =< c.arfcnEnd
  PROVE  InArfcns(c, ChannelOf(c, f))
           <=> 2 * (f - BaseFreq(c, f)) < 2 * (c.spacing * (c.arfcnEnd - c.arfcnStart)) + c.spacing
<1> DEFINE base == BaseFreq(c, f)
           s == c.spacing
           d == f - base
           r == Round(d, s)
           last == c.arfcnEnd - c.arfcnStart
<1>1. /\ c.arfcnStart \in Nat
      /\ c.arfcnEnd \in Nat
      /\ s \in Nat
      /\ s > 0
      /\ last \in Nat
  BY DEF BandConfigs
<1>2. d \in Nat
  BY DEF BandConfigs, BaseFreq, InBand, InUplink, InDownlink
<1>3. /\ r \in Nat
      /\ 2 * (s * r) - 2 * d =< s
      /\ 2 * d - 2 * (s * r) < s
  BY <1>1, <1>2, RoundNearest
<1>4. InArfcns(c, ChannelOf(c, f)) <=> r =< last
  BY <1>1, <1>3 DEF InArfcns, ChannelOf
<1>5. ASSUME r =< last PROVE 2 * d < 2 * (s * last) + s
  <2>1. s * r =< s * last
    BY <1>1, <1>3, <1>5
  <2> QED
    BY <2>1, <1>1, <1>2, <1>3
<1>6. ASSUME r > last PROVE ~ (2 * d < 2 * (s * last) + s)
  <2>1. s * (last + 1) =< s * r
    BY <1>1, <1>3, <1>6
  <2>2. s * (last + 1) = s * last + s
    BY <1>1
  <2>3. s * r \in Nat /\ s * last \in Nat
    BY <1>1, <1>3
  <2> QED
    BY <2>1, <2>2, <2>3, <1>1, <1>2, <1>3
<1> QED
  BY <1>1, <1>3, <1>4, <1>5, <1>6

-----------------------------------------------------------------------------
(* The tables, whatever the technology                                       *)

\* A set of naturals that has an element has a least one.
LEMMA LeastOf ==
  ASSUME NEW T \in SUBSET Nat, T # {}
  PROVE  Min(T) \in T /\ \A y \in T : Min(T) =< y
<1> DEFINE R == OpToRel(<, Nat)
<1>1. \A x, y \in Nat : x < y => <<x, y>> \in R
  BY DEF OpToRel
<1>2. \A S : (S \subseteq Nat /\ S # {}) => \E x \in S : \A y \in S : ~ (<<y, x>> \in R)
  BY WFMin, NatLessThanWellFounded
<1> HIDE DEF R
<1>3. PICK x \in T : \A y \in T : ~ (<<y, x>> \in R)
  BY <1>2
<1>4. \A y \in T : x =< y
  <2> SUFFICES ASSUME NEW y \in T PROVE x =< y
    OBVIOUS
  <2>1. x \in Nat /\ y \in Nat /\ ~ (y < x)
    BY <1>1, <1>3
  <2> QED BY <2>1
<1> QED
  BY <1>4 DEF Min

Table(t) == [GSM |-> GSM_BANDS, LTE |-> LTE_BANDS, NR |-> NR_BANDS][t]
Order(t) == getSupportedBands(t)

\* The enums are sequences.
LEMMA OrderPlaces ==
  ASSUME NEW t \in RadioTechnology
  PROVE  DOMAIN Order(t) = 1 .. Len(Order(t)) /\ Len(Order(t)) \in Nat
<1>1. DOMAIN GSMBand = 1 .. Len(GSMBand) /\ Len(GSMBand) \in Nat
  BY DEF GSMBand
<1>2. DOMAIN LTEBand = 1 .. Len(LTEBand) /\ Len(LTEBand) \in Nat
  BY DEF LTEBand
<1>3. DOMAIN NRBand = 1 .. Len(NRBand) /\ Len(NRBand) \in Nat
  BY DEF NRBand
<1> QED
  BY <1>1, <1>2, <1>3 DEF Order, getSupportedBands, RadioTechnology

\* They name the bands of the tables.
LEMMA TableBands ==
  ASSUME NEW t \in RadioTechnology
  PROVE  /\ ToSet(Order(t)) = DOMAIN Table(t)
         /\ \A b \in DOMAIN Table(t) : b \in STRING /\ Table(t)[b] \in BandConfigs /\ RangesApart(Table(t)[b])
<1>1. CASE t = "GSM"
  BY <1>1, RadioTables, RadioRanges DEF Order, Table, getSupportedBands, RadioTechnology
<1>2. CASE t = "LTE"
  BY <1>2, RadioTables, RadioRanges DEF Order, Table, getSupportedBands, RadioTechnology
<1>3. CASE t = "NR"
  BY <1>3, RadioTables, RadioRanges DEF Order, Table, getSupportedBands, RadioTechnology
<1> QED
  BY <1>1, <1>2, <1>3 DEF RadioTechnology

\* Every function of arfcn.ts is the band arithmetic on the technology's table.
LEMMA TableFunctions ==
  ASSUME NEW t \in RadioTechnology
  PROVE  /\ \A n, b : arfcnToFrequency(n, t, b) = ArfcnToFrequency(Table(t), n, b)
         /\ \A f, b : frequencyToArfcn(f, t, b) = FrequencyToArfcn(Table(t), f, b)
         /\ \A b : getBandFrequencyRange(t, b) = FrequencyRange(Table(t), b)
         /\ \A f : detectBandFromFrequency(f, t) = BandsAtFrequency(Table(t), Order(t), f)
<1>1. CASE t = "GSM"
  BY <1>1 DEF Table, Order, getSupportedBands, RadioTechnology, arfcnToFrequency, frequencyToArfcn,
              getBandFrequencyRange, detectBandFromFrequency, gsmArfcnToFrequency, gsmFrequencyToArfcn,
              getGSMBandFrequencyRange, detectGSMBandFromFrequency
<1>2. CASE t = "LTE"
  BY <1>2 DEF Table, Order, getSupportedBands, RadioTechnology, arfcnToFrequency, frequencyToArfcn,
              getBandFrequencyRange, detectBandFromFrequency, lteArfcnToFrequency, lteFrequencyToArfcn,
              getLTEBandFrequencyRange, detectLTEBandFromFrequency
<1>3. CASE t = "NR"
  BY <1>3 DEF Table, Order, getSupportedBands, RadioTechnology, arfcnToFrequency, frequencyToArfcn,
              getBandFrequencyRange, detectBandFromFrequency, nrArfcnToFrequency, nrFrequencyToArfcn,
              getNRBandFrequencyRange, detectNRBandFromFrequency
<1> QED
  BY <1>1, <1>2, <1>3 DEF RadioTechnology

\* What Configured hands back, when it does not throw.
LEMMA ConfiguredIs ==
  ASSUME NEW t \in RadioTechnology, NEW n \in Nat, NEW b, Configured(n, t, b) # Thrown
  PROVE  LET c == Table(t)[b]
         IN  /\ b \in DOMAIN Table(t) /\ InArfcns(c, n)
             /\ Uplink(c, n) \in Nat /\ Downlink(c, n) \in Nat
             /\ Configured(n, t, b) = ARFCNConfig(n, t, b, Uplink(c, n), Downlink(c, n))
<1> DEFINE c == Table(t)[b]
           fs == ArfcnToFrequency(Table(t), n, b)
<1>1. arfcnToFrequency(n, t, b) = fs
  BY TableFunctions
<1>2. fs # Thrown /\ Configured(n, t, b) = ARFCNConfig(n, t, b, fs.uplink, fs.downlink)
  BY <1>1 DEF Configured
<1>3. b \in DOMAIN Table(t) /\ InArfcns(c, n) /\ fs = [uplink |-> Uplink(c, n), downlink |-> Downlink(c, n)]
  BY <1>2 DEF ArfcnToFrequency
<1>4. fs.uplink = Uplink(c, n) /\ fs.downlink = Downlink(c, n)
  BY <1>3
<1>5. c \in BandConfigs
  BY <1>3, TableBands
<1>6. Uplink(c, n) \in Nat /\ Downlink(c, n) \in Nat
  <2> HIDE DEF c
  <2>1. n - c.arfcnStart \in Nat /\ c.spacing \in Nat /\ c.uplinkStart \in Nat /\ c.downlinkStart \in Nat
    BY <1>3, <1>5 DEF BandConfigs, InArfcns
  <2>2. (n - c.arfcnStart) * c.spacing \in Nat
    BY <2>1
  <2> QED
    BY <2>1, <2>2 DEF Uplink, Downlink
<1> QED
  BY <1>2, <1>3, <1>4, <1>6

-----------------------------------------------------------------------------
(* configureARFCN called with a frequency                                    *)

ConfigInputs == [arfcn : Nat \cup {undefined}, frequency : Nat \cup {undefined},
                 technology : RadioTechnology \cup {undefined}, band : STRING \cup {undefined}]

\* The first of what was found is at the least of the places it was found at.
LEMMA FirstFoundLeast ==
  ASSUME NEW found, DOMAIN found \subseteq Nat, ~ NoneFound(found)
  PROVE  \E m \in DOMAIN found : FirstFound(found) = found[m] /\ \A i \in DOMAIN found : m =< i
<1> DEFINE T == DOMAIN found
<1>1. T \in SUBSET Nat /\ T # {}
  BY DEF NoneFound
<1>2. Min(T) \in T /\ \A y \in T : Min(T) =< y
  <2> HIDE DEF T
  <2> QED BY <1>1, LeastOf
<1> QED
  BY <1>2 DEF FirstFound

\* A technology that is detected is one of the three.
LEMMA DetectedTechnology ==
  ASSUME NEW f, detectTechnologyFromFrequency(f) # Thrown
  PROVE  detectTechnologyFromFrequency(f) \in RadioTechnology
<1> DEFINE ts == <<"GSM", "LTE", "NR">>
           fits == RestrictValues(ts, LAMBDA t : ~ NoneFound(detectBandFromFrequency(f, t)))
<1>1. detectTechnologyFromFrequency(f) = IF NoneFound(fits) THEN Thrown ELSE FirstFound(fits)
  BY DEF detectTechnologyFromFrequency
<1>2. DOMAIN fits \subseteq 1 .. 3 /\ \A i \in DOMAIN fits : fits[i] = ts[i]
  BY DEF RestrictValues, Restrict
<1>3. \A i \in 1 .. 3 : ts[i] \in RadioTechnology
  BY DEF RadioTechnology
<1> HIDE DEF fits, ts
<1>4. ~ NoneFound(fits) /\ DOMAIN fits \subseteq Nat
  BY <1>1, <1>2
<1>5. PICK m \in DOMAIN fits : FirstFound(fits) = fits[m]
  BY <1>4, FirstFoundLeast
<1> QED
  BY <1>1, <1>2, <1>3, <1>4, <1>5

\* The first band found is in the table, holds the frequency, and no band listed
\* before it does.
LEMMA DetectedBand ==
  ASSUME NEW t \in RadioTechnology, NEW f, ~ NoneFound(detectBandFromFrequency(f, t))
  PROVE  \E m \in DOMAIN Order(t) :
           /\ FirstFound(detectBandFromFrequency(f, t)) = Order(t)[m]
           /\ \A i \in DOMAIN Order(t) : InBand(Table(t)[Order(t)[i]], f) => m =< i
<1> DEFINE found == detectBandFromFrequency(f, t)
<1>1. /\ DOMAIN found = {i \in DOMAIN Order(t) : InBand(Table(t)[Order(t)[i]], f)}
      /\ \A i \in DOMAIN found : found[i] = Order(t)[i]
  <2>1. found = BandsAtFrequency(Table(t), Order(t), f)
    BY TableFunctions
  <2> HIDE DEF found
  <2> QED
    BY <2>1 DEF BandsAtFrequency, RestrictValues, Restrict
<1> HIDE DEF found
<1>2. DOMAIN found \subseteq Nat
  BY <1>1, OrderPlaces
<1>3. PICK m \in DOMAIN found : FirstFound(found) = found[m] /\ \A i \in DOMAIN found : m =< i
  BY <1>2, FirstFoundLeast DEF found
<1> QED
  BY <1>1, <1>3 DEF found

\* The answer for a frequency: a band of the table that holds it, the first one
\* when none was asked for, and the channel the arithmetic gives, which is one of
\* the band's.
LEMMA AskedFrequency ==
  ASSUME NEW input \in ConfigInputs, input.arfcn = undefined, configureARFCN(input) # Thrown
  PROVE  \E t \in RadioTechnology, b \in STRING :
           LET f == input.frequency
               c == Table(t)[b]
               n == ChannelOf(c, f)
           IN  /\ b \in DOMAIN Table(t) /\ f \in Nat /\ n \in Nat /\ InBand(c, f) /\ InArfcns(c, n)
               /\ configureARFCN(input) = ARFCNConfig(n, t, b, Uplink(c, n), Downlink(c, n))
               /\ input.band = undefined =>
                    \E m \in DOMAIN Order(t) :
                      /\ Order(t)[m] = b
                      /\ \A i \in DOMAIN Order(t) : InBand(Table(t)[Order(t)[i]], f) => m =< i
<1> DEFINE f == input.frequency
           t == IF input.technology # undefined THEN input.technology ELSE detectTechnologyFromFrequency(f)
           b == ChosenBand(input.band, detectBandFromFrequency(f, t))
           n == frequencyToArfcn(f, t, b)
           c == Table(t)[b]
<1>1. f \in Nat /\ f # undefined
  <2>1. f # undefined
    BY DEF configureARFCN
  <2> QED
    BY <2>1 DEF ConfigInputs
<1>2. t # Thrown
  BY <1>1 DEF configureARFCN
<1>3. t \in RadioTechnology
  BY <1>2, DetectedTechnology DEF ConfigInputs
<1>4. configureARFCN(input) = Configured(IF b = Thrown THEN Thrown ELSE n, t, b)
  BY <1>1, <1>2 DEF configureARFCN
<1> HIDE DEF t
<1>5. b # Thrown /\ n # Thrown
  <2> HIDE DEF b, n
  <2> QED
    BY <1>4 DEF Configured
<1>6. configureARFCN(input) = Configured(n, t, b)
  BY <1>4, <1>5
<1>7. n = FrequencyToArfcn(Table(t), f, b)
  BY <1>3, TableFunctions
<1>8. b \in DOMAIN Table(t) /\ InBand(c, f) /\ n = ChannelOf(c, f)
  <2> HIDE DEF b, n
  <2> QED
    BY <1>5, <1>7 DEF FrequencyToArfcn
<1>9. c \in BandConfigs /\ b \in STRING
  BY <1>3, <1>8, TableBands
<1>10. n \in Nat
  <2> HIDE DEF c, n
  <2> QED
    BY <1>1, <1>8, <1>9, NearestChannelOf
<1>11. /\ InArfcns(c, n)
       /\ configureARFCN(input) = ARFCNConfig(n, t, b, Uplink(c, n), Downlink(c, n))
  <2> HIDE DEF b, n
  <2> QED
    BY <1>3, <1>6, <1>10, ConfiguredIs
<1>12. ASSUME input.band = undefined
       PROVE  \E m \in DOMAIN Order(t) :
                /\ Order(t)[m] = b
                /\ \A i \in DOMAIN Order(t) : InBand(Table(t)[Order(t)[i]], f) => m =< i
  <2>1. ~ NoneFound(detectBandFromFrequency(f, t)) /\ b = FirstFound(detectBandFromFrequency(f, t))
    BY <1>5, <1>12 DEF ChosenBand
  <2> HIDE DEF b
  <2> QED
    BY <1>3, <2>1, DetectedBand
<1> HIDE DEF b, n
<1>13. n = ChannelOf(Table(t)[b], f)
  BY <1>8
<1> QED
  BY <1>1, <1>3, <1>8, <1>9, <1>10, <1>11, <1>12, <1>13

-----------------------------------------------------------------------------
(* configureARFCN called with a band and a channel *)

\* It throws or hands back the three fields it was given.
LEMMA ConversionShape ==
  ASSUME NEW p, p.arfcn # undefined, p.technology # undefined, p.band # undefined
  PROVE  \/ Conversion(p) = Thrown
         \/ \E u, d : Conversion(p) = BtsParams(p.technology, p.band, p.arfcn, u, d)
<1> DEFINE c == Configured(p.arfcn, p.technology, p.band)
<1>1. Conversion(p) = Thrown \/ Conversion(p) = c
  BY DEF Conversion, configureARFCN, ChosenBand
<1>2. c = Thrown \/ \E u, d : c = BtsParams(p.technology, p.band, p.arfcn, u, d)
  BY DEF Configured, BtsParams
<1> QED
  BY <1>1, <1>2

\* It does not throw for a channel the form offers.
LEMMA OfferedConverts ==
  ASSUME NEW p, p.band \in availableBands(p), p.technology # undefined, p.band # undefined,
         p.arfcn \in availableArfcns(p), p.arfcn # undefined
  PROVE  Conversion(p) # Thrown
<1> DEFINE t == p.technology
           b == p.band
           n == p.arfcn
           tables == [GSM |-> GSM_BANDS, LTE |-> LTE_BANDS, NR |-> NR_BANDS][t]
<1>1. t \in {"GSM", "LTE", "NR"}
  BY DEF availableBands, getSupportedBands, RadioTechnology, ToSet
<1>2. /\ b \in DOMAIN tables
      /\ b \in STRING
      /\ tables[b] \in BandConfigs
  <2>1. CASE t = "GSM"
    BY <2>1, RadioTables DEF availableBands, getSupportedBands, RadioTechnology
  <2>2. CASE t = "LTE"
    BY <2>2, RadioTables DEF availableBands, getSupportedBands, RadioTechnology
  <2>3. CASE t = "NR"
    BY <2>3, RadioTables DEF availableBands, getSupportedBands, RadioTechnology
  <2> QED
    BY <1>1, <2>1, <2>2, <2>3
<1>3. getBandArfcnRange(t, b) = ArfcnRange(tables, b)
  BY <1>1 DEF getBandArfcnRange, getGSMBandArfcnRange, getLTEBandArfcnRange, getNRBandArfcnRange
<1>4. n \in tables[b].arfcnStart .. tables[b].arfcnEnd
  <2> HIDE DEF tables
  <2>1. getBandArfcnRange(t, b)
          = [arfcnStart |-> tables[b].arfcnStart, arfcnEnd |-> tables[b].arfcnEnd]
    BY <1>2, <1>3 DEF ArfcnRange
  <2>2. /\ getBandArfcnRange(t, b).arfcnStart = tables[b].arfcnStart
        /\ getBandArfcnRange(t, b).arfcnEnd = tables[b].arfcnEnd
    BY <2>1
  <2>3. n \in getBandArfcnRange(t, b).arfcnStart .. getBandArfcnRange(t, b).arfcnEnd
    BY DEF availableArfcns
  <2> QED
    BY <2>2, <2>3
<1>5. arfcnToFrequency(n, t, b) = ArfcnToFrequency(tables, n, b)
  BY <1>1 DEF arfcnToFrequency, gsmArfcnToFrequency, lteArfcnToFrequency, nrArfcnToFrequency
<1>6. /\ n \in Int
      /\ InArfcns(tables[b], n)
      /\ Uplink(tables[b], n) \in Int
      /\ Downlink(tables[b], n) \in Int
  <2> HIDE DEF tables
  <2> QED
    BY <1>2, <1>4 DEF InArfcns, BandConfigs, Uplink, Downlink
<1>7. arfcnToFrequency(n, t, b)
        = [uplink |-> Uplink(tables[b], n), downlink |-> Downlink(tables[b], n)]
  <2> HIDE DEF tables
  <2> QED
    BY <1>2, <1>5, <1>6 DEF ArfcnToFrequency
<1>8. Configured(n, t, b) = ARFCNConfig(n, t, b, Uplink(tables[b], n), Downlink(tables[b], n))
  <2> HIDE DEF tables
  <2>1. n # Thrown /\ b # Thrown
    BY <1>2, <1>6, RadioMarkers
  <2>2. arfcnToFrequency(n, t, b) # Thrown
    BY <1>6, <1>7, RadioMarkers
  <2> QED
    BY <1>7, <2>1, <2>2 DEF Configured
<1>9. Conversion(p) = Configured(n, t, b)
  <2>1. t # Thrown
    BY <1>1, RadioMarkers DEF RadioTechnology
  <2> QED
    BY <2>1 DEF Conversion, configureARFCN, ChosenBand
<1>10. Conversion(p) \in [arfcn : Int, technology : RadioTechnology, band : STRING,
                          uplinkFrequency : Int, downlinkFrequency : Int]
  <2> HIDE DEF tables
  <2>1. t \in RadioTechnology
    BY <1>1 DEF RadioTechnology
  <2> QED
    BY <1>2, <1>6, <1>8, <1>9, <2>1 DEF ARFCNConfig
<1> QED
  BY <1>10, RadioMarkers

-----------------------------------------------------------------------------
(* The handlers *)

\* The channel watcher leaves a consistent form as it is.
LEMMA UpdateArfcnKeeps ==
  ASSUME NEW p, Consistent(p)
  PROVE  Consistent(updateArfcn(p))
<1>1. CASE p.arfcn = undefined
  BY <1>1 DEF updateArfcn, FilledIn, Consistent, NoFrequencies
<1>2. CASE p.arfcn # undefined
  <2>1. /\ p.band # undefined
        /\ p.technology # undefined
        /\ Conversion(p) # Thrown
        /\ p = Conversion(p)
    BY <1>2 DEF Consistent, availableBands
  <2>2. PICK u, d : Conversion(p) = BtsParams(p.technology, p.band, p.arfcn, u, d)
    BY <1>2, <2>1, ConversionShape
  <2>3. updateArfcn(p) = Conversion(p)
    BY <1>2, <2>1, <2>2 DEF updateArfcn, FilledIn, BtsParams, ARFCNConfig
  <2> QED
    BY <2>1, <2>3
<1> QED
  BY <1>1, <1>2

\* The band watcher makes a form consistent whose band is one of its technology.
LEMMA UpdateBandConsistent ==
  ASSUME NEW p, p.band # undefined => p.band \in availableBands(p)
  PROVE  Consistent(updateBand(p))
<1>1. CASE p.technology = undefined \/ p.band = undefined
  <2>1. updateBand(p) = BtsParams(p.technology, undefined, undefined, undefined, undefined)
    BY <1>1 DEF updateBand, NoBand
  <2> QED
    BY <2>1 DEF Consistent, NoFrequencies, BtsParams, ARFCNConfig
<1>2. CASE p.technology # undefined /\ p.band # undefined
  <2> DEFINE q == IF p.arfcn = undefined THEN NoFrequencies(p) ELSE updateArfcn(p)
             none == BtsParams(p.technology, p.band, undefined, undefined, undefined)
  <2>1. /\ q.technology = p.technology
        /\ q.band = p.band
    BY DEF NoFrequencies, updateArfcn, FilledIn, BtsParams, ARFCNConfig
  <2>2. updateBand(p) = IF q.uplinkFrequency = undefined /\ q.downlinkFrequency = undefined
                        THEN NoChannel(q) ELSE q
    BY <1>2 DEF updateBand, ChannelIfValid
  <2>3. NoChannel(q) = none
    BY <2>1 DEF NoChannel
  <2>4. Consistent(none)
    <3>1. availableBands(none) = availableBands(p)
      BY DEF availableBands, BtsParams, ARFCNConfig
    <3> QED
      BY <1>2, <3>1 DEF Consistent, NoFrequencies, BtsParams, ARFCNConfig
  <2>5. CASE q.uplinkFrequency = undefined /\ q.downlinkFrequency = undefined
    BY <2>2, <2>3, <2>4, <2>5
  <2>6. CASE ~ (q.uplinkFrequency = undefined /\ q.downlinkFrequency = undefined)
    <3>1. p.arfcn # undefined /\ Conversion(p) # Thrown
      BY <2>6 DEF NoFrequencies, updateArfcn, FilledIn, BtsParams, ARFCNConfig
    <3>2. PICK u, d : Conversion(p) = BtsParams(p.technology, p.band, p.arfcn, u, d)
      BY <1>2, <3>1, ConversionShape
    <3>3. q = BtsParams(p.technology, p.band, p.arfcn, u, d)
      BY <1>2, <3>1, <3>2 DEF updateArfcn, FilledIn, BtsParams, ARFCNConfig
    <3>4. /\ Conversion(q) = Conversion(p)
          /\ availableBands(q) = availableBands(p)
          /\ q.band = p.band
          /\ q.arfcn = p.arfcn
      BY <3>3 DEF Conversion, availableBands, BtsParams, ARFCNConfig
    <3>5. Consistent(q)
      BY <1>2, <3>1, <3>2, <3>3, <3>4 DEF Consistent
    <3> QED
      BY <2>2, <2>6, <3>5
  <2> QED
    BY <2>5, <2>6
<1> QED
  BY <1>1, <1>2

\* The technology watcher makes any form consistent.
LEMMA UpdateTechnologyConsistent ==
  ASSUME NEW p
  PROVE  Consistent(updateTechnology(p))
<1> DEFINE t == IF p.technology = undefined /\ Supported # <<>> THEN Supported[1] ELSE p.technology
           q == BtsParams(t, p.band, p.arfcn, p.uplinkFrequency, p.downlinkFrequency)
           r == IF t # undefined /\ p.band \notin availableBands(q) THEN NoBand(q) ELSE q
<1>1. updateTechnology(p) = updateBand(r)
  BY DEF updateTechnology
<1>2. CASE t # undefined /\ p.band \notin availableBands(q)
  <2>1. r.band = undefined
    BY <1>2 DEF NoBand, BtsParams, ARFCNConfig
  <2> QED
    BY <1>1, <2>1, UpdateBandConsistent
<1>3. CASE t # undefined /\ p.band \in availableBands(q)
  <2>1. r = q /\ r.band = p.band
    BY <1>3 DEF BtsParams, ARFCNConfig
  <2> QED
    BY <1>1, <1>3, <2>1, UpdateBandConsistent
<1>4. CASE t = undefined
  <2>1. r = q /\ r.technology = undefined
    BY <1>4 DEF BtsParams, ARFCNConfig
  <2>2. updateBand(r) = BtsParams(undefined, undefined, undefined, undefined, undefined)
    BY <2>1 DEF updateBand, NoBand
  <2> QED
    BY <1>1, <2>2 DEF Consistent, NoFrequencies, BtsParams, ARFCNConfig
<1> QED
  BY <1>2, <1>3, <1>4

\* The watchers keep a consistent form consistent, whatever they ran for.
LEMMA WatchedKeeps ==
  ASSUME NEW old, NEW p, Consistent(p)
  PROVE  Consistent(Watched(old, p))
<1> DEFINE a == IF p.technology # old.technology THEN updateTechnology(p) ELSE p
           b == IF a.band # old.band THEN updateBand(a) ELSE a
<1>1. Consistent(a)
  BY UpdateTechnologyConsistent
<1>2. Consistent(b)
  BY <1>1, UpdateBandConsistent DEF Consistent
<1>3. Consistent(updateArfcn(b))
  BY <1>2, UpdateArfcnKeeps
<1> QED
  BY <1>2, <1>3 DEF Watched, TechnologyWatched, BandWatched, ArfcnWatched

LEMMA WithConfigConsistent ==
  ASSUME NEW p, NEW config, Consistent(p)
  PROVE  Consistent(WithConfig(p, config))
  BY UpdateTechnologyConsistent, WatchedKeeps DEF WithConfig

-----------------------------------------------------------------------------
(* The user's selections *)

\* A form is determined by its five fields.
LEMMA SameFieldsConsistent ==
  ASSUME NEW p, Consistent(p)
  PROVE  Consistent(BtsParams(p.technology, p.band, p.arfcn, p.uplinkFrequency, p.downlinkFrequency))
<1>1. CASE p.arfcn = undefined
  <2>1. p = BtsParams(p.technology, p.band, p.arfcn, undefined, undefined)
    BY <1>1 DEF Consistent, NoFrequencies
  <2>2. p.uplinkFrequency = undefined /\ p.downlinkFrequency = undefined
    BY <2>1 DEF BtsParams, ARFCNConfig
  <2> QED
    BY <2>1, <2>2
<1>2. CASE p.arfcn # undefined
  <2>1. PICK u, d : p = BtsParams(p.technology, p.band, p.arfcn, u, d)
    BY <1>2, ConversionShape DEF Consistent, availableBands
  <2>2. p.uplinkFrequency = u /\ p.downlinkFrequency = d
    BY <2>1 DEF BtsParams, ARFCNConfig
  <2> QED
    BY <2>1, <2>2
<1> QED
  BY <1>1, <1>2

LEMMA TechnologySelected ==
  ASSUME NEW t, FormConsistent, SelectTechnology(t)
  PROVE  FormConsistent'
<1> DEFINE p == BtsParams(t, btsParams.band, btsParams.arfcn,
                          btsParams.uplinkFrequency, btsParams.downlinkFrequency)
           a == IF p.technology # btsParams.technology THEN updateTechnology(p) ELSE p
           b == IF a.band # btsParams.band THEN updateBand(a) ELSE a
<1>1. btsParams' = Watched(btsParams, p)
  BY DEF SelectTechnology, Edit
<1>2. Consistent(a)
  <2>1. CASE t # btsParams.technology
    BY <2>1, UpdateTechnologyConsistent DEF BtsParams, ARFCNConfig
  <2>2. CASE t = btsParams.technology
    <3>1. Consistent(p)
      BY <2>2, SameFieldsConsistent DEF FormConsistent
    <3> QED
      BY <2>2, <3>1 DEF BtsParams, ARFCNConfig
  <2> QED
    BY <2>1, <2>2
<1>3. Consistent(b)
  BY <1>2, UpdateBandConsistent DEF Consistent
<1>4. Consistent(updateArfcn(b))
  BY <1>3, UpdateArfcnKeeps
<1> QED
  BY <1>1, <1>3, <1>4 DEF Watched, TechnologyWatched, BandWatched, ArfcnWatched, FormConsistent

LEMMA BandSelected ==
  ASSUME NEW band, FormConsistent, SelectBand(band)
  PROVE  FormConsistent'
<1> DEFINE p == BtsParams(btsParams.technology, band, btsParams.arfcn,
                          btsParams.uplinkFrequency, btsParams.downlinkFrequency)
           b == IF p.band # btsParams.band THEN updateBand(p) ELSE p
<1>1. btsParams' = Watched(btsParams, p) /\ band \in availableBands(btsParams)
  BY DEF SelectBand, Edit
<1>2. Consistent(b)
  <2>1. CASE band # btsParams.band
    <3>1. p.band \in availableBands(p)
      BY <1>1 DEF availableBands, BtsParams, ARFCNConfig
    <3> QED
      BY <2>1, <3>1, UpdateBandConsistent DEF BtsParams, ARFCNConfig
  <2>2. CASE band = btsParams.band
    <3>1. Consistent(p)
      BY <2>2, SameFieldsConsistent DEF FormConsistent
    <3> QED
      BY <2>2, <3>1 DEF BtsParams, ARFCNConfig
  <2> QED
    BY <2>1, <2>2
<1>3. Consistent(updateArfcn(b))
  BY <1>2, UpdateArfcnKeeps
<1>4. p.technology = btsParams.technology
  BY DEF BtsParams, ARFCNConfig
<1> QED
  BY <1>1, <1>2, <1>3, <1>4 DEF Watched, TechnologyWatched, BandWatched, ArfcnWatched, FormConsistent

LEMMA ArfcnSelected ==
  ASSUME NEW n, FormConsistent, SelectArfcn(n)
  PROVE  FormConsistent'
<1> DEFINE p == BtsParams(btsParams.technology, btsParams.band, n,
                          btsParams.uplinkFrequency, btsParams.downlinkFrequency)
<1>1. btsParams' = Watched(btsParams, p) /\ n \in availableArfcns(btsParams)
  BY DEF SelectArfcn, Edit
<1>2. /\ p.technology = btsParams.technology
      /\ p.band = btsParams.band
      /\ p.arfcn = n
  BY DEF BtsParams, ARFCNConfig
<1>3. btsParams' = IF n # btsParams.arfcn THEN updateArfcn(p) ELSE p
  BY <1>1, <1>2 DEF Watched, TechnologyWatched, BandWatched, ArfcnWatched
<1>4. CASE n = btsParams.arfcn
  BY <1>3, <1>4, SameFieldsConsistent DEF FormConsistent
<1>5. CASE n # btsParams.arfcn
  <2>1. /\ p.technology # undefined
        /\ p.band # undefined
        /\ p.band \in availableBands(p)
        /\ p.arfcn \in availableArfcns(p)
    BY <1>1, <1>2 DEF FormConsistent, Consistent, availableBands, availableArfcns
  <2>2. CASE n = undefined
    <3>1. updateArfcn(p) = BtsParams(p.technology, p.band, p.arfcn, undefined, undefined)
      BY <1>2, <2>2 DEF updateArfcn, FilledIn, NoFrequencies
    <3>2. availableBands(updateArfcn(p)) = availableBands(p)
      BY <3>1 DEF availableBands, BtsParams, ARFCNConfig
    <3> QED
      BY <1>2, <1>3, <1>5, <2>1, <2>2, <3>1, <3>2
      DEF FormConsistent, Consistent, NoFrequencies, BtsParams, ARFCNConfig
  <2>3. CASE n # undefined
    <3>1. Conversion(p) # Thrown
      BY <1>2, <2>1, <2>3, OfferedConverts
    <3>2. PICK u, d : Conversion(p) = BtsParams(p.technology, p.band, p.arfcn, u, d)
      BY <1>2, <2>1, <2>3, <3>1, ConversionShape
    <3>3. updateArfcn(p) = BtsParams(p.technology, p.band, p.arfcn, u, d)
      BY <1>2, <2>1, <2>3, <3>1, <3>2 DEF updateArfcn, FilledIn, BtsParams, ARFCNConfig
    <3> DEFINE q == updateArfcn(p)
    <3>4. /\ Conversion(q) = Conversion(p)
          /\ availableBands(q) = availableBands(p)
          /\ q.band = p.band
          /\ q.arfcn = p.arfcn
      BY <3>3 DEF Conversion, availableBands, BtsParams, ARFCNConfig
    <3>5. Consistent(q)
      BY <1>2, <2>1, <2>3, <3>1, <3>2, <3>3, <3>4 DEF Consistent
    <3> QED
      BY <1>3, <1>5, <3>5 DEF FormConsistent
  <2> QED
    BY <2>2, <2>3
<1> QED
  BY <1>4, <1>5

-----------------------------------------------------------------------------

\* At every moment the form offers a band of its technology, a channel of its
\* band and the frequencies of that channel.
THEOREM FormAlwaysConsistent == Spec => []FormConsistent
<1>1. Init => FormConsistent
  BY UpdateTechnologyConsistent DEF Init, Mounted, FormConsistent
<1>2. ASSUME FormConsistent, [Next]_vars PROVE FormConsistent'
  <2>1. CASE \E t \in ToSet(Supported) : SelectTechnology(t)
    BY <1>2, <2>1, TechnologySelected
  <2>2. CASE \E b \in PickBands : SelectBand(b)
    BY <1>2, <2>2, BandSelected
  <2>3. CASE \E n \in PickArfcns : SelectArfcn(n)
    BY <1>2, <2>3, ArfcnSelected
  <2>4. CASE Submit
    BY <2>4, UpdateTechnologyConsistent DEF Submit, FormConsistent
  <2>5. CASE resetForm
    <3>1. PICK p : btsParams' = Watched(btsParams, updateTechnology(p))
      BY <2>5 DEF resetForm
    <3> QED
      BY <3>1, UpdateTechnologyConsistent, WatchedKeeps DEF FormConsistent
  <2>6. CASE \E config \in Given : SetBts(config)
    <3>1. PICK config \in Given : btsParams' = WithConfig(btsParams, config)
      BY <2>6 DEF SetBts
    <3> QED
      BY <1>2, <3>1, WithConfigConsistent DEF FormConsistent
  <2>7. CASE UNCHANGED vars
    BY <1>2, <2>7 DEF vars, FormConsistent
  <2> QED
    BY <1>2, <2>1, <2>2, <2>3, <2>4, <2>5, <2>6, <2>7 DEF Next
<1> QED
  BY <1>1, <1>2, PTL DEF Spec
-----------------------------------------------------------------------------
(* The kinds of the form's fields                                            *)

Kinds(p) == p.technology \in RadioTechnology \cup {undefined} /\ p.arfcn \in Nat \cup {undefined}

ConfigKinds(config) ==
  /\ "technology" \in DOMAIN config => config.technology \in RadioTechnology \cup {undefined}
  /\ "arfcn" \in DOMAIN config => config.arfcn \in Nat \cup {undefined}

\* What the page holds is of the right kinds too, it does not have both its own
\* configuration and the form's, and the first one is configureARFCN's answer.
FormKinds ==
  /\ Kinds(btsParams)
  /\ shared \in BOOLEAN
  /\ shared => bts = undefined
  /\ bts # undefined => ConfigKinds(bts)
  /\ asked # undefined =>
       asked \in Inputs /\ bts = (IF configureARFCN(asked) = Thrown THEN undefined ELSE configureARFCN(asked))

LEMMA FieldsOfParams ==
  ASSUME NEW t, NEW b, NEW n, NEW up, NEW down
  PROVE  LET p == BtsParams(t, b, n, up, down)
         IN  /\ p.technology = t /\ p.band = b /\ p.arfcn = n
             /\ p.uplinkFrequency = up /\ p.downlinkFrequency = down
             /\ DOMAIN p = {"arfcn", "technology", "band", "uplinkFrequency", "downlinkFrequency"}
  BY DEF BtsParams, ARFCNConfig

LEMMA UpdateArfcnKinds ==
  ASSUME NEW p, Kinds(p)
  PROVE  Kinds(updateArfcn(p))
<1>1. \E up, down : updateArfcn(p) = BtsParams(p.technology, p.band, p.arfcn, up, down)
  BY DEF updateArfcn, FilledIn, NoFrequencies
<1> QED
  BY <1>1, FieldsOfParams DEF Kinds

LEMMA UpdateBandKinds ==
  ASSUME NEW p, Kinds(p)
  PROVE  Kinds(updateBand(p))
<1>1. Kinds(NoBand(p)) /\ Kinds(NoFrequencies(p))
  BY FieldsOfParams DEF Kinds, NoBand, NoFrequencies
<1>2. ASSUME NEW q, Kinds(q) PROVE Kinds(ChannelIfValid(q))
  BY <1>2, FieldsOfParams DEF Kinds, ChannelIfValid, NoChannel
<1> QED
  BY <1>1, <1>2, UpdateArfcnKinds DEF updateBand

LEMMA UpdateTechnologyKinds ==
  ASSUME NEW p, Kinds(p)
  PROVE  Kinds(updateTechnology(p))
<1> DEFINE t == IF p.technology = undefined /\ Supported # <<>> THEN Supported[1] ELSE p.technology
           q == BtsParams(t, p.band, p.arfcn, p.uplinkFrequency, p.downlinkFrequency)
<1>1. t \in RadioTechnology \cup {undefined}
  BY FormAssumption DEF Kinds
<1> HIDE DEF t
<1>2. Kinds(q) /\ Kinds(NoBand(q))
  BY <1>1, FieldsOfParams DEF Kinds, NoBand
<1>3. updateTechnology(p) = updateBand(IF t # undefined /\ p.band \notin availableBands(q) THEN NoBand(q) ELSE q)
  BY DEF updateTechnology, t
<1> HIDE DEF q
<1> QED
  BY <1>2, <1>3, UpdateBandKinds

LEMMA WatchedKinds ==
  ASSUME NEW old, NEW p, Kinds(p)
  PROVE  Kinds(Watched(old, p))
  BY UpdateTechnologyKinds, UpdateBandKinds, UpdateArfcnKinds
     DEF Watched, TechnologyWatched, BandWatched, ArfcnWatched

LEMMA ObjectAssignKinds ==
  ASSUME NEW old, NEW config, Kinds(old), ConfigKinds(config)
  PROVE  Kinds(ObjectAssign(old, config))
  BY FieldsOfParams DEF ObjectAssign, Field, Kinds, ConfigKinds

LEMMA WithConfigKinds ==
  ASSUME NEW p, NEW config, Kinds(p), config # undefined => ConfigKinds(config)
  PROVE  Kinds(WithConfig(p, config))
  BY ObjectAssignKinds, UpdateTechnologyKinds, WatchedKinds DEF WithConfig

LEMMA DefaultKinds == Kinds(defaultBtsParams)
  BY FieldsOfParams DEF Kinds, defaultBtsParams

\* The answer of configureARFCN is a whole configuration.
LEMMA AnswerKinds ==
  ASSUME NEW input \in ConfigInputs, configureARFCN(input) # Thrown
  PROVE  ConfigKinds(configureARFCN(input))
<1>1. CASE input.arfcn = undefined
  <2> DEFINE n(t, b) == ChannelOf(Table(t)[b], input.frequency)
  <2>1. PICK t \in RadioTechnology, b \in STRING :
          /\ n(t, b) \in Nat
          /\ configureARFCN(input) = ARFCNConfig(n(t, b), t, b, Uplink(Table(t)[b], n(t, b)),
                                                 Downlink(Table(t)[b], n(t, b)))
    BY <1>1, AskedFrequency
  <2> HIDE DEF n
  <2>2. PICK up, down : configureARFCN(input) = BtsParams(t, b, n(t, b), up, down)
    BY <2>1 DEF BtsParams
  <2> QED
    BY <2>1, <2>2, FieldsOfParams DEF ConfigKinds
<1>2. CASE input.arfcn # undefined
  <2> DEFINE t == IF input.technology # undefined THEN input.technology
                  ELSE IF input.frequency # undefined THEN detectTechnologyFromFrequency(input.frequency)
                  ELSE "LTE"
             b == ChosenBand(input.band, detectBandFromArfcn(input.arfcn, t))
  <2>1. t # Thrown /\ configureARFCN(input) = Configured(input.arfcn, t, b)
    BY <1>2 DEF configureARFCN
  <2>2. t \in RadioTechnology /\ input.arfcn \in Nat
    BY <1>2, <2>1, DetectedTechnology DEF ConfigInputs, RadioTechnology
  <2> HIDE DEF t, b
  <2>3. PICK up, down : configureARFCN(input) = BtsParams(t, b, input.arfcn, up, down)
    BY <2>1 DEF Configured, BtsParams
  <2> QED
    BY <2>2, <2>3, FieldsOfParams DEF ConfigKinds
<1> QED
  BY <1>1, <1>2

LEMMA InitKinds ==
  ASSUME Init
  PROVE  FormKinds
<1>1. asked \in ConfigInputs
  BY FormAssumption DEF Init, ConfigInputs
<1>2. bts # undefined => ConfigKinds(bts)
  BY <1>1, AnswerKinds DEF Init
<1>3. Kinds(btsParams)
  BY <1>2, DefaultKinds, ObjectAssignKinds, WithConfigKinds, UpdateTechnologyKinds DEF Init, Mounted
<1> QED
  BY <1>2, <1>3 DEF Init, FormKinds

LEMMA NextKinds ==
  ASSUME FormKinds, [Next]_vars
  PROVE  FormKinds'
<1>1. ASSUME NEW p, Edit(p), Kinds(p) PROVE FormKinds'
  BY <1>1, WatchedKinds DEF Edit, FormKinds
<1>2. CASE \E t \in ToSet(Supported) : SelectTechnology(t)
  <2>1. PICK t \in ToSet(Supported) : SelectTechnology(t)
    BY <1>2
  <2>2. t \in RadioTechnology
    BY FormAssumption DEF ToSet
  <2>3. Kinds(BtsParams(t, btsParams.band, btsParams.arfcn,
                        btsParams.uplinkFrequency, btsParams.downlinkFrequency))
    BY <2>2, FieldsOfParams DEF Kinds, FormKinds
  <2> QED
    BY <1>1, <2>1, <2>3 DEF SelectTechnology
<1>3. CASE \E b \in PickBands : SelectBand(b)
  <2>1. PICK b \in PickBands : SelectBand(b)
    BY <1>3
  <2>2. Kinds(BtsParams(btsParams.technology, b, btsParams.arfcn,
                        btsParams.uplinkFrequency, btsParams.downlinkFrequency))
    BY FieldsOfParams DEF Kinds, FormKinds
  <2> QED
    BY <1>1, <2>1, <2>2 DEF SelectBand
<1>4. CASE \E n \in PickArfcns : SelectArfcn(n)
  <2>1. PICK n \in PickArfcns : SelectArfcn(n)
    BY <1>4
  <2>2. Kinds(BtsParams(btsParams.technology, btsParams.band, n,
                        btsParams.uplinkFrequency, btsParams.downlinkFrequency))
    BY FormAssumption, FieldsOfParams DEF Kinds, FormKinds
  <2> QED
    BY <1>1, <2>1, <2>2 DEF SelectArfcn
<1>5. CASE Submit
  BY <1>5, UpdateTechnologyKinds DEF Submit, FormKinds
<1>6. CASE resetForm
  <2>1. ConfigKinds(btsParams)
    BY DEF FormKinds, Kinds, ConfigKinds
  <2>2. props_bts = undefined \/ ConfigKinds(props_bts)
    BY <2>1 DEF props_bts, FormKinds
  <2>3. PICK p : Kinds(p) /\ btsParams' = Watched(btsParams, updateTechnology(p))
    BY <1>6, <2>2, DefaultKinds, ObjectAssignKinds DEF resetForm
  <2>4. Kinds(btsParams')
    BY <2>3, UpdateTechnologyKinds, WatchedKinds
  <2>5. shared' = shared /\ bts' = bts /\ asked' = asked
    BY <1>6 DEF resetForm
  <2> QED
    BY <2>4, <2>5 DEF FormKinds
<1>7. CASE \E config \in Given : SetBts(config)
  <2>1. PICK config \in Given : SetBts(config)
    BY <1>7
  <2>2. config # undefined => ConfigKinds(config)
    BY FormAssumption DEF ConfigKinds
  <2>3. Kinds(btsParams')
    BY <2>1, <2>2, WithConfigKinds DEF SetBts, FormKinds
  <2> QED
    BY <2>1, <2>2, <2>3 DEF SetBts, FormKinds
<1>8. CASE UNCHANGED vars
  BY <1>8 DEF vars, FormKinds
<1> QED
  BY <1>2, <1>3, <1>4, <1>5, <1>6, <1>7, <1>8 DEF Next

LEMMA KindsAlways == Spec => []FormKinds
  BY InitKinds, NextKinds, PTL DEF Spec
-----------------------------------------------------------------------------
(* What the kinds and the consistency of the form say together               *)

\* The markers are neither technologies nor numbers.
LEMMA MarkersApart ==
  /\ undefined \notin RadioTechnology /\ undefined \notin Nat
  /\ Thrown \notin RadioTechnology /\ Thrown \notin Nat
  BY RadioMarkers

\* A consistent form with a channel shows what the arithmetic gives for it.
LEMMA ShownChannel ==
  ASSUME NEW p, Consistent(p), Kinds(p), p.arfcn # undefined
  PROVE  LET c == Table(p.technology)[p.band]
             n == p.arfcn
         IN  /\ p.technology \in RadioTechnology /\ p.band \in DOMAIN Table(p.technology)
             /\ n \in Nat /\ InArfcns(c, n)
             /\ p = Configured(n, p.technology, p.band) /\ p # Thrown
             /\ p.uplinkFrequency = Uplink(c, n) /\ p.downlinkFrequency = Downlink(c, n)
             /\ Uplink(c, n) \in Nat /\ Downlink(c, n) \in Nat
<1> DEFINE t == p.technology
           b == p.band
           n == p.arfcn
           c == Table(t)[b]
<1>1. b # undefined /\ b \in availableBands(p) /\ p = Conversion(p) /\ p # Thrown
  BY DEF Consistent
<1>2. t # undefined
  BY <1>1 DEF availableBands
<1>3. t \in RadioTechnology /\ n \in Nat /\ t # Thrown
  BY <1>2, RadioMarkers DEF Kinds
<1>4. Conversion(p) = Configured(n, t, b)
  BY <1>1, <1>2, <1>3 DEF Conversion, configureARFCN, ChosenBand
<1> HIDE DEF t, n, b
<1>5. Configured(n, t, b) # Thrown
  BY <1>1, <1>4
<1>6. /\ b \in DOMAIN Table(t) /\ InArfcns(c, n)
      /\ Uplink(c, n) \in Nat /\ Downlink(c, n) \in Nat
      /\ Configured(n, t, b) = ARFCNConfig(n, t, b, Uplink(c, n), Downlink(c, n))
  BY <1>3, <1>5, ConfiguredIs
<1>7. p = BtsParams(t, b, n, Uplink(c, n), Downlink(c, n))
  BY <1>1, <1>4, <1>6 DEF BtsParams
<1>8. p.uplinkFrequency = Uplink(c, n) /\ p.downlinkFrequency = Downlink(c, n)
  <2> HIDE DEF c
  <2> QED BY <1>7, FieldsOfParams
<1> QED
  BY <1>1, <1>3, <1>4, <1>6, <1>8 DEF t, n, b

\* Every field of the form holds a value of its kind, for any configurations of
\* the types the properties declare.
THEOREM FormTypeCorrect == Spec => []FormTypeOK
<1>1. ASSUME FormConsistent, FormKinds PROVE FormTypeOK
  <2> DEFINE p == btsParams
  <2>1. Consistent(p) /\ Kinds(p)
    BY <1>1 DEF FormConsistent, FormKinds
  <2>2. p.band \in ToSet(GSMBand) \cup ToSet(LTEBand) \cup ToSet(NRBand) \cup {undefined}
    <3>1. CASE p.band = undefined
      BY <3>1
    <3>2. CASE p.band # undefined
      <4>1. p.technology # undefined /\ p.band \in ToSet(getSupportedBands(p.technology))
        BY <2>1, <3>2 DEF Consistent, availableBands
      <4> QED
        BY <2>1, <4>1 DEF Kinds, getSupportedBands, RadioTechnology
    <3> QED BY <3>1, <3>2
  <2>3. \A k \in {"arfcn", "uplinkFrequency", "downlinkFrequency"} : p[k] # undefined => p[k] \in Nat
    <3>1. CASE p.arfcn = undefined
      <4>1. p = BtsParams(p.technology, p.band, p.arfcn, undefined, undefined)
        BY <2>1, <3>1 DEF Consistent, NoFrequencies
      <4>2. p.uplinkFrequency = undefined /\ p.downlinkFrequency = undefined
        BY <4>1, FieldsOfParams
      <4> HIDE DEF p
      <4> QED
        BY <3>1, <4>2
    <3>2. CASE p.arfcn # undefined
      <4>1. p.arfcn \in Nat /\ p.uplinkFrequency \in Nat /\ p.downlinkFrequency \in Nat
        BY <2>1, <3>2, ShownChannel
      <4> HIDE DEF p
      <4> QED
        BY <4>1
    <3> QED BY <3>1, <3>2
  <2> QED
    BY <1>1, <2>1, <2>2, <2>3 DEF FormTypeOK, FormKinds, Kinds
<1> QED
  BY <1>1, FormAlwaysConsistent, KindsAlways, PTL

\* The first configuration of a page that asked for a frequency is the first
\* band that holds it and the nearest of its channels, for any such input.
THEOREM AlwaysNearestChannel == Spec => []NearestChannel
<1>1. ASSUME FormKinds PROVE NearestChannel
  <2> SUFFICES ASSUME asked # undefined, asked.arfcn = undefined, bts # undefined
               PROVE  LET f == asked.frequency
                          c == Table(bts.technology)[bts.band]
                      IN  /\ InBand(c, f)
                          /\ asked.band = undefined =>
                               \A i \in 1 .. Len(Order(bts.technology)) :
                                 InBand(getBandFrequencyRange(bts.technology, Order(bts.technology)[i]), f)
                                   => \E j \in 1 .. i : Order(bts.technology)[j] = bts.band
                          /\ InArfcns(c, bts.arfcn)
                          /\ \E g \in {bts.uplinkFrequency, bts.downlinkFrequency} :
                               2 * (g - f) \in -c.spacing .. c.spacing
    BY DEF NearestChannel, Table, Order
  <2> DEFINE f == asked.frequency
             n(t, b) == ChannelOf(Table(t)[b], f)
  <2>1. asked \in ConfigInputs /\ configureARFCN(asked) # Thrown /\ bts = configureARFCN(asked)
    BY <1>1, FormAssumption DEF FormKinds, ConfigInputs
  <2>2. PICK t \in RadioTechnology, b \in STRING :
          /\ b \in DOMAIN Table(t) /\ f \in Nat /\ n(t, b) \in Nat
          /\ InBand(Table(t)[b], f) /\ InArfcns(Table(t)[b], n(t, b))
          /\ bts = ARFCNConfig(n(t, b), t, b, Uplink(Table(t)[b], n(t, b)), Downlink(Table(t)[b], n(t, b)))
          /\ asked.band = undefined =>
               \E m \in DOMAIN Order(t) :
                 /\ Order(t)[m] = b
                 /\ \A i \in DOMAIN Order(t) : InBand(Table(t)[Order(t)[i]], f) => m =< i
    BY <2>1, AskedFrequency
  <2> DEFINE c == Table(t)[b]
             k == n(t, b)
  <2> HIDE DEF n, f
  <2>3. /\ bts.technology = t /\ bts.band = b /\ bts.arfcn = k
        /\ bts.uplinkFrequency = Uplink(c, k) /\ bts.downlinkFrequency = Downlink(c, k)
    BY <2>2, FieldsOfParams DEF BtsParams
  <2>4. c \in BandConfigs
    BY <2>2, TableBands
  <2>5. PICK g \in {Uplink(c, k), Downlink(c, k)} : 2 * g - 2 * f =< c.spacing /\ 2 * f - 2 * g < c.spacing
    BY <2>2, <2>4, NearestChannelOf DEF n
  <2>6. Uplink(c, k) \in Int /\ Downlink(c, k) \in Int /\ c.spacing \in Nat /\ f \in Nat
    <3>1. k \in Nat /\ f \in Nat
      BY <2>2
    <3> HIDE DEF c, k
    <3> QED
      BY <2>4, <3>1 DEF BandConfigs, Uplink, Downlink
  <2>7. 2 * (g - f) \in -c.spacing .. c.spacing
    <3>1. g \in Int
      BY <2>6
    <3> HIDE DEF c, k
    <3> QED
      BY <2>5, <2>6, <3>1
  <2>8. ASSUME asked.band = undefined, NEW i \in 1 .. Len(Order(t)),
               InBand(getBandFrequencyRange(t, Order(t)[i]), f)
        PROVE  \E j \in 1 .. i : Order(t)[j] = b
    <3>1. DOMAIN Order(t) = 1 .. Len(Order(t)) /\ Len(Order(t)) \in Nat
      BY OrderPlaces
    <3>2. Order(t)[i] \in DOMAIN Table(t)
      BY <3>1, TableBands DEF ToSet
    <3>3. InBand(Table(t)[Order(t)[i]], f)
      <4>1. getBandFrequencyRange(t, Order(t)[i]) = FrequencyRange(Table(t), Order(t)[i])
        BY TableFunctions
      <4> QED
        BY <2>8, <3>2, <4>1 DEF FrequencyRange, InBand, InUplink, InDownlink
    <3>4. PICK m \in DOMAIN Order(t) : Order(t)[m] = b /\ m =< i
      BY <2>2, <2>8, <3>1, <3>3
    <3> QED
      BY <3>1, <3>4
  <2>9. InBand(c, f) /\ InArfcns(c, k)
    BY <2>2
  <2> HIDE DEF c, k
  <2>10. c = Table(bts.technology)[bts.band] /\ t = bts.technology /\ b = bts.band
    BY <2>3 DEF c
  <2> QED
    BY <2>3, <2>5, <2>7, <2>8, <2>9, <2>10 DEF f
<1> QED
  BY <1>1, KindsAlways, PTL
\* A channel whose frequencies its band's ranges hold survives the way there and
\* back, whatever the form was given and the user chose.
THEOREM ChannelAlwaysRoundTrips == Spec => []ChannelRoundTrips
<1> DEFINE Back(p, f) == configureARFCN([arfcn |-> undefined, frequency |-> f,
                                         technology |-> p.technology, band |-> p.band])
<1>1. ASSUME NEW p, NEW f \in Nat, Consistent(p), Kinds(p), p.arfcn # undefined,
             FrequencyToArfcn(Table(p.technology), f, p.band) = p.arfcn
      PROVE  Back(p, f) = p
  <2> DEFINE input == [arfcn |-> undefined, frequency |-> f, technology |-> p.technology, band |-> p.band]
             n == frequencyToArfcn(f, p.technology, p.band)
  <2>1. /\ p.technology \in RadioTechnology /\ p.band \in DOMAIN Table(p.technology)
        /\ p = Configured(p.arfcn, p.technology, p.band) /\ p.arfcn \in Nat
    BY <1>1, ShownChannel
  <2>2. p.technology # undefined /\ p.technology # Thrown /\ f # undefined
    BY <1>1, <2>1, MarkersApart
  <2>3. p.band # undefined /\ p.band # Thrown
    <3>1. p.band \in STRING
      BY <2>1, TableBands
    <3> QED
      BY <3>1, RadioMarkers
  <2>4. n = p.arfcn
    BY <1>1, <2>1, TableFunctions
  <2>5. /\ input.arfcn = undefined /\ input.frequency = f
        /\ input.technology = p.technology /\ input.band = p.band
    OBVIOUS
  <2> HIDE DEF input
  <2>6. configureARFCN(input) = Configured(n, p.technology, p.band)
    BY <2>2, <2>3, <2>5 DEF configureARFCN, ChosenBand
  <2> QED
    BY <2>1, <2>4, <2>6 DEF input
<1>2. ASSUME FormConsistent, FormKinds, btsParams.arfcn # undefined
      PROVE  LET p == btsParams
                 r == getBandFrequencyRange(p.technology, p.band)
             IN  /\ InUplink(r, p.uplinkFrequency) => Back(p, p.uplinkFrequency) = p
                 /\ InDownlink(r, p.downlinkFrequency) => Back(p, p.downlinkFrequency) = p
  <2> DEFINE p == btsParams
             t == p.technology
             b == p.band
             c == Table(t)[b]
             r == getBandFrequencyRange(t, b)
  <2>1. Consistent(p) /\ Kinds(p) /\ p.arfcn # undefined
    BY <1>2 DEF FormConsistent, FormKinds
  <2>2. /\ t \in RadioTechnology /\ b \in DOMAIN Table(t)
        /\ p.arfcn \in Nat /\ InArfcns(c, p.arfcn)
        /\ p.uplinkFrequency = Uplink(c, p.arfcn) /\ p.downlinkFrequency = Downlink(c, p.arfcn)
        /\ Uplink(c, p.arfcn) \in Nat /\ Downlink(c, p.arfcn) \in Nat
    BY <2>1, ShownChannel
  <2>3. c \in BandConfigs /\ RangesApart(c)
    BY <2>2, TableBands
  <2>4. \A f : (InUplink(r, f) <=> InUplink(c, f)) /\ (InDownlink(r, f) <=> InDownlink(c, f))
    <3>1. r = FrequencyRange(Table(t), b)
      BY <2>2, TableFunctions
    <3> QED
      BY <2>2, <3>1 DEF FrequencyRange, InUplink, InDownlink
  <2>5. \A f : InBand(c, f) => FrequencyToArfcn(Table(t), f, b) = ChannelOf(c, f)
    BY <2>2 DEF FrequencyToArfcn
  <2> HIDE DEF p, c, r, Back
  <2>6. ASSUME InUplink(r, p.uplinkFrequency) PROVE Back(p, p.uplinkFrequency) = p
    <3>1. InUplink(c, Uplink(c, p.arfcn)) /\ InBand(c, Uplink(c, p.arfcn))
      BY <2>2, <2>4, <2>6 DEF InBand
    <3>2. ChannelOf(c, Uplink(c, p.arfcn)) = p.arfcn
      BY <2>2, <2>3, <3>1, UplinkRoundTrips
    <3> QED
      BY <1>1, <2>1, <2>2, <2>5, <3>1, <3>2
  <2>7. ASSUME InDownlink(r, p.downlinkFrequency) PROVE Back(p, p.downlinkFrequency) = p
    <3>1. InDownlink(c, Downlink(c, p.arfcn)) /\ InBand(c, Downlink(c, p.arfcn))
      BY <2>2, <2>4, <2>7 DEF InBand
    <3>2. InUplink(c, Downlink(c, p.arfcn)) => c.uplinkStart = c.downlinkStart
      BY <2>2, <2>3, <3>1 DEF RangesApart, InUplink, InDownlink, BandConfigs
    <3>3. ChannelOf(c, Downlink(c, p.arfcn)) = p.arfcn
      BY <2>2, <2>3, <3>1, <3>2, DownlinkRoundTrips
    <3> QED
      BY <1>1, <2>1, <2>2, <2>5, <3>1, <3>3
  <2> QED
    BY <2>6, <2>7 DEF p, r
<1>3. FormConsistent /\ FormKinds => ChannelRoundTrips
  BY <1>2 DEF ChannelRoundTrips
<1> QED
  BY <1>3, FormAlwaysConsistent, KindsAlways, PTL

-----------------------------------------------------------------------------
(* A new configuration replaces the old one                                  *)

\* What updateTechnology makes of a form depends on three of its fields.
LEMMA UpdateTechnologyOf ==
  ASSUME NEW p, NEW q, p.technology = q.technology, p.band = q.band, p.arfcn = q.arfcn
  PROVE  updateTechnology(p) = updateTechnology(q)
<1>1. ASSUME NEW x, NEW y, x.technology = y.technology, x.band = y.band, x.arfcn = y.arfcn
      PROVE  updateBand(x) = updateBand(y) /\ availableBands(x) = availableBands(y) /\ NoBand(x) = NoBand(y)
  <2>1. NoBand(x) = NoBand(y) /\ NoFrequencies(x) = NoFrequencies(y) /\ availableBands(x) = availableBands(y)
    BY <1>1 DEF NoBand, NoFrequencies, availableBands
  <2>2. Conversion(x) = Conversion(y)
    BY <1>1 DEF Conversion
  <2>3. updateArfcn(x) = updateArfcn(y)
    BY <1>1, <2>1, <2>2 DEF updateArfcn, FilledIn
  <2> QED
    BY <1>1, <2>1, <2>3 DEF updateBand
<1> DEFINE t == IF p.technology = undefined /\ Supported # <<>> THEN Supported[1] ELSE p.technology
           Of(x) == BtsParams(t, x.band, x.arfcn, x.uplinkFrequency, x.downlinkFrequency)
<1>2. /\ Of(p).technology = Of(q).technology /\ Of(p).technology = t
      /\ Of(p).band = Of(q).band /\ Of(p).band = p.band
      /\ Of(p).arfcn = Of(q).arfcn
  BY FieldsOfParams
<1>3. /\ updateTechnology(p) = updateBand(IF t # undefined /\ p.band \notin availableBands(Of(p))
                                         THEN NoBand(Of(p)) ELSE Of(p))
      /\ updateTechnology(q) = updateBand(IF t # undefined /\ q.band \notin availableBands(Of(q))
                                         THEN NoBand(Of(q)) ELSE Of(q))
  BY DEF updateTechnology
<1> HIDE DEF Of, t
<1>4. /\ updateBand(Of(p)) = updateBand(Of(q))
      /\ availableBands(Of(p)) = availableBands(Of(q)) /\ NoBand(Of(p)) = NoBand(Of(q))
  BY <1>1, <1>2
<1>5. CASE t # undefined /\ p.band \notin availableBands(Of(p))
  <2>1. updateTechnology(p) = updateBand(NoBand(Of(p)))
    BY <1>3, <1>5
  <2>2. updateTechnology(q) = updateBand(NoBand(Of(q)))
    BY <1>3, <1>4, <1>5
  <2> QED
    BY <1>4, <2>1, <2>2
<1>6. CASE ~ (t # undefined /\ p.band \notin availableBands(Of(p)))
  BY <1>3, <1>4, <1>6
<1> QED
  BY <1>5, <1>6

\* A form is settled when the watchers find nothing to do.
Settled(p) == updateTechnology(p) = p /\ updateBand(p) = p /\ updateArfcn(p) = p

LEMMA ConsistentSettled ==
  ASSUME NEW p, Consistent(p), Kinds(p), p.technology = undefined => Supported = <<>>
  PROVE  Settled(p)
<1>1. updateArfcn(p) = p
  <2>1. CASE p.arfcn = undefined
    BY <2>1 DEF updateArfcn, FilledIn, Consistent
  <2>2. CASE p.arfcn # undefined
    <3>1. p.technology # undefined /\ p.band # undefined
      BY <2>2 DEF Consistent, availableBands
    <3>2. p = Conversion(p) /\ Conversion(p) # Thrown
      BY <2>2 DEF Consistent
    <3>3. PICK u, d : p = BtsParams(p.technology, p.band, p.arfcn, u, d)
      BY <2>2, <3>1, <3>2, ConversionShape
    <3>4. updateArfcn(p) = BtsParams(p.technology, p.band, p.arfcn, p.uplinkFrequency, p.downlinkFrequency)
      BY <2>2, <3>1, <3>2 DEF updateArfcn, FilledIn
    <3>5. p.uplinkFrequency = u /\ p.downlinkFrequency = d
      BY <3>3, FieldsOfParams
    <3> QED
      BY <3>3, <3>4, <3>5
  <2> QED BY <2>1, <2>2
<1>2. p.arfcn = undefined => NoChannel(p) = p /\ NoFrequencies(p) = p
  BY DEF Consistent, NoFrequencies, NoChannel
<1>3. p.arfcn # undefined => p.uplinkFrequency # undefined
  <2>1. p.arfcn # undefined => p.uplinkFrequency \in Nat
    BY ShownChannel
  <2> QED
    BY <2>1, RadioMarkers
<1>4. ChannelIfValid(p) = p
  BY <1>2, <1>3 DEF ChannelIfValid
<1>5. updateBand(p) = p
  <2>1. CASE p.technology = undefined \/ p.band = undefined
    <3>1. p.band = undefined /\ p.arfcn = undefined
      BY <2>1 DEF Consistent, availableBands
    <3>2. NoBand(p) = p
      BY <1>2, <3>1 DEF NoBand, NoFrequencies
    <3> QED
      BY <2>1, <3>2 DEF updateBand
  <2>2. CASE p.technology # undefined /\ p.band # undefined
    BY <1>1, <1>2, <1>4, <2>2 DEF updateBand
  <2> QED BY <2>1, <2>2
<1>6. updateTechnology(p) = p
  <2> DEFINE t == IF p.technology = undefined /\ Supported # <<>> THEN Supported[1] ELSE p.technology
             q == BtsParams(t, p.band, p.arfcn, p.uplinkFrequency, p.downlinkFrequency)
  <2>1. t = p.technology
    OBVIOUS
  <2>2. \E u, d : p = BtsParams(p.technology, p.band, p.arfcn, u, d)
    <3>1. CASE p.arfcn = undefined
      BY <1>2, <3>1 DEF NoFrequencies
    <3>2. CASE p.arfcn # undefined
      <4>1. p.technology # undefined /\ p.band # undefined /\ p = Conversion(p) /\ Conversion(p) # Thrown
        BY <3>2 DEF Consistent, availableBands
      <4> QED
        BY <3>2, <4>1, ConversionShape
    <3> QED BY <3>1, <3>2
  <2>3. q = p
    BY <2>1, <2>2, FieldsOfParams
  <2>4. CASE p.band # undefined \/ p.technology = undefined
    <3>1. p.technology # undefined => p.band \in availableBands(p)
      BY <2>4 DEF Consistent
    <3>2. updateTechnology(p) = updateBand(q)
      BY <2>1, <2>3, <3>1 DEF updateTechnology
    <3> QED
      BY <1>5, <2>3, <3>2
  <2>5. CASE p.band = undefined /\ p.technology # undefined
    <3>1. NoBand(p) = p
      BY <1>2, <2>5 DEF Consistent, NoBand, NoFrequencies
    <3>2. updateTechnology(p) = updateBand(p)
      BY <2>1, <2>3, <3>1 DEF updateTechnology
    <3> QED
      BY <1>5, <3>2
  <2> QED BY <2>4, <2>5
<1> QED
  BY <1>1, <1>5, <1>6 DEF Settled

\* updateTechnology settles the form, and the watchers leave it alone.
LEMMA UpdateTechnologySettles ==
  ASSUME NEW p, Kinds(p)
  PROVE  /\ updateTechnology(updateTechnology(p)) = updateTechnology(p)
         /\ \A old : Watched(old, updateTechnology(p)) = updateTechnology(p)
<1> DEFINE r == updateTechnology(p)
<1>1. Consistent(r) /\ Kinds(r)
  BY UpdateTechnologyConsistent, UpdateTechnologyKinds
<1>2. r.technology = undefined => Supported = <<>>
  <2> DEFINE t == IF p.technology = undefined /\ Supported # <<>> THEN Supported[1] ELSE p.technology
             q == BtsParams(t, p.band, p.arfcn, p.uplinkFrequency, p.downlinkFrequency)
             s == IF t # undefined /\ p.band \notin availableBands(q) THEN NoBand(q) ELSE q
  <2>1. t = undefined => Supported = <<>>
    <3>1. Supported # <<>> => Supported[1] \in RadioTechnology
      BY FormAssumption
    <3> QED
      BY <3>1, MarkersApart
  <2> HIDE DEF t
  <2>2. s.technology = t
    BY FieldsOfParams DEF NoBand
  <2>3. r = updateBand(s)
    BY DEF updateTechnology, t
  <2> HIDE DEF s
  <2>4. updateArfcn(s).technology = s.technology
    BY FieldsOfParams DEF updateArfcn, FilledIn, NoFrequencies
  <2>5. \A x : ChannelIfValid(x).technology = x.technology
    BY FieldsOfParams DEF ChannelIfValid, NoChannel
  <2>6. updateBand(s).technology = s.technology
    BY <2>4, <2>5, FieldsOfParams DEF updateBand, NoBand, NoFrequencies
  <2> HIDE DEF r
  <2> QED
    BY <2>1, <2>2, <2>3, <2>6
<1>3. Settled(r)
  BY <1>1, <1>2, ConsistentSettled
<1> HIDE DEF r
<1>4. updateTechnology(r) = r /\ \A old : Watched(old, r) = r
  BY <1>3 DEF Settled, Watched, TechnologyWatched, BandWatched, ArfcnWatched
<1> QED
  BY <1>4 DEF r

\* A configuration the page sets, if it names technology, band and channel, shows
\* as if the form had been made for it, whatever was edited before.
THEOREM GivenAlwaysShown == Spec => GivenShown
<1> DEFINE Whole(config) == {"technology", "band", "arfcn"} \subseteq DOMAIN config
<1>1. ASSUME NEW p, NEW config, Whole(config), Kinds(p), config # undefined, ConfigKinds(config)
      PROVE  /\ WithConfig(p, config) = updateTechnology(ObjectAssign(p, config))
             /\ Kinds(ObjectAssign(p, config))
             /\ ObjectAssign(p, config).technology = config["technology"]
             /\ ObjectAssign(p, config).band = config["band"]
             /\ ObjectAssign(p, config).arfcn = config["arfcn"]
  <2>1. Kinds(ObjectAssign(p, config))
    BY <1>1, ObjectAssignKinds
  <2>2. WithConfig(p, config) = updateTechnology(ObjectAssign(p, config))
    BY <1>1, <2>1, UpdateTechnologySettles DEF WithConfig
  <2> QED
    BY <1>1, <2>1, <2>2, FieldsOfParams DEF ObjectAssign, Field
<1>2. ASSUME NEW p, NEW config, Whole(config), Kinds(p), config # undefined, ConfigKinds(config)
      PROVE  WithConfig(p, config) = Mounted(config)
  <2> DEFINE q == ObjectAssign(defaultBtsParams, config)
  <2>1. Kinds(q)
    BY <1>2, DefaultKinds, ObjectAssignKinds
  <2>2. Mounted(config) = updateTechnology(WithConfig(q, config))
    BY <1>2 DEF Mounted
  <2> HIDE DEF q
  <2>3. WithConfig(q, config) = updateTechnology(ObjectAssign(q, config)) /\ Kinds(ObjectAssign(q, config))
    BY <1>1, <1>2, <2>1
  <2>4. Mounted(config) = updateTechnology(ObjectAssign(q, config))
    BY <2>2, <2>3, UpdateTechnologySettles
  <2>5. updateTechnology(ObjectAssign(q, config)) = updateTechnology(ObjectAssign(p, config))
    BY <1>1, <1>2, <2>1, UpdateTechnologyOf
  <2> QED
    BY <1>1, <1>2, <2>4, <2>5
<1>3. ASSUME FormKinds, [Next]_vars, bts' # bts, bts' # undefined, Whole(bts')
      PROVE  btsParams' = Mounted(bts')
  <2>1. PICK config \in Given : SetBts(config)
    BY <1>3 DEF Next, SelectTechnology, SelectBand, SelectArfcn, Edit, Submit, resetForm, vars
  <2>2. config = bts' /\ btsParams' = WithConfig(btsParams, config)
    BY <2>1 DEF SetBts
  <2>3. ConfigKinds(config) /\ Kinds(btsParams)
    BY <1>3, <2>2, FormAssumption DEF ConfigKinds, FormKinds
  <2>4. WithConfig(btsParams, config) = Mounted(config)
    BY <1>2, <1>3, <2>2, <2>3
  <2> QED
    BY <2>2, <2>4
<1>4. FormKinds /\ [Next]_vars
        => [(bts' # bts /\ bts' # undefined) =>
              ({"technology", "band", "arfcn"} \subseteq DOMAIN bts' => btsParams' = Mounted(bts'))]_vars
  BY <1>3
<1> QED
  BY <1>4, KindsAlways, PTL DEF Spec, GivenShown


===============================================================================
