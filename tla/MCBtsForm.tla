----------------------------- MODULE MCBtsForm -----------------------------
(* All bands with their edge channels and frequencies as inputs; a user    *)
(* who picks among bands that share channel numbers.                       *)
EXTENDS BtsForm

Ask(t, b, n, f) == [arfcn |-> n, frequency |-> f, technology |-> t, band |-> b]

BandPairs == {<<t, b>> \in RadioTechnology \X
                 (ToSet(GSMBand) \cup ToSet(LTEBand) \cup ToSet(NRBand)) :
                 b \in ToSet(getSupportedBands(t))}

EdgeChannels(t, b) == LET r == getBandArfcnRange(t, b)
                      IN  {r.arfcnStart, r.arfcnStart + 1, r.arfcnEnd}

EdgeFrequencies(t, b) ==
  LET r == getBandFrequencyRange(t, b)
  IN  {r.uplinkStart - 1, r.uplinkStart, r.uplinkStart + 7, r.uplinkStart + 8, r.uplinkEnd - 99,
       r.uplinkEnd, r.downlinkStart, r.downlinkStart + 50, r.downlinkEnd - 200, r.downlinkEnd + 1}

AllInputs ==
  UNION {{Ask(p[1], p[2], n, undefined) : n \in EdgeChannels(p[1], p[2])} : p \in BandPairs}
    \cup UNION {{Ask(p[1], u, undefined, f) :
                 f \in EdgeFrequencies(p[1], p[2]), u \in {p[2], undefined}} : p \in BandPairs}
    \cup UNION {{Ask(undefined, undefined, undefined, f) :
                 f \in EdgeFrequencies(p[1], p[2])} : p \in BandPairs}
    \cup {Ask(t, undefined, n, undefined) :
            t \in RadioTechnology \cup {undefined}, n \in {0, 124, 512, 900, 1023, 370000, 9999999}}
    \cup {Ask("GSM", "GSM900", n, f) : n \in {10, 200}, f \in {895000, 2000000}}

SomeGiven == {undefined,
              [technology |-> "GSM"],
              [technology |-> "GSM", band |-> "B7"],
              [technology |-> "GSM", band |-> "GSM900R", arfcn |-> 10],
              [technology |-> "GSM", band |-> "GSM900", arfcn |-> 100],
              [technology |-> "NR", band |-> "B3", arfcn |-> 1300]}

SomeBands  == {"GSM900", "DCS1800", "PCS1900", "B1"}
SomeArfcns == {0, 124, 600, 885}
SomeTechnologies == <<"GSM", "LTE">>
=============================================================================
