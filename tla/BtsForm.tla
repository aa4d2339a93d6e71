------------------------------ MODULE BtsForm ------------------------------
(***************************************************************************)
(* The configuration form BtsConfig.vue and the page that uses it the way  *)
(* the package's README shows: the page gives the form a configuration as  *)
(* the prop bts, the form edits a copy of it (btsParams) and emits that    *)
(* copy on submit, and the page keeps what it is given.                    *)
(*                                                                         *)
(* Vue runs the watchers of one event before the next event is handled, so *)
(* an action is an event with all the watchers it sets off.  The form      *)
(* emits its reactive object itself, so after a submit the page's          *)
(* configuration IS btsParams (shared) until the page takes another one.   *)
(*                                                                         *)
(* The page's first configuration comes from configureARFCN, asked with    *)
(* one of Inputs.  channelBandwidth and all texts are left out.            *)
(***************************************************************************)
EXTENDS Radio

CONSTANTS Supported,     \* props.supportedTechnologies, in order
          Inputs,        \* what a page asks configureARFCN for
          Given,         \* configurations, possibly partial, a page may set later
          PickBands,     \* bounds the bands a user picks
          PickArfcns     \* bounds the channels a user picks

\* What the types of the properties and of configureARFCN's input say.  A band
\* may be any text, as the form checks it itself.
ASSUME FormAssumption ==
  /\ Supported \in Seq(RadioTechnology)
  /\ PickArfcns \subseteq Nat
  /\ Inputs \subseteq [arfcn : Nat \cup {undefined}, frequency : Nat \cup {undefined},
                      technology : RadioTechnology \cup {undefined}, band : STRING \cup {undefined}]
  /\ \A config \in Given \ {undefined} :
       /\ "technology" \in DOMAIN config => config.technology \in RadioTechnology \cup {undefined}
       /\ "arfcn" \in DOMAIN config => config.arfcn \in Nat \cup {undefined}

\* configureARFCN takes an empty band for none; here, none is undefined.
ASSUME NoEmptyBand == \A input \in Inputs : input.band # ""

VARIABLES btsParams,     \* the form's fields
          bts,           \* the page's configuration, undefined if it has none
          shared,        \* the page's configuration is the form's own object
          asked          \* history: the input bts was computed from, or undefined

vars == <<btsParams, bts, shared, asked>>

-----------------------------------------------------------------------------
(* The form's fields follow one another: technology, band, channel. *)

BtsParams(t, b, n, up, down) == ARFCNConfig(n, t, b, up, down)

defaultBtsParams == BtsParams(undefined, undefined, undefined, undefined, undefined)

Field(config, k, old) == IF k \in DOMAIN config THEN config[k] ELSE old[k]

\* Object.assign: a field the configuration does not have keeps its value.
ObjectAssign(old, config) ==
  BtsParams(Field(config, "technology", old), Field(config, "band", old), Field(config, "arfcn", old),
            Field(config, "uplinkFrequency", old), Field(config, "downlinkFrequency", old))

props_bts == IF shared THEN btsParams ELSE bts

availableBands(p) == IF p.technology = undefined THEN {} ELSE ToSet(getSupportedBands(p.technology))

availableArfcns(p) ==
  IF p.technology = undefined \/ p.band = undefined THEN {}
  ELSE LET r == getBandArfcnRange(p.technology, p.band)
       IN  IF r = undefined THEN {} ELSE r.arfcnStart .. r.arfcnEnd

NoFrequencies(p) == BtsParams(p.technology, p.band, p.arfcn, undefined, undefined)
NoChannel(p)     == BtsParams(p.technology, p.band, undefined, undefined, undefined)
NoBand(p)        == BtsParams(p.technology, undefined, undefined, undefined, undefined)

Conversion(p) == configureARFCN([arfcn |-> p.arfcn, frequency |-> undefined,
                                 technology |-> p.technology, band |-> p.band])

FilledIn(p, config) ==
  IF config = Thrown THEN NoFrequencies(p)
  ELSE BtsParams(p.technology, p.band, p.arfcn, config.uplinkFrequency, config.downlinkFrequency)

updateArfcn(p) ==
  FilledIn(p, IF undefined \in {p.technology, p.band} \/ p.arfcn = undefined
              THEN Thrown ELSE Conversion(p))

\* Mutant of updateBand: keeps a channel the band does not have.
updateBandKeepsChannel(p) ==
  IF undefined \in {p.technology, p.band} THEN NoBand(p)
  ELSE IF p.arfcn = undefined THEN NoFrequencies(p) ELSE updateArfcn(p)

ChannelIfValid(q) ==
  IF q.uplinkFrequency = undefined /\ q.downlinkFrequency = undefined THEN NoChannel(q) ELSE q

updateBand(p) ==
  IF undefined \in {p.technology, p.band} THEN NoBand(p)
  ELSE ChannelIfValid(IF p.arfcn = undefined THEN NoFrequencies(p) ELSE updateArfcn(p))

\* Mutant of updateTechnology: keeps a band the technology does not have.
updateTechnologyKeepsBand(p) ==
  LET t == IF p.technology = undefined /\ Supported # <<>> THEN Supported[1] ELSE p.technology
  IN  updateBand(BtsParams(t, p.band, p.arfcn, p.uplinkFrequency, p.downlinkFrequency))

\* A band the technology does not have is dropped, and with it the channel.
updateTechnology(p) ==
  LET t == IF p.technology = undefined /\ Supported # <<>> THEN Supported[1] ELSE p.technology
      q == BtsParams(t, p.band, p.arfcn, p.uplinkFrequency, p.downlinkFrequency)
  IN  updateBand(IF t # undefined /\ p.band \notin availableBands(q) THEN NoBand(q) ELSE q)

\* The three watchers, in the order they are set up, each if its field changed.
TechnologyWatched(old, p) == IF p.technology # old.technology THEN updateTechnology(p) ELSE p
BandWatched(old, p)       == IF p.band # old.band THEN updateBand(p) ELSE p
ArfcnWatched(old, p)      == IF p.arfcn # old.arfcn THEN updateArfcn(p) ELSE p

Watched(old, p) == ArfcnWatched(old, BandWatched(old, TechnologyWatched(old, p)))

\* Mutant of WithConfig: does not overwrite what the user chose.
WithConfigUnlessEdited(p, config) ==
  IF config = undefined \/ p.arfcn # undefined THEN p
  ELSE Watched(p, updateTechnology(ObjectAssign(p, config)))

\* The form after its prop changed to config: absent fields keep their value.
WithConfig(p, config) ==
  IF config = undefined THEN p ELSE Watched(p, updateTechnology(ObjectAssign(p, config)))

Mounted(config) == updateTechnology(WithConfig(
                     IF config = undefined THEN defaultBtsParams
                     ELSE ObjectAssign(defaultBtsParams, config), config))

-----------------------------------------------------------------------------
(* Events *)

Init ==
  /\ asked \in Inputs
  /\ bts = (IF configureARFCN(asked) = Thrown THEN undefined ELSE configureARFCN(asked))
  /\ btsParams = Mounted(bts)
  /\ shared = FALSE

Edit(p) == btsParams' = Watched(btsParams, p) /\ UNCHANGED <<bts, shared, asked>>

SelectTechnology(t) ==
  /\ Len(Supported) > 1
  /\ Edit(BtsParams(t, btsParams.band, btsParams.arfcn,
                    btsParams.uplinkFrequency, btsParams.downlinkFrequency))

SelectBand(b) ==
  /\ b \in availableBands(btsParams)
  /\ Edit(BtsParams(btsParams.technology, b, btsParams.arfcn,
                    btsParams.uplinkFrequency, btsParams.downlinkFrequency))

SelectArfcn(n) ==
  /\ n \in availableArfcns(btsParams)
  /\ Edit(BtsParams(btsParams.technology, btsParams.band, n,
                    btsParams.uplinkFrequency, btsParams.downlinkFrequency))

\* handleSubmit emits btsParams and the page assigns it.  The form's watcher
\* on the prop then copies the object onto itself.
Submit ==
  /\ shared' = TRUE
  /\ bts' = undefined
  /\ asked' = undefined
  /\ btsParams' = updateTechnology(btsParams)

resetForm ==
  /\ btsParams' = LET p == IF props_bts = undefined THEN defaultBtsParams
                           ELSE ObjectAssign(defaultBtsParams, props_bts)
                  IN  Watched(btsParams, updateTechnology(p))
  /\ UNCHANGED <<bts, shared, asked>>

\* The page takes another configuration, or none.
SetBts(config) ==
  /\ bts' = config
  /\ shared' = FALSE
  /\ asked' = undefined
  /\ btsParams' = WithConfig(btsParams, config)

Next ==
  \/ \E t \in ToSet(Supported) : SelectTechnology(t)
  \/ \E b \in PickBands : SelectBand(b)
  \/ \E n \in PickArfcns : SelectArfcn(n)
  \/ Submit
  \/ resetForm
  \/ \E config \in Given : SetBts(config)

Spec == Init /\ [][Next]_vars

-----------------------------------------------------------------------------
(* Properties *)

\* Every field of the form holds a value of its kind or is undefined; a band is one
\* of the tables', whatever text a configuration of the page has for it.
FormTypeOK ==
  /\ shared \in BOOLEAN
  /\ btsParams.technology \in RadioTechnology \cup {undefined}
  /\ btsParams.band \in ToSet(GSMBand) \cup ToSet(LTEBand) \cup ToSet(NRBand) \cup {undefined}
  /\ \A k \in {"arfcn", "uplinkFrequency", "downlinkFrequency"} :
       btsParams[k] # undefined => btsParams[k] \in Nat

\* A band of the technology, a channel of the band and exactly its frequencies.
Consistent(p) ==
  /\ p.band # undefined => p.band \in availableBands(p)
  /\ p.arfcn # undefined => p.band # undefined /\ Conversion(p) # Thrown /\ p = Conversion(p)
  /\ p.arfcn = undefined => p = NoFrequencies(p)

\* Whatever was selected, given, reset or submitted, and in whatever order, the
\* form offers a band of its technology, a channel of its band, and the two
\* frequencies of exactly that channel; without a channel it shows none.
FormConsistent == Consistent(btsParams)

\* Whatever was edited before, a configuration of the page that names technology,
\* band and channel replaces it: nothing of the old channel shows through.
GivenShown ==
  [][(bts' # bts /\ bts' # undefined) =>
       ({"technology", "band", "arfcn"} \subseteq DOMAIN bts' => btsParams' = Mounted(bts'))]_vars

\* The answer of configureARFCN for a frequency: the first band of the technology
\* that holds it, and a channel one of whose frequencies is at most half a
\* spacing away, as the README promises of the normalised frequency.
NearestChannel ==
  (asked # undefined /\ asked.arfcn = undefined /\ bts # undefined) =>
    LET f == asked.frequency
        c == [GSM |-> GSM_BANDS, LTE |-> LTE_BANDS, NR |-> NR_BANDS][bts.technology][bts.band]
    IN  /\ InBand(c, f)
        /\ asked.band = undefined =>
             \A i \in 1 .. Len(getSupportedBands(bts.technology)) :
               LET b == getSupportedBands(bts.technology)[i]
                   r == getBandFrequencyRange(bts.technology, b)
               IN  InBand(r, f) => \E j \in 1 .. i : getSupportedBands(bts.technology)[j] = bts.band
        /\ InArfcns(c, bts.arfcn)
        /\ \E g \in {bts.uplinkFrequency, bts.downlinkFrequency} :
             2 * (g - f) \in -c.spacing .. c.spacing

\* A channel whose frequencies lie in its band's ranges survives the way there and
\* back: asking for either frequency gives the same configuration again.  (The NR
\* tables, and B32's, list channels beyond the range, which do not.)
ChannelRoundTrips ==
  LET r == getBandFrequencyRange(btsParams.technology, btsParams.band)
      Back(f) == configureARFCN([arfcn |-> undefined, frequency |-> f,
                                 technology |-> btsParams.technology, band |-> btsParams.band])
  IN  btsParams.arfcn # undefined =>
        /\ InUplink(r, btsParams.uplinkFrequency) => Back(btsParams.uplinkFrequency) = btsParams
        /\ InDownlink(r, btsParams.downlinkFrequency) => Back(btsParams.downlinkFrequency) = btsParams

=============================================================================
