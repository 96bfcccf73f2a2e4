------------------------------ MODULE Conversions ------------------------------
(***************************************************************************)
(* The driver's pure conversions: the health-check code mapping of load   *)
(* balancers and the grouping of monitoring datapoints into metrics.       *)
(*                                                                         *)
(* ToOnecloudHealthCode (loadbalancer.go): the target group's Matcher      *)
(* HttpCode, such as "200,302" or "200-399", mapped to the health-check    *)
(* code classes http_2xx, http_3xx, http_4xx.  The string is split on ","  *)
(* into segments and each segment on "-" into codes; a code that does not  *)
(* parse is 0 (strconv.Atoi's result on error).  An input here is that    *)
(* split: a sequence of segments, each a sequence of parsed codes.  The    *)
(* result is the list strings.Join puts together, as a sequence.           *)
(***************************************************************************)
EXTENDS Integers, Sequences, SequencesExt

CONSTANTS
    CodeVals,       \* parsed codes, 0 for an unparsable one
    MaxSegs,        \* segments in an input
    MaxCodes,       \* codes in a segment
    ResourceIds,    \* monitored resources
    Averages,       \* datapoint Average values
    MaxPages,       \* GetResourceStatistics pages
    MaxPoints       \* datapoints in a page

Classes == {"2xx", "3xx", "4xx"}

Segments == UNION {[1..n -> CodeVals] : n \in 1..MaxCodes}
Inputs == UNION {[1..n -> Segments] : n \in 1..MaxSegs}

\* Mutant: the 3xx test comes before the 4xx test.
AddCode300First(ret, c) ==
    IF c >= 300 /\ ~Contains(ret, "3xx") THEN Append(ret, "3xx")
    ELSE IF c >= 400 /\ ~Contains(ret, "4xx") THEN Append(ret, "4xx")
    ELSE IF c >= 200 /\ ~Contains(ret, "2xx") THEN Append(ret, "2xx")
    ELSE ret

\* Mutant: codes from 500 up get a class of their own.
AddCode5xx(ret, c) ==
    IF c >= 500 /\ ~Contains(ret, "5xx") THEN Append(ret, "5xx")
    ELSE IF c >= 400 /\ ~Contains(ret, "4xx") THEN Append(ret, "4xx")
    ELSE IF c >= 300 /\ ~Contains(ret, "3xx") THEN Append(ret, "3xx")
    ELSE IF c >= 200 /\ ~Contains(ret, "2xx") THEN Append(ret, "2xx")
    ELSE ret

\* One code of the inner loop: the first class test that holds and whose
\* class is not yet in the list appends that class.
AddCode(ret, c) ==
    IF c >= 400 /\ ~Contains(ret, "4xx") THEN Append(ret, "4xx")
    ELSE IF c >= 300 /\ ~Contains(ret, "3xx") THEN Append(ret, "3xx")
    ELSE IF c >= 200 /\ ~Contains(ret, "2xx") THEN Append(ret, "2xx")
    ELSE ret

\* One segment: its codes, then, for a "min-max" range from 2xx or above
\* up to 4xx or above, the 3xx class in between.
AddSegment(ret, codes) ==
    LET r == FoldLeft(AddCode, ret, codes) IN
    IF Len(codes) = 2 /\ codes[1] >= 200 /\ codes[2] >= 400 /\ ~Contains(r, "3xx")
    THEN Append(r, "3xx")
    ELSE r

ToOnecloudHealthCode(segs) == FoldLeft(AddSegment, <<>>, segs)

-----------------------------------------------------------------------------
(* Reference: the classes a matcher accepts.  A code's class is the       *)
(* interval it falls in, 4xx for everything from 400 up as the code has    *)
(* it; a "min-max" segment accepts every code in between as well.          *)

ClassOf(c) == IF c >= 400 THEN {"4xx"} ELSE IF c >= 300 THEN {"3xx"}
              ELSE IF c >= 200 THEN {"2xx"} ELSE {}

Lower == [k \in Classes |-> CASE k = "2xx" -> 200 [] k = "3xx" -> 300
                                 [] k = "4xx" -> 400]

SpanOf(codes) ==
    IF Len(codes) = 2 /\ codes[1] >= 200
    THEN {k \in Classes : Lower[k] <= codes[2] /\ codes[1] < Lower[k] + 100}
    ELSE {}

SegmentAccepts(codes) ==
    UNION {ClassOf(codes[j]) : j \in DOMAIN codes} \cup SpanOf(codes)

Accepted(segs) == UNION {SegmentAccepts(segs[i]) : i \in DOMAIN segs}

-----------------------------------------------------------------------------
(* Monitoring (monitor.go).  GetResourceStatistics pages through           *)
(* GetResourceStatistics with NextToken; GetMetrics maps each datapoint's  *)
(* MetricName to a metric type through the resource type's map, skips the  *)
(* unmapped ones, and groups the values per resource and metric type in    *)
(* the order the groups first appear.  A datapoint keeps the fields        *)
(* GetMetrics reads but the Timestamp; a value is its Average.  Metric     *)
(* types are named by short strings.                                       *)

ResourceTypes == {"server", "host", "lb"}
MetricNames == {"CPUUtilization", "DiskUsage", "RequestCount"}

\* metricsMap restricted to MetricNames: vmMetricsMap, hostMetricsMap, lbMetricsMap.
MetricsMap ==
    [rt \in ResourceTypes |->
        CASE rt = "server" -> [n \in {"CPUUtilization", "DiskUsage"} |->
                                  IF n = "CPUUtilization" THEN "vm_cpu" ELSE "vm_disk"]
          [] rt = "host"   -> [n \in {"CPUUtilization"} |-> "host_cpu"]
          [] rt = "lb"     -> [n \in {"RequestCount"} |-> "lb_conn"]]

\* A Go map lookup: the zero value "" for a name the map lacks.
MetricType(rt, n) == IF n \in DOMAIN MetricsMap[rt] THEN MetricsMap[rt][n] ELSE ""

Datapoint == [ResourceId : ResourceIds, MetricName : MetricNames, Average : Averages]
Page == UNION {[1..n -> Datapoint] : n \in 0..MaxPoints}
StatInputs == [rt : ResourceTypes, pages : UNION {[1..n -> Page] : n \in 1..MaxPages}]

\* Mutant: each page's datapoints replace those collected so far.
GetResourceStatisticsLastPage(pages) ==
    IF pages = <<>> THEN <<>> ELSE pages[Len(pages)]

\* The loop of GetResourceStatistics over the pages the cloud returns until
\* an empty NextToken: each page's Datapoints are appended to the result.
GetResourceStatistics(pages) == FoldLeft(LAMBDA ret, page : ret \o page, <<>>, pages)

\* GetMetrics over the datapoints: the resources map finds the MetricValues
\* of the datapoint's resource and type, or a new one is appended to ret.
GetMetrics(rt, data) ==
    LET Add(ret, m) ==
          LET t == MetricType(rt, m.MetricName)
              i == SelectInSeq(ret, LAMBDA x : x.Id = m.ResourceId /\ x.MetricType = t)
          IN  IF t = "" THEN ret
              ELSE IF i # 0 THEN [ret EXCEPT ![i].Values = Append(@, m.Average)]
              ELSE Append(ret, [Id |-> m.ResourceId, MetricType |-> t, Values |-> <<m.Average>>])
    IN  FoldLeft(Add, <<>>, data)

Metrics(in) == GetMetrics(in.rt, GetResourceStatistics(in.pages))

\* Reference: every datapoint of every page, in order, and the values of
\* one resource and metric type among them.
AllPoints(in) == FlattenSeq(in.pages)
Series(in, id, t) ==
    LET pts == SelectSeq(AllPoints(in),
                         LAMBDA p : p.ResourceId = id /\ MetricType(in.rt, p.MetricName) = t)
    IN  [k \in DOMAIN pts |-> pts[k].Average]
MappedPairs(in) ==
    {<<p.ResourceId, MetricType(in.rt, p.MetricName)>> :
        p \in {q \in ToSet(AllPoints(in)) : MetricType(in.rt, q.MetricName) # ""}}

-----------------------------------------------------------------------------
(* The response normalizer setItemToArray (bingo.go).  A JSON node is a   *)
(* string, an object (a function from field names) or an array.  The loop *)
(* over an object ranges over objDict.Value(), a Go map: its order is      *)
(* random, and the values it yields are those of the object before the    *)
(* loop, while Set and Remove change the object itself.  The result is    *)
(* therefore a set of outcomes, one per order of every object's fields.    *)

Str(v) == [t |-> "str", v |-> v]
Obj(f) == [t |-> "obj", f |-> f]
Arr(s) == [t |-> "arr", s |-> s]
NoFields == [k \in {} |-> k]

IsEmptyStr(x) == x.t = "str" /\ x.v = ""
IsWrapper(x) == x.t = "obj" /\ ({"item", "member"} \cap DOMAIN x.f) # {}
ItemOf(w) == IF "item" \in DOMAIN w.f THEN w.f["item"] ELSE w.f["member"]
TokenKeys == {"nextToken", "NextToken"}

Put(d, k, x) == (k :> x) @@ d
Drop(d, k) == Restrict(d, DOMAIN d \ {k})

\* The choices of one element from each set of a sequence of sets.
PickEach(ss) == {s \in [DOMAIN ss -> UNION {ss[i] : i \in DOMAIN ss}] :
                   \A i \in DOMAIN ss : s[i] \in ss[i]}

\* Mutant: only NextToken, not nextToken, is copied up.
LiftCapitalOnly(acc, w) ==
    LET ks == {nk \in {"NextToken"} \cap DOMAIN w.f : ~IsEmptyStr(w.f[nk])}
    IN  [i \in DOMAIN acc \cup ks |-> IF i \in ks THEN w.f[i] ELSE acc[i]]

\* The nextToken / NextToken of the wrapper w, when non-empty, set in the parent.
Lift(acc, w) ==
    LET ks == {nk \in TokenKeys \cap DOMAIN w.f : ~IsEmptyStr(w.f[nk])}
    IN  [i \in DOMAIN acc \cup ks |-> IF i \in ks THEN w.f[i] ELSE acc[i]]

RECURSIVE Norms(_), Visit(_, _, _), VisitNoWrap(_, _, _)

\* Mutant: a single item is stored as it is, not wrapped in an array.
VisitNoWrap(orig, acc, k) ==
    LET v == orig[k] IN
    CASE IsEmptyStr(v) -> {Drop(acc, k)}
      [] IsWrapper(v)   -> {Lift(Put(acc, k, n), v) : n \in Norms(ItemOf(v))}
      [] v.t # "str"    -> {Put(acc, k, n) : n \in Norms(v)}
      [] OTHER          -> {acc}

(* One field k of the loop, acc being the object so far and orig the      *)
(* object before the loop: an empty string is removed; an object holding *)
(* item or member is replaced by its item, normalized and, unless it is   *)
(* an array already or the field is instancesSet, wrapped in an array,   *)
(* and its tokens are copied up; another object or an array is           *)
(* normalized in place.                                                  *)
Visit(orig, acc, k) ==
    LET v == orig[k] IN
    CASE IsEmptyStr(v) -> {Drop(acc, k)}
      [] IsWrapper(v)   ->
            {Lift(Put(acc, k, IF ItemOf(v).t # "arr" /\ k # "instancesSet"
                              THEN Arr(<<n>>) ELSE n), v) : n \in Norms(ItemOf(v))}
      [] v.t # "str"    -> {Put(acc, k, n) : n \in Norms(v)}
      [] OTHER          -> {acc}

\* setItemToArray: the field loop of an object in each order, the
\* elements of an array one by one; a string is returned as it is.
Norms(x) ==
    CASE x.t = "obj" ->
            {Obj(f) : f \in UNION {FoldLeft(LAMBDA accs, k : UNION {Visit(x.f, a, k) : a \in accs},
                                             {x.f}, ord) : ord \in SetToSeqs(DOMAIN x.f)}}
      [] x.t = "arr" -> {Arr(s) : s \in PickEach([i \in DOMAIN x.s |-> Norms(x.s[i])])}
      [] OTHER       -> {x}

\* The items of a wrapper, one or many.
ItemsOf(w) == IF ItemOf(w).t = "arr" THEN ItemOf(w).s ELSE <<ItemOf(w)>>

-----------------------------------------------------------------------------
(* The signer (bingo.go sign, as invoke calls it).  invoke builds the     *)
(* query as Action, the caller's params in the map's random order, then  *)
(* Timestamp, AWSAccessKeyId, Version, SignatureVersion and              *)
(* SignatureMethod; sign splits it on "&" and sort.Slice orders the      *)
(* items by the name before "=".  sort.Slice is not stable: items of one *)
(* name may come out in any order.  Each item is a <<name, value>> pair; *)
(* the string to sign is the sorted sequence after a fixed prefix, and   *)
(* HMAC and base64 are functions of it.  Names are ordered as Go orders  *)
(* their bytes.                                                          *)

GoOrder == <<"AWSAccessKeyId", "Action", "Filter.1.Name", "Filter.1.Value.1",
             "MaxRecords", "NextToken", "SignatureMethod", "SignatureVersion",
             "Timestamp", "Version">>
ParamKeys == {"Filter.1.Name", "Filter.1.Value.1", "MaxRecords", "NextToken"}
Params == UNION {[D -> {"1", "2"}] : D \in SUBSET ParamKeys}

Query(params, ord) ==
    <<<<"Action", "act">>>>
    \o [i \in DOMAIN ord |-> <<ord[i], params[ord[i]]>>]
    \o <<<<"Timestamp", "ts">>, <<"AWSAccessKeyId", "ak">>, <<"Version", "2009-08-15">>,
         <<"SignatureVersion", "2">>, <<"SignatureMethod", "HmacSHA256">>>>

\* Mutant: the items are signed in the order the query has them.
SortedNone(items) == {items}

\* The outcomes of sort.Slice by name: name by name in Go's order, the
\* items of one name in any order.
Sorted(items) ==
    FoldLeft(LAMBDA outs, k : {o \o g : o \in outs,
                                        g \in SetToSeqs({it \in ToSet(items) : it[1] = k})},
             {<<>>}, GoOrder)

-----------------------------------------------------------------------------
(* TLC enumerates the inputs as initial states: a matcher, the           *)
(* statistics of a resource type, a DescribeXxx response, or the params   *)
(* of a call, the others left empty.  A response is an object of up to    *)
(* one collection (volumeSet or instancesSet) in an item or member       *)
(* wrapper with one or two items and maybe its own nextToken, the        *)
(* parent's nextToken and a plain field; an item is a string (maybe      *)
(* empty), an object with a field, or an object with a collection of its  *)
(* own.                                                                  *)

Leaves == {Str("v"), Str("")}
Elems == Leaves \cup {Obj([a |-> l]) : l \in Leaves}
                \cup {Obj([volumeSet |-> Obj([item |-> Str("v")])])}
TokenFields == {NoFields, "nextToken" :> Str("t"), "nextToken" :> Str("")}
Wrappers ==
    {Obj((w :> iv) @@ tk) : w \in {"item", "member"},
                            iv \in Elems \cup {Arr(<<e1, e2>>) : e1, e2 \in Elems},
                            tk \in TokenFields}
Responses ==
    {Obj((c :> w) @@ tk @@ pf) : c \in {"volumeSet", "instancesSet"}, w \in Wrappers,
                                 tk \in TokenFields,
                                 pf \in {NoFields} \cup {"a" :> l : l \in Leaves}}

-----------------------------------------------------------------------------
(* Backend ids (loadbalancer_backend_group.go).  genElbBackendId joins the *)
(* target group id, the target id and the port with "::"; GetELbBackend    *)
(* takes such an id apart with parseElbBackendId.  A string is a sequence  *)
(* of characters; the ids are drawn from "a" and ":", the character the    *)
(* separator is made of and one that is not.                               *)

Sep == <<":", ":">>
DigitChars == <<"0", "1", "2", "3", "4", "5", "6", "7", "8", "9">>
HasSep(s) == Sep \in SubSeqs(s)

\* strconv.Itoa of a port.
RECURSIVE Itoa(_)
Itoa(n) == IF n < 10 THEN <<DigitChars[n + 1]>>
                     ELSE Itoa(n \div 10) \o <<DigitChars[(n % 10) + 1]>>

\* strconv.Atoi: it succeeds on a non-empty run of digits (no id character
\* is a sign).
AtoiOk(s) == Len(s) > 0 /\ \A i \in DOMAIN s : Contains(DigitChars, s[i])
Atoi(s) == FoldLeft(LAMBDA v, c : 10 * v + CHOOSE d \in 0..9 : DigitChars[d + 1] = c,
                    0, s)

\* Mutant: the search for the next separator starts one character early.
RECURSIVE SplitOverlapping(_)
SplitOverlapping(s) ==
    IF ~HasSep(s) THEN <<s>>
    ELSE LET i == IndexFirstSubSeq(Sep, s)
         IN <<SubSeq(s, 1, i - 1)>> \o SplitOverlapping(SubSeq(s, i + 1, Len(s)))

\* strings.Split(s, "::"): the pieces between the leftmost non-overlapping
\* occurrences of the separator.
RECURSIVE Split(_)
Split(s) ==
    IF ~HasSep(s) THEN <<s>>
    ELSE LET i == IndexFirstSubSeq(Sep, s)
         IN <<SubSeq(s, 1, i - 1)>> \o Split(SubSeq(s, i + 2, Len(s)))

GenElbBackendId(g, t, port) == g \o Sep \o t \o Sep \o Itoa(port)

\* Three pieces, the third a number, or an error with empty parts.
ParseElbBackendId(id) ==
    LET segs == Split(id) IN
    IF Len(segs) = 3 /\ AtoiOk(segs[3])
    THEN [ok |-> TRUE, g |-> segs[1], t |-> segs[2], port |-> Atoi(segs[3])]
    ELSE [ok |-> FALSE, g |-> <<>>, t |-> <<>>, port |-> 0]

IdStrings == BoundedSeq({"a", ":"}, 3)
BackendIds == [g : IdStrings, t : IdStrings, port : {0, 80, 443}]
NoBackendId == [g |-> <<>>, t |-> <<>>, port |-> 0]

-----------------------------------------------------------------------------
(* Target group attributes (loadbalancer_backend_group.go).               *)
(* GetElbBackendGroupAttributes turns the key/value list of               *)
(* DescribeTargetGroupAttributes into a map, a later pair overwriting an  *)
(* earlier one; GetStickySession reads the session settings from it.      *)
(* Values are strings as character sequences ("t" and "f" stand for       *)
(* "true" and "false").                                                   *)

EnabledKey == "stickiness.enabled"
DurationKey == "stickiness.lb_cookie.duration_seconds"

AttrMap(list) == FoldLeft(LAMBDA m, a : Put(m, a.Key, a.Value), NoFields, list)

\* A Go map read: the zero value "" for a missing key.
MapGet(m, key) == IF key \in DOMAIN m THEN m[key] ELSE <<>>

\* strconv.Atoi's value, 0 with its error.
AtoiGo(s) == IF AtoiOk(s) THEN Atoi(s) ELSE 0

\* The timeout is parsed only when the duration key is missing (!ok).
GetStickySession(list) ==
    LET attrs == AttrMap(list)
        cookieTime == IF DurationKey \notin DOMAIN attrs
                      THEN AtoiGo(MapGet(attrs, DurationKey)) ELSE 0
    IN [StickySession |-> MapGet(attrs, EnabledKey),
        StickySessionCookie |-> <<>>,
        StickySessionType |-> "insert",
        StickySessionCookieTimeout |-> cookieTime]

AttrLists == BoundedSeq([Key : {EnabledKey, DurationKey},
                         Value : {<<"t">>, <<"f">>, <<"0">>, <<"6", "0">>}], 2)

-----------------------------------------------------------------------------
(* Target group creation and read-back (loadbalancer.go,                 *)
(* loadbalancer_backend_group.go).  CreateElbBackendGroup sends the        *)
(* options as CreateTargetGroup parameters; the cloud keeps each in the    *)
(* SElbBackendGroup field of the same name, parsing numbers and "true";    *)
(* GetProtocolType, GetHealthCheck and GetSysTags read the group back.     *)
(* The api constants are not in this tree and appear under their Go        *)
(* names; LB_LISTENER_TYPE_* are the lower-case protocol names.            *)

LowerChars == <<"c", "d", "h", "l", "p", "s", "t", "u", "_">>
UpperChars == <<"C", "D", "H", "L", "P", "S", "T", "U", "_">>

\* strings.ToUpper and strings.ToLower over these characters.
MapChars(s, from, to) ==
    [i \in DOMAIN s |-> IF Contains(from, s[i]) THEN to[CHOOSE j \in DOMAIN from : from[j] = s[i]] ELSE s[i]]
ToUpper(s) == MapChars(s, LowerChars, UpperChars)
ToLower(s) == MapChars(s, UpperChars, LowerChars)

Tcp == <<"t", "c", "p">>
Udp == <<"u", "d", "p">>
Http == <<"h", "t", "t", "p">>
Https == <<"h", "t", "t", "p", "s">>
TcpUdp == Tcp \o <<"_">> \o Udp

\* fmt.Sprintf("%v", b) of a bool, and the cloud's reading of it.
FmtBool(b) == IF b THEN <<"t", "r", "u", "e">> ELSE <<"f", "a", "l", "s", "e">>

(* CreateElbBackendGroup's params: the health-check settings only when    *)
(* the health check is enabled.                                           *)
CreateParams(o) ==
    LET base == ("Protocol" :> ToUpper(o.Protocol)) @@ ("Name" :> o.Name)
                @@ ("Port" :> Itoa(o.ListenPort)) @@ ("TargetType" :> o.TargetType)
                @@ ("VpcId" :> o.VpcId)
                @@ ("HealthCheckEnabled" :> FmtBool(o.HealthCheckEnabled))
        hc == ("HealthCheckIntervalSeconds" :> Itoa(o.HealthCheckIntervalSeconds))
              @@ ("HealthCheckPath" :> o.HealthCheckPath)
              @@ ("HealthCheckProtocol" :> ToUpper(o.HealthCheckProtocol))
              @@ ("HealthCheckTimeoutSeconds" :> Itoa(o.HealthCheckTimeoutSeconds))
              @@ ("HealthyThresholdCount" :> Itoa(o.HealthyThresholdCount))
              @@ ("UnhealthyThresholdCount" :> Itoa(o.UnhealthyThresholdCount))
    IN IF o.HealthCheckEnabled THEN base @@ hc ELSE base

NumFields == {"Port", "HealthCheckIntervalSeconds", "HealthCheckTimeoutSeconds",
              "HealthyThresholdCount", "UnhealthyThresholdCount"}

\* The group the cloud returns: a sent parameter in its field, an absent
\* one at the cloud's default dflt.
Stored(p, dflt) ==
    [f \in DOMAIN dflt |->
        IF f \notin DOMAIN p THEN dflt[f]
        ELSE IF f \in NumFields THEN Atoi(p[f])
        ELSE IF f = "HealthCheckEnabled" THEN p[f] = FmtBool(TRUE)
        ELSE p[f]]

\* SElbBackendGroup.GetProtocolType.
GetProtocolType(g) ==
    CASE g.Protocol = ToUpper(Tcp) -> Tcp
      [] g.Protocol = ToUpper(Udp) -> Udp
      [] g.Protocol = ToUpper(Http) -> Http
      [] g.Protocol = ToUpper(Https) -> Https
      [] g.Protocol = ToUpper(TcpUdp) -> TcpUdp
      [] OTHER -> <<>>

\* Mutant: rise and fall are taken from each other's threshold.
GetHealthCheckSwapped(g) ==
    [HealthCheck |-> IF g.HealthCheckEnabled THEN "LB_BOOL_ON" ELSE "LB_BOOL_OFF",
     HealthCheckRise |-> g.UnhealthyThresholdCount,
     HealthCheckFail |-> g.HealthyThresholdCount,
     HealthCheckInterval |-> g.HealthCheckIntervalSeconds,
     HealthCheckURI |-> g.HealthCheckPath,
     HealthCheckType |-> ToLower(g.HealthCheckProtocol),
     HealthCheckTimeout |-> g.HealthCheckTimeoutSeconds]

\* SElbBackendGroup.GetHealthCheck (HealthCheckHttpCode, the Matcher's
\* codes through ToOnecloudHealthCode, is left out: creation never sets it).
GetHealthCheck(g) ==
    [HealthCheck |-> IF g.HealthCheckEnabled THEN "LB_BOOL_ON" ELSE "LB_BOOL_OFF",
     HealthCheckRise |-> g.HealthyThresholdCount,
     HealthCheckFail |-> g.UnhealthyThresholdCount,
     HealthCheckInterval |-> g.HealthCheckIntervalSeconds,
     HealthCheckURI |-> g.HealthCheckPath,
     HealthCheckType |-> ToLower(g.HealthCheckProtocol),
     HealthCheckTimeout |-> g.HealthCheckTimeoutSeconds]

\* SElbBackendGroup.GetSysTags.
GetSysTags(g) ==
    [port |-> Itoa(g.Port), target_type |-> g.TargetType,
     health_check_protocol |-> ToLower(g.HealthCheckProtocol),
     health_check_interval |-> Itoa(g.HealthCheckIntervalSeconds)]

GroupOpts ==
    [Protocol : {Tcp, Udp, Http, Https, TcpUdp}, Name : {"n"}, ListenPort : {80, 443},
     TargetType : {"instance"}, VpcId : {"v"}, HealthCheckEnabled : BOOLEAN,
     HealthCheckIntervalSeconds : {5, 10}, HealthCheckPath : {"/", "/hc"},
     HealthCheckProtocol : {Tcp, Http}, HealthCheckTimeoutSeconds : {3},
     HealthyThresholdCount : {2, 3}, UnhealthyThresholdCount : {2, 3}]

\* The cloud's defaults for fields CreateTargetGroup was not given.
GroupDefaults ==
    [Protocol : {<<>>}, Name : {"n"}, Port : {0}, TargetType : {"instance"},
     VpcId : {"v"}, HealthCheckEnabled : {FALSE}, HealthCheckIntervalSeconds : {30},
     HealthCheckPath : {"/"}, HealthCheckProtocol : {ToUpper(Http)},
     HealthCheckTimeoutSeconds : {5}, HealthyThresholdCount : {5},
     UnhealthyThresholdCount : {2}]
NoGroupOpts == [o \in {"none"} |-> o]

VARIABLES input, stats, tree, params, bid, attrList, gopts

vars == <<input, stats, tree, params, bid, attrList, gopts>>

NoStats == [rt |-> "server", pages |-> <<>>]
NoTree == Obj(NoFields)

\* One input of one conversion per behaviour; the others stay empty.
Blank == [input |-> <<>>, stats |-> NoStats, tree |-> NoTree, params |-> NoFields,
          bid |-> NoBackendId, attrList |-> <<>>, gopts |-> NoGroupOpts]

Cases ==
    {[Blank EXCEPT !.input = x] : x \in Inputs} \cup
    {[Blank EXCEPT !.stats = x] : x \in StatInputs} \cup
    {[Blank EXCEPT !.tree = x] : x \in Responses} \cup
    {[Blank EXCEPT !.params = x] : x \in Params} \cup
    {[Blank EXCEPT !.bid = x] : x \in BackendIds} \cup
    {[Blank EXCEPT !.attrList = x] : x \in AttrLists} \cup
    {[Blank EXCEPT !.gopts = x] : x \in GroupOpts}

Init ==
    \E c \in Cases : /\ input = c.input /\ stats = c.stats /\ tree = c.tree
                    /\ params = c.params /\ bid = c.bid /\ attrList = c.attrList
                    /\ gopts = c.gopts
Next == UNCHANGED vars
Spec == Init /\ [][Next]_vars

\* The conversion yields a list of the api's health-check code classes.
TypeOK == input \in Inputs \cup {<<>>} /\ ToOnecloudHealthCode(input) \in Seq(Classes)

\* Every class of a code the matcher accepts is in the health-check codes.
HealthCodeComplete == Accepted(input) \subseteq ToSet(ToOnecloudHealthCode(input))

\* The health-check codes name no class the matcher does not accept (the
\* api's code classes mean exactly the accepted codes).
HealthCodeExact == ToSet(ToOnecloudHealthCode(input)) \subseteq Accepted(input)

\* GetMetrics returns, for each resource and metric type among the
\* datapoints of all pages, the Average of every such datapoint in order.
MetricsComplete ==
    LET out == Metrics(stats) IN
    /\ {<<m.Id, m.MetricType>> : m \in ToSet(out)} = MappedPairs(stats)
    /\ \A m \in ToSet(out) : m.Values = Series(stats, m.Id, m.MetricType)

\* setItemToArray (spec 4.3, 8): every collection field but instancesSet
\* becomes an array with one normalized element per item, whether the XML
\* had one item or several, in every order of the field loop.
NormalizeWrapsArrays ==
    \A r \in Norms(tree), k \in {c \in DOMAIN tree.f : IsWrapper(tree.f[c])} \ {"instancesSet"} :
        /\ r.f[k].t = "arr"
        /\ Len(r.f[k].s) = Len(ItemsOf(tree.f[k]))
        /\ \A i \in DOMAIN r.f[k].s : r.f[k].s[i] \in Norms(ItemsOf(tree.f[k])[i])

\* setItemToArray copies a collection's non-empty nextToken up into the
\* response, where GetDisks and the other listings read it, whenever the
\* response has no nextToken field of its own.
NextTokenLifted ==
    \A k \in {c \in DOMAIN tree.f : IsWrapper(tree.f[c])} :
        ("nextToken" \in DOMAIN tree.f[k].f /\ ~IsEmptyStr(tree.f[k].f["nextToken"])
         /\ "nextToken" \notin DOMAIN tree.f)
        => \A r \in Norms(tree) : /\ "nextToken" \in DOMAIN r.f
                                  /\ r.f["nextToken"] = tree.f[k].f["nextToken"]

\* The spec (8): normalizing a normalized tree changes nothing.
NormalizeIdempotent == \A r \in Norms(tree) : Norms(r) = {r}

\* sign (spec 4.1, 8): the string to sign, and so the signature, is the
\* same whatever order invoke's range over the params map put them in.
SignOrderIndependent ==
    Cardinality(UNION {Sorted(Query(params, o)) : o \in SetToSeqs(DOMAIN params)}) = 1


\* AddBackendServer and GetELbBackend: parseElbBackendId gives back the
\* target group, target and port genElbBackendId joined, exactly when
\* neither id, followed by one ":", contains "::" (a trailing ":" of an id
\* joins the separator and moves the cut).
BackendIdRoundTrip ==
    LET r == ParseElbBackendId(GenElbBackendId(bid.g, bid.t, bid.port)) IN
    (r = [ok |-> TRUE] @@ bid) <=> ~HasSep(bid.g \o <<":">>) /\ ~HasSep(bid.t \o <<":">>)


\* GetStickySession reports the cookie duration of the target group: the
\* code reads stickiness.lb_cookie.duration_seconds and hands it to
\* strconv.Atoi for StickySessionCookieTimeout.
StickyCookieTimeoutParsed ==
    LET attrs == AttrMap(attrList) IN
    (DurationKey \in DOMAIN attrs /\ AtoiOk(attrs[DurationKey]))
        => GetStickySession(attrList).StickySessionCookieTimeout = Atoi(attrs[DurationKey])

\* A target group created with health-check options reads back with them:
\* its protocol, its port tag, whether the health check is on, and, when it
\* is, every threshold, interval, path, type and timeout, through the
\* upper-casing, number formatting and parsing on the way.
GroupConfigReadsBack ==
    gopts \in GroupOpts =>
      \A d \in GroupDefaults :
        LET g == Stored(CreateParams(gopts), d)
            h == GetHealthCheck(g)
        IN /\ GetProtocolType(g) = gopts.Protocol
           /\ GetSysTags(g).port = Itoa(gopts.ListenPort)
           /\ h.HealthCheck = IF gopts.HealthCheckEnabled THEN "LB_BOOL_ON" ELSE "LB_BOOL_OFF"
           /\ gopts.HealthCheckEnabled =>
                /\ h.HealthCheckRise = gopts.HealthyThresholdCount
                /\ h.HealthCheckFail = gopts.UnhealthyThresholdCount
                /\ h.HealthCheckInterval = gopts.HealthCheckIntervalSeconds
                /\ h.HealthCheckURI = gopts.HealthCheckPath
                /\ h.HealthCheckType = gopts.HealthCheckProtocol
                /\ h.HealthCheckTimeout = gopts.HealthCheckTimeoutSeconds
                /\ GetSysTags(g).health_check_protocol = gopts.HealthCheckProtocol

=============================================================================
