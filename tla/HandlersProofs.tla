--------------------------- MODULE HandlersProofs ---------------------------
(***************************************************************************)
(* Proofs about Startup and Handlers, for every environment, every token   *)
(* file of any length, every request and every reply.                      *)
(***************************************************************************)
EXTENDS Handlers, SequenceTheorems, WellFoundedInduction, TLAPS

-----------------------------------------------------------------------------
(* Sequences that grow by one.                                             *)

\* Appending the next value of g to its first m values.
LEMMA AppendNext ==
    ASSUME NEW g, NEW m \in Nat
    PROVE  Append([k \in 1 .. m |-> g[k]], g[m + 1]) = [k \in 1 .. m + 1 |-> g[k]]
<1> DEFINE s == [k \in 1 .. m |-> g[k]]
           S == {g[k] : k \in 1 .. m + 1}
<1>1. s \in Seq(S) /\ Len(s) = m
  <2>1. s \in [1 .. m -> S]
    OBVIOUS
  <2> QED BY <2>1
<1>2. g[m + 1] \in S
  OBVIOUS
<1> HIDE DEF S
<1>3. \A k \in 1 .. m : s[k] = g[k]
  OBVIOUS
<1> HIDE DEF s
<1> DEFINE t == Append(s, g[m + 1])
<1>4. /\ t \in Seq(S) /\ Len(t) = m + 1
      /\ \A k \in 1 .. m : t[k] = s[k]
      /\ t[m + 1] = g[m + 1]
  BY <1>1, <1>2, AppendProperties
<1> HIDE DEF t
<1>5. t \in [1 .. m + 1 -> S]
  BY <1>4, LenProperties
<1>6. \A k \in 1 .. m + 1 : t[k] = g[k]
  <2>1. \A k \in 1 .. m + 1 : k \in 1 .. m \/ k = m + 1
    OBVIOUS
  <2> QED BY <1>3, <1>4, <2>1
<1>7. t = [k \in 1 .. m + 1 |-> g[k]]
  BY <1>5, <1>6
<1> QED BY <1>7 DEF t, s

\* The length of a sequence that is given by its values.
LEMMA LengthOfFcn ==
    ASSUME NEW g, NEW m \in Nat
    PROVE  Len([k \in 1 .. m |-> g[k]]) = m
<1>1. [k \in 1 .. m |-> g[k]] \in Seq({g[k] : k \in 1 .. m})
  OBVIOUS
<1> QED BY <1>1

-----------------------------------------------------------------------------
(* The settings.                                                           *)

\* The sound settings, but for the address to listen on.
SoundButBind ==
    /\ settings.acquire_timeout_ms \in 1 .. settings.request_timeout_ms - 1
    /\ settings.max_concurrency > 0 /\ settings.max_realtime_concurrency > 0
    /\ settings.max_response_bytes > 0
    /\ settings.auth_lockout_failures >= 0
    /\ \A n \in {"auth_lockout_window_seconds", "auth_lockout_seconds", "auth_lockout_max_entries"} :
          settings[n] > 0 \/ (settings[n] = 0 /\ settings.auth_lockout_failures = 0)
    /\ settings.parse
    /\ allowed # {} /\ allowed \cap DeniedCommands = {}
    /\ settings.trust =>
          /\ \E k \in 1 .. Len(settings.proxies) : ~settings.proxies[k].blank
          /\ \A k \in 1 .. Len(settings.proxies) : LET p == settings.proxies[k] IN
                p.blank \/ (/\ p.network.family \in Families
                            /\ p.slash => p.prefix >= 0 /\ p.prefix <= Len(p.network.bits))

\* The entries of RRB_TRUSTED_PROXIES are checked one by one.
LEMMA ProxiesChecked ==
    ASSUME IsSettings(settings)
    PROVE  (Proxies # {} /\ \A p \in Proxies : EntryOk(p)) <=>
              /\ \E k \in 1 .. Len(settings.proxies) : ~settings.proxies[k].blank
              /\ \A k \in 1 .. Len(settings.proxies) : LET p == settings.proxies[k] IN
                    p.blank \/ (/\ p.network.family \in Families
                                /\ p.slash => p.prefix >= 0 /\ p.prefix <= Len(p.network.bits))
<1> DEFINE ps == settings.proxies
<1>1. ASSUME NEW k \in 1 .. Len(ps)
      PROVE  EntryOk(ps[k]) <=> /\ ps[k].network.family \in Families
                                /\ ps[k].slash => /\ ps[k].prefix >= 0
                                                  /\ ps[k].prefix <= Len(ps[k].network.bits)
  <2>1. /\ ps[k].prefix \in Int
        /\ ps[k].network = NoAddr \/ IsAddr(ps[k].network)
    BY DEF IsSettings
  <2> DEFINE n == ps[k].network
             f == ps[k].prefix
             s == ps[k].slash
  <2>2. EntryOk(ps[k]) <=> n # NoAddr /\ (s => f \in 0 .. Width(n.family))
    BY DEF EntryOk
  <2>3. CASE n = NoAddr
    <3>1. n.family \notin Families
      BY <2>3 DEF NoAddr, Families
    <3> QED BY <2>2, <2>3, <3>1
  <2>4. CASE IsAddr(n)
    <3>1. n.family \in Families /\ Len(n.bits) = Width(n.family)
      BY <2>4 DEF IsAddr
    <3>2. n # NoAddr
      BY <3>1 DEF NoAddr, Families
    <3>3. Width(n.family) \in Nat
      BY AddressAssumption DEF Width
    <3>4. f \in 0 .. Width(n.family) <=> f >= 0 /\ f <= Len(n.bits)
      BY <2>1, <3>1, <3>3
    <3> QED BY <2>2, <3>1, <3>2, <3>4
  <2> QED BY <2>1, <2>3, <2>4
<1>2. Proxies = {ps[k] : k \in {j \in 1 .. Len(ps) : ~ps[j].blank}}
  BY DEF Proxies
<1> HIDE DEF ps
<1>3. Proxies # {} <=> \E k \in 1 .. Len(ps) : ~ps[k].blank
  BY <1>2
<1>4. (\A p \in Proxies : EntryOk(p)) <=>
        \A k \in 1 .. Len(ps) : ps[k].blank \/ EntryOk(ps[k])
  BY <1>2
<1> QED BY <1>1, <1>3, <1>4 DEF ps

\* The checks of Bridge::from_env let through exactly the sound settings.
LEMMA SettingsChecked ==
    ASSUME IsSettings(settings)
    PROVE  (SettingsOk /\ Validate) <=> SoundButBind
<1>1. \A n \in Numbers : settings[n] \in Int
  BY DEF IsSettings
<1> DEFINE mc == settings.max_concurrency
           mr == settings.max_realtime_concurrency
           rt == settings.request_timeout_ms
           aq == settings.acquire_timeout_ms
           mb == settings.max_response_bytes
           lf == settings.auth_lockout_failures
           lw == settings.auth_lockout_window_seconds
           ls == settings.auth_lockout_seconds
           le == settings.auth_lockout_max_entries
<1>2. mc \in Int /\ mr \in Int /\ rt \in Int /\ aq \in Int /\ mb \in Int
      /\ lf \in Int /\ lw \in Int /\ ls \in Int /\ le \in Int
  BY <1>1 DEF Numbers
<1>3. (\A n \in Numbers : settings[n] \in Nat) <=>
        /\ mc \in Nat /\ mr \in Nat /\ rt \in Nat /\ aq \in Nat /\ mb \in Nat
        /\ lf \in Nat /\ lw \in Nat /\ ls \in Nat /\ le \in Nat
  BY DEF Numbers
<1>4. (\A n \in {"auth_lockout_window_seconds", "auth_lockout_seconds",
                 "auth_lockout_max_entries"} :
          settings[n] > 0 \/ (settings[n] = 0 /\ settings.auth_lockout_failures = 0)) <=>
        /\ lw > 0 \/ (lw = 0 /\ lf = 0)
        /\ ls > 0 \/ (ls = 0 /\ lf = 0)
        /\ le > 0 \/ (le = 0 /\ lf = 0)
  OBVIOUS
<1>5. Validate <=> allowed # {} /\ allowed \cap DeniedCommands = {}
  BY DEF Validate, IsDeniedCommand
<1> DEFINE Trust == settings.trust => Proxies # {} /\ \A p \in Proxies : EntryOk(p)
<1>6. SettingsOk <=>
        /\ settings.parse
        /\ mc \in Nat /\ mr \in Nat /\ rt \in Nat /\ aq \in Nat /\ mb \in Nat
        /\ lf \in Nat /\ lw \in Nat /\ ls \in Nat /\ le \in Nat
        /\ Trust
        /\ lf > 0 => lw # 0 /\ ls # 0 /\ le # 0
        /\ mc # 0 /\ mr # 0 /\ rt # 0 /\ aq # 0 /\ aq < rt /\ mb # 0
  BY <1>3 DEF SettingsOk, LockoutOk, LimitsOk
<1>7. SoundButBind <=>
        /\ aq \in 1 .. rt - 1 /\ mc > 0 /\ mr > 0 /\ mb > 0 /\ lf >= 0
        /\ lw > 0 \/ (lw = 0 /\ lf = 0)
        /\ ls > 0 \/ (ls = 0 /\ lf = 0)
        /\ le > 0 \/ (le = 0 /\ lf = 0)
        /\ settings.parse
        /\ allowed # {} /\ allowed \cap DeniedCommands = {}
        /\ Trust
  BY <1>4, ProxiesChecked DEF SoundButBind
<1> HIDE DEF mc, mr, rt, aq, mb, lf, lw, ls, le, Trust
<1> DEFINE Good == /\ aq >= 1 /\ aq < rt /\ mc > 0 /\ mr > 0 /\ mb > 0 /\ lf >= 0
                   /\ lw >= 0 /\ ls >= 0 /\ le >= 0
                   /\ lf > 0 => lw > 0 /\ ls > 0 /\ le > 0
<1>8. (/\ mc \in Nat /\ mr \in Nat /\ rt \in Nat /\ aq \in Nat /\ mb \in Nat
       /\ lf \in Nat /\ lw \in Nat /\ ls \in Nat /\ le \in Nat
       /\ lf > 0 => lw # 0 /\ ls # 0 /\ le # 0
       /\ mc # 0 /\ mr # 0 /\ rt # 0 /\ aq # 0 /\ aq < rt /\ mb # 0) <=> Good
  BY <1>2
<1>9. (/\ aq \in 1 .. rt - 1 /\ mc > 0 /\ mr > 0 /\ mb > 0 /\ lf >= 0
       /\ lw > 0 \/ (lw = 0 /\ lf = 0)
       /\ ls > 0 \/ (ls = 0 /\ lf = 0)
       /\ le > 0 \/ (le = 0 /\ lf = 0)) <=> Good
  BY <1>2
<1> HIDE DEF Good
<1> QED BY <1>5, <1>6, <1>7, <1>8, <1>9

-----------------------------------------------------------------------------
(* The token file.                                                         *)

FT == settings.file.targets
NT == Len(FT)
NK(j) == Len(FT[j].tokens)
Tok(j, k) == FT[j].tokens[k]

\* What parse_file_targets makes of a token and of a target.
ReadToken(t) == [hash |-> t.hash.digest, enabled |-> t.enabled, caps |-> CapsOf(t.token_type)]
ReadTokens ==
    [j \in 1 .. NT |-> [k \in 1 .. NK(j) |-> ReadToken(Tok(j, k))]]
ReadTargets ==
    [j \in 1 .. NT |->
        [rrb_id |-> FT[j].rrb_id.word, connection_string |-> FT[j].connection_string.word,
         operation_limit |-> FT[j].operation_limit, tokens |-> ReadTokens[j]]]

\* The first n - 1 targets and m tokens of the next.
Seen(n, m) == {p \in Places : p[1] < n \/ (p[1] = n /\ p[2] <= m)}

\* What the file must be, check by check.
FileHead ==
    /\ settings.file.readable /\ settings.hash_token.word # ""
    /\ settings.file.version = 1 /\ FT # <<>>
GoodTarget(j) ==
    /\ FT[j].rrb_id.word # "" /\ FT[j].connection_string.word # ""
    /\ FT[j].operation_limit # 0 /\ FT[j].connection_shards # 0
    /\ FT[j].tokens # <<>>
HasEnabled(j) == \E k \in 1 .. NK(j) : Tok(j, k).enabled
GoodToken(p) ==
    TokenAt(p).id.word # "" /\ TypeOk(TokenAt(p).token_type) /\ HashOk(TokenAt(p).hash)
Apart(p, q) ==
    /\ TokenAt(p).id.word # TokenAt(q).id.word
    /\ TokenAt(p).enabled /\ TokenAt(q).enabled =>
          TokenAt(p).hash.digest # TokenAt(q).hash.digest

TargetsApart(n) ==
    \A i, j \in 1 .. n : i # j => FT[i].rrb_id.word # FT[j].rrb_id.word
PlacesGood(S) ==
    /\ \A p \in S : GoodToken(p)
    /\ \A p, q \in S : p # q => Apart(p, q)

FileChecked ==
    /\ FileHead
    /\ \A j \in 1 .. NT : GoodTarget(j) /\ HasEnabled(j)
    /\ TargetsApart(NT)
    /\ PlacesGood(Places)

LEMMA FileShape ==
    ASSUME IsSettings(settings)
    PROVE  /\ NT \in Nat /\ (FT # <<>> <=> NT # 0)
           /\ \A j \in 1 .. NT :
                 /\ NK(j) \in Nat /\ (FT[j].tokens # <<>> <=> NK(j) # 0)
                 /\ FT[j].operation_limit \in Nat /\ FT[j].connection_shards \in Nat
           /\ \A j \in 1 .. NT : \A k \in 1 .. NK(j) :
                 /\ Tok(j, k).enabled \in BOOLEAN
                 /\ Tok(j, k).hash.form \in {"lower", "upper", "short", "not hex"}
<1>1. IsSeq(FT) /\ \A j \in 1 .. NT : IsSeq(FT[j].tokens)
  BY DEF IsSettings, FT, NT
<1>2. \A s : IsSeq(s) => Len(s) \in Nat /\ (s # <<>> <=> Len(s) # 0)
  <2> SUFFICES ASSUME NEW s, IsSeq(s) PROVE Len(s) \in Nat /\ (s # <<>> <=> Len(s) # 0)
    OBVIOUS
  <2>1. PICK S : s \in Seq(S)
    BY DEF IsSeq
  <2> QED BY <2>1, LenProperties, EmptySeq
<1>3. /\ NT \in Nat /\ (FT # <<>> <=> NT # 0)
      /\ \A j \in 1 .. NT : NK(j) \in Nat /\ (FT[j].tokens # <<>> <=> NK(j) # 0)
  BY <1>1, <1>2 DEF NT, NK
<1>4. \A j \in 1 .. NT : FT[j].operation_limit \in Nat /\ FT[j].connection_shards \in Nat
  BY DEF IsSettings, FT, NT
<1>5. \A j \in 1 .. NT : \A k \in 1 .. NK(j) :
        /\ Tok(j, k).enabled \in BOOLEAN
        /\ Tok(j, k).hash.form \in {"lower", "upper", "short", "not hex"}
  BY DEF IsSettings, FT, NT, NK, Tok
<1> QED BY <1>3, <1>4, <1>5

LEMMA PlacesAre ==
    \A p : p \in Places <=> \E j \in 1 .. NT : \E k \in 1 .. NK(j) : p = <<j, k>>
<1> DEFINE Row(j) == {<<j, k>> : k \in 1 .. NK(j)}
<1>1. Places = UNION {Row(j) : j \in 1 .. NT}
  BY DEF Places, FT, NT, NK
<1>2. \A p : p \in UNION {Row(j) : j \in 1 .. NT} <=> \E j \in 1 .. NT : p \in Row(j)
  <2> HIDE DEF Row
  <2> QED OBVIOUS
<1>3. \A j, p : p \in Row(j) <=> \E k \in 1 .. NK(j) : p = <<j, k>>
  OBVIOUS
<1> HIDE DEF Row
<1> QED BY <1>1, <1>2, <1>3

LEMMA PlacePair ==
    ASSUME IsSettings(settings)
    PROVE  /\ \A p \in Places : /\ p[1] \in 1 .. NT /\ p[2] \in 1 .. NK(p[1])
                                /\ p[1] \in Nat \ {0} /\ p[2] \in Nat \ {0} /\ p[1] <= NT
                                /\ p = <<p[1], p[2]>>
           /\ \A j \in 1 .. NT : \A k \in 1 .. NK(j) : <<j, k>> \in Places
<1>1. ASSUME NEW p \in Places
      PROVE  /\ p[1] \in 1 .. NT /\ p[2] \in 1 .. NK(p[1])
             /\ p[1] \in Nat \ {0} /\ p[2] \in Nat \ {0} /\ p[1] <= NT
             /\ p = <<p[1], p[2]>>
  <2>1. PICK j \in 1 .. NT : \E k \in 1 .. NK(j) : p = <<j, k>>
    BY PlacesAre
  <2>2. PICK k \in 1 .. NK(j) : p = <<j, k>>
    BY <2>1
  <2>3. p[1] = j /\ p[2] = k
    BY <2>2
  <2>4. NT \in Nat /\ NK(j) \in Nat
    BY FileShape
  <2>5. j \in Nat \ {0} /\ k \in Nat \ {0} /\ j <= NT
    BY <2>4
  <2> QED BY <2>2, <2>3, <2>5
<1> QED BY <1>1, PlacesAre

LEMMA TokenAtIs == \A j, k : TokenAt(<<j, k>>) = Tok(j, k)
BY DEF TokenAt, FT, Tok

LEMMA SeenNone == ASSUME IsSettings(settings) PROVE Seen(1, 0) = {}
<1>1. \A p \in Places : p[1] \in Nat \ {0} /\ p[2] \in Nat \ {0}
  BY PlacePair
<1>2. \A p \in Places : ~(p[1] < 1 \/ (p[1] = 1 /\ p[2] <= 0))
  BY <1>1
<1> QED BY <1>2 DEF Seen

LEMMA SeenNext ==
    ASSUME IsSettings(settings), NEW n \in 1 .. NT, NEW m \in Nat, m < NK(n)
    PROVE  /\ Seen(n, m + 1) = Seen(n, m) \cup {<<n, m + 1>>}
           /\ <<n, m + 1>> \in Places /\ <<n, m + 1>> \notin Seen(n, m)
<1>0. NT \in Nat /\ NK(n) \in Nat
  BY FileShape
<1>1. n \in Nat /\ m + 1 \in 1 .. NK(n)
  BY <1>0
<1>2. <<n, m + 1>> \in Places
  BY <1>1, PlacePair
<1>3. ASSUME NEW p \in Places
      PROVE  (p[1] < n \/ (p[1] = n /\ p[2] <= m + 1)) <=>
             ((p[1] < n \/ (p[1] = n /\ p[2] <= m)) \/ p = <<n, m + 1>>)
  <2> DEFINE j == p[1]
             k == p[2]
  <2>1. j \in Nat /\ k \in Nat /\ p = <<j, k>>
    BY PlacePair
  <2>2. p = <<n, m + 1>> <=> j = n /\ k = m + 1
    BY <2>1
  <2> HIDE DEF j, k
  <2>3. (j < n \/ (j = n /\ k <= m + 1)) <=> ((j < n \/ (j = n /\ k <= m)) \/ (j = n /\ k = m + 1))
    BY <1>1, <2>1
  <2> QED BY <2>2, <2>3 DEF j, k
<1>4. <<n, m + 1>>[1] = n /\ <<n, m + 1>>[2] = m + 1
  OBVIOUS
<1>5. ~(n < n \/ (n = n /\ m + 1 <= m))
  BY <1>1
<1>6. <<n, m + 1>> \notin Seen(n, m)
  BY <1>4, <1>5 DEF Seen
<1>7. \A p \in Places : p \in Seen(n, m + 1) <=> (p \in Seen(n, m) \/ p = <<n, m + 1>>)
  BY <1>3 DEF Seen
<1>8. Seen(n, m + 1) \subseteq Places /\ Seen(n, m) \subseteq Places
  BY DEF Seen
<1> QED BY <1>2, <1>6, <1>7, <1>8

LEMMA SeenTurn ==
    ASSUME IsSettings(settings), NEW n \in 1 .. NT
    PROVE  /\ Seen(n + 1, 0) = Seen(n, NK(n))
           /\ n = NT => Seen(n, NK(n)) = Places
<1>1. ASSUME NEW p \in Places
      PROVE  /\ (p[1] < n + 1 \/ (p[1] = n + 1 /\ p[2] <= 0)) <=>
                (p[1] < n \/ (p[1] = n /\ p[2] <= NK(n)))
             /\ n = NT => (p[1] < n \/ (p[1] = n /\ p[2] <= NK(n)))
  <2> DEFINE j == p[1]
             k == p[2]
  <2>1. /\ j \in Nat \ {0} /\ k \in Nat \ {0} /\ j <= NT /\ NT \in Nat
        /\ j \in 1 .. NT /\ k \in 1 .. NK(j) /\ NK(j) \in Nat
    BY PlacePair, FileShape
  <2> HIDE DEF j, k
  <2>2. j = n => k <= NK(n)
    BY <2>1
  <2>3. (j < n + 1 \/ (j = n + 1 /\ k <= 0)) <=> (j < n \/ j = n)
    BY <2>1
  <2>4. n = NT => j < n \/ j = n
    BY <2>1
  <2> QED BY <2>2, <2>3, <2>4 DEF j, k
<1>2. \A p \in Places : /\ p \in Seen(n + 1, 0) <=> p \in Seen(n, NK(n))
                        /\ n = NT => p \in Seen(n, NK(n))
  BY <1>1 DEF Seen
<1>3. Seen(n + 1, 0) \subseteq Places /\ Seen(n, NK(n)) \subseteq Places
  BY DEF Seen
<1> QED BY <1>2, <1>3

\* Capabilities that parse, in the words of the checks and of the property.
LEMMA TypesChecked ==
    ASSUME NEW type
    PROVE  /\ TypeOk(type) <=> (type = NoType \/
                 \E c \in (SUBSET Capabilities) \ {{}} : type \in {c, c \cup {""}})
           /\ TypeOk(type) => /\ CapsOf(type) \in (SUBSET Capabilities) \ {{}}
                              /\ CapsOf(type) = IF type = NoType THEN {"command"} ELSE type \ {""}
<1>1. "" \notin Capabilities /\ "command" \in Capabilities
  BY DEF Capabilities
<1>2. ASSUME type \subseteq Capabilities \cup {""}, type \cap Capabilities # {}
      PROVE  \E c \in (SUBSET Capabilities) \ {{}} : type \in {c, c \cup {""}}
  <2> DEFINE c == type \cap Capabilities
  <2>1. c \in (SUBSET Capabilities) \ {{}}
    BY <1>2
  <2>2. "" \in type => type = c \cup {""}
    BY <1>2
  <2>3. "" \notin type => type = c
    BY <1>2
  <2> QED BY <2>1, <2>2, <2>3
<1>3. ASSUME NEW c \in (SUBSET Capabilities) \ {{}}, type \in {c, c \cup {""}}
      PROVE  type \subseteq Capabilities \cup {""} /\ type \cap Capabilities # {}
  <2>1. c \subseteq Capabilities /\ c # {}
    OBVIOUS
  <2>2. type = c \/ type = c \cup {""}
    BY <1>3
  <2> QED BY <2>1, <2>2
<1>4. TypeOk(type) <=> type = NoType \/ (type \subseteq Capabilities \cup {""}
                                           /\ type \cap Capabilities # {})
  BY DEF TypeOk
<1>5. type \subseteq Capabilities \cup {""} => type \cap Capabilities = type \ {""}
  BY <1>1
<1>6. TypeOk(type) => /\ CapsOf(type) \in (SUBSET Capabilities) \ {{}}
                      /\ CapsOf(type) = IF type = NoType THEN {"command"} ELSE type \ {""}
  <2>1. CASE type = NoType
    BY <1>1, <2>1 DEF CapsOf
  <2>2. CASE type # NoType
    BY <1>4, <1>5, <2>2 DEF CapsOf
  <2> QED BY <2>1, <2>2
<1> QED BY <1>2, <1>3, <1>4, <1>6

\* What AppState::new and the listener ask for besides: of a target that is read,
\* of one in the file, of the one in the environment, and of the rest.
Buildable(t) == t.connection_string # "no url" /\ t.operation_limit <= MaxPermits
FileBuildable(j) ==
    FT[j].connection_string.word # "no url" /\ FT[j].operation_limit <= MaxPermits
EnvBuildable ==
    /\ settings.env.connection_string.word # "no url"
    /\ settings.env.operation_limit <= MaxPermits
CanListen ==
    /\ settings.max_realtime_concurrency <= MaxPermits
    /\ settings.max_concurrency <= MaxPermits
    /\ settings.bind

\* The checks are those of a sound file, but for the URLs and the largest semaphore,
\* which come later.
LEMMA FileIsChecked ==
    ASSUME IsSettings(settings)
    PROVE  SoundFile <=> /\ FileChecked
                         /\ \A j \in 1 .. NT : FileBuildable(j)
<1> DEFINE T == 1 .. NT
<1>1. SoundFile <=>
        /\ settings.file.readable /\ settings.file.version = 1 /\ T # {}
        /\ settings.hash_token.word # ""
        /\ \A j \in T :
              /\ FT[j].rrb_id.word # ""
              /\ FT[j].connection_string.word \notin {"", "no url"}
              /\ FT[j].operation_limit \in 1 .. MaxPermits
              /\ FT[j].connection_shards > 0
              /\ \E p \in Places : p[1] = j /\ TokenAt(p).enabled
        /\ TargetsApart(NT)
        /\ \A p \in Places :
              /\ TokenAt(p).id.word # "" /\ TokenAt(p).hash.form \notin {"short", "not hex"}
              /\ TokenAt(p).token_type = NoType \/
                    \E c \in (SUBSET Capabilities) \ {{}} : TokenAt(p).token_type \in {c, c \cup {""}}
        /\ \A p, q \in Places : p # q => Apart(p, q)
  BY DEF SoundFile, FT, NT, TargetsApart, Apart
<1>2. T # {} <=> FT # <<>>
  <2>1. NT \in Nat /\ (FT # <<>> <=> NT # 0)
    BY FileShape
  <2>2. NT # 0 => 1 \in T
    BY <2>1
  <2>3. NT = 0 => T = {}
    BY <2>1
  <2> QED BY <2>1, <2>2, <2>3
<1>3. ASSUME NEW p \in Places
      PROVE  GoodToken(p) <=>
               /\ TokenAt(p).id.word # "" /\ TokenAt(p).hash.form \notin {"short", "not hex"}
               /\ TokenAt(p).token_type = NoType \/
                    \E c \in (SUBSET Capabilities) \ {{}} : TokenAt(p).token_type \in {c, c \cup {""}}
  <2>1. TokenAt(p).hash.form \in {"lower", "upper", "short", "not hex"}
    <3>1. p[1] \in 1 .. NT /\ p[2] \in 1 .. NK(p[1]) /\ p = <<p[1], p[2]>>
      BY PlacePair
    <3>2. TokenAt(p) = Tok(p[1], p[2])
      BY <3>1, TokenAtIs
    <3> QED BY <3>1, <3>2, FileShape
  <2>2. HashOk(TokenAt(p).hash) <=> TokenAt(p).hash.form \notin {"short", "not hex"}
    BY <2>1 DEF HashOk
  <2> QED BY <2>2, TypesChecked DEF GoodToken
<1>4. ASSUME NEW j \in T
      PROVE  /\ HasEnabled(j) <=> \E p \in Places : p[1] = j /\ TokenAt(p).enabled
             /\ HasEnabled(j) => FT[j].tokens # <<>>
             /\ FT[j].operation_limit \in 1 .. MaxPermits <=>
                    FT[j].operation_limit # 0 /\ FT[j].operation_limit <= MaxPermits
             /\ FT[j].connection_shards > 0 <=> FT[j].connection_shards # 0
  <2>1. HasEnabled(j) => \E p \in Places : p[1] = j /\ TokenAt(p).enabled
    <3> SUFFICES ASSUME HasEnabled(j) PROVE \E p \in Places : p[1] = j /\ TokenAt(p).enabled
      OBVIOUS
    <3>1. PICK k \in 1 .. NK(j) : Tok(j, k).enabled
      BY DEF HasEnabled
    <3>2. <<j, k>> \in Places /\ TokenAt(<<j, k>>).enabled /\ <<j, k>>[1] = j
      BY <3>1, PlacesAre, TokenAtIs
    <3> QED BY <3>2
  <2>2. ASSUME NEW p \in Places, p[1] = j, TokenAt(p).enabled PROVE HasEnabled(j)
    <3>0. PICK i \in 1 .. NT : \E k \in 1 .. NK(i) : p = <<i, k>>
      BY PlacesAre
    <3>1. PICK k \in 1 .. NK(i) : p = <<i, k>>
      BY <3>0
    <3>2. i = j
      BY <2>2, <3>1
    <3> QED BY <2>2, <3>1, <3>2, TokenAtIs DEF HasEnabled
  <2>3. HasEnabled(j) => FT[j].tokens # <<>>
    <3>1. NK(j) \in Nat /\ (FT[j].tokens # <<>> <=> NK(j) # 0)
      BY FileShape
    <3>2. 1 .. NK(j) # {} => NK(j) # 0
      BY <3>1
    <3> QED BY <3>1, <3>2 DEF HasEnabled
  <2>4. FT[j].operation_limit \in Nat /\ FT[j].connection_shards \in Nat
    BY FileShape
  <2>5. \A limit \in Nat :
           limit \in 1 .. MaxPermits <=> limit # 0 /\ limit <= MaxPermits
    BY PermitsAssumption
  <2> QED BY <2>1, <2>2, <2>3, <2>4, <2>5
<1> HIDE DEF T
<1>5. (\A j \in T : GoodTarget(j) /\ HasEnabled(j) /\ FileBuildable(j)) <=>
        \A j \in T : /\ FT[j].rrb_id.word # ""
                     /\ FT[j].connection_string.word \notin {"", "no url"}
                     /\ FT[j].operation_limit \in 1 .. MaxPermits
                     /\ FT[j].connection_shards > 0
                     /\ \E p \in Places : p[1] = j /\ TokenAt(p).enabled
  BY <1>4 DEF GoodTarget, FileBuildable
<1>6. PlacesGood(Places) <=>
        /\ \A p \in Places :
              /\ TokenAt(p).id.word # "" /\ TokenAt(p).hash.form \notin {"short", "not hex"}
              /\ TokenAt(p).token_type = NoType \/
                    \E c \in (SUBSET Capabilities) \ {{}} : TokenAt(p).token_type \in {c, c \cup {""}}
        /\ \A p, q \in Places : p # q => Apart(p, q)
  BY <1>3 DEF PlacesGood
<1>7. FileChecked <=> /\ FileHead /\ TargetsApart(NT) /\ PlacesGood(Places)
                      /\ \A j \in T : GoodTarget(j) /\ HasEnabled(j)
  BY DEF FileChecked, T
<1>8. \A j \in T : j \in 1 .. NT
  BY DEF T
<1> QED BY <1>1, <1>2, <1>5, <1>6, <1>7 DEF FileHead, T

-----------------------------------------------------------------------------
(* The start, step by step: what has been checked so far, and what is read. *)

\* The environment the process was started in.
InEnvironment ==
    \E e \in Environments : settings = e.settings /\ allowed = e.allowed /\ extra = e.extra

\* The n-th target is being read: m of its tokens are, and r targets are named.
Reading(n, m, r) ==
    /\ load = [target |-> n,
               tokens |-> [k \in 1 .. m |-> ReadTokens[n][k]],
               rrb_ids |-> {FT[j].rrb_id.word : j \in 1 .. r},
               token_ids |-> {TokenAt(p).id.word : p \in Seen(n, m)},
               token_hashes |-> {TokenAt(p).hash.digest :
                                    p \in {q \in Seen(n, m) : TokenAt(q).enabled}}]
    /\ targets = [j \in 1 .. n - 1 |-> ReadTargets[j]]
    /\ settings.mode = "file" /\ FileHead
    /\ \A j \in 1 .. r : GoodTarget(j)
    /\ \A j \in 1 .. n - 1 : HasEnabled(j)
    /\ TargetsApart(r)
    /\ PlacesGood(Seen(n, m))

EnvChecked ==
    LET e == settings.env
    IN  /\ e.token.word # "" /\ e.connection_string.word # ""
        /\ e.operation_limit \in Nat \ {0} /\ e.connection_shards \in Nat \ {0}
        /\ TypeOk(e.token_type)
EnvToken == [hash |-> Sha256(settings.env.token.word), enabled |-> TRUE,
             caps |-> CapsOf(settings.env.token_type)]
EnvTarget == [rrb_id |-> "env", connection_string |-> settings.env.connection_string.word,
              operation_limit |-> settings.env.operation_limit, tokens |-> <<EnvToken>>]

\* All targets are read.
TargetsRead ==
    \/ settings.mode = "file" /\ FileChecked /\ targets = ReadTargets
    \/ settings.mode = "env" /\ EnvChecked /\ targets = <<EnvTarget>>

TN == Len(targets)
TK(i) == Len(targets[i].tokens)
TT(i, k) == targets[i].tokens[k]

\* The first b targets are in the table of routes.
TableOf(ts, rs, b) ==
    /\ \A h \in DOMAIN rs : \E i \in 1 .. b : \E k \in 1 .. Len(ts[i].tokens) :
          ts[i].tokens[k].enabled /\ ts[i].tokens[k].hash = h
    /\ \A i \in 1 .. b : \A k \in 1 .. Len(ts[i].tokens) : ts[i].tokens[k].enabled =>
          /\ ts[i].tokens[k].hash \in DOMAIN rs
          /\ rs[ts[i].tokens[k].hash] = [target |-> ts[i].rrb_id, caps |-> ts[i].tokens[k].caps]
    /\ \A i \in 1 .. b : Buildable(ts[i])
Table(b) == TableOf(targets, routes, b)

StartStages == {"settings", "loading", "target", "token", "building", "refused"}
RequestStages == {"serving", "auth", "body", "policy", "execute", "reply", "answered"}

StartInv ==
    /\ InEnvironment
    /\ stage \in StartStages \cup RequestStages
    /\ stage \in {"settings", "loading"} => load = NoLoad /\ targets = <<>>
    /\ stage \in {"settings", "loading", "target", "token"} => routes = <<>>
    /\ stage \notin {"settings", "refused"} => SoundButBind
    /\ stage = "target" => \E n \in 1 .. NT : Reading(n, 0, n - 1)
    /\ stage = "token" => \E n \in 1 .. NT : \E m \in 0 .. NK(n) : Reading(n, m, n)
    /\ stage = "building" =>
          /\ TargetsRead
          /\ \E b \in 0 .. TN : load = [NoLoad EXCEPT !.target = b + 1] /\ Table(b)
    /\ stage = "refused" => ~Sound
    /\ stage \in RequestStages => CanListen /\ TargetsRead /\ Table(TN)

\* Settings and lists stay, and so does all that is said of them.
LEMMA Rigid ==
    ASSUME settings' = settings, allowed' = allowed, extra' = extra
    PROVE  /\ InEnvironment' <=> InEnvironment
           /\ Sound' <=> Sound
           /\ SoundButBind' <=> SoundButBind
           /\ NT' = NT /\ \A j : NK(j)' = NK(j)
           /\ ReadTargets' = ReadTargets
           /\ FileChecked' <=> FileChecked
           /\ EnvChecked' <=> EnvChecked
           /\ EnvTarget' = EnvTarget
           /\ CanListen' <=> CanListen
<1>1. InEnvironment' <=> InEnvironment
  BY DEF InEnvironment
<1>2. FT' = FT /\ NT' = NT /\ (\A j : NK(j)' = NK(j)) /\ Places' = Places
      /\ (\A p : TokenAt(p)' = TokenAt(p)) /\ (\A j, k : Tok(j, k)' = Tok(j, k))
  BY DEF FT, NT, NK, Places, TokenAt, Tok
<1>3. SoundButBind' <=> SoundButBind
  BY DEF SoundButBind
<1>4. SoundFile' <=> SoundFile
  BY DEF SoundFile, Places, TokenAt
<1>5. SoundEnv' <=> SoundEnv
  BY DEF SoundEnv
<1>6. SoundSettings' <=> SoundSettings
  BY DEF SoundSettings
<1>7. ReadTargets' = ReadTargets
  BY DEF ReadTargets, ReadTokens, NT, NK, FT, Tok
<1>8. FileChecked' <=> FileChecked
  BY <1>2 DEF FileChecked, FileHead, GoodTarget, HasEnabled, TargetsApart, PlacesGood,
              GoodToken, Apart
<1>9. (EnvChecked' <=> EnvChecked) /\ EnvTarget' = EnvTarget /\ (CanListen' <=> CanListen)
  BY DEF EnvChecked, EnvTarget, EnvToken, CanListen
<1> QED BY <1>1, <1>2, <1>3, <1>4, <1>5, <1>6, <1>7, <1>8, <1>9 DEF Sound

\* What is sound, in terms of the checks.
LEMMA SoundIs ==
    ASSUME IsSettings(settings)
    PROVE  Sound <=>
             /\ SoundButBind /\ CanListen
             /\ \/ settings.mode = "env" /\ EnvChecked /\ EnvBuildable
                \/ /\ settings.mode = "file" /\ FileChecked
                   /\ \A j \in 1 .. NT : FileBuildable(j)
<1>1. SoundSettings <=> SoundButBind /\ CanListen
  <2> DEFINE mc == settings.max_concurrency
             mr == settings.max_realtime_concurrency
  <2>1. mc \in Int /\ mr \in Int
    BY DEF IsSettings, Numbers
  <2> HIDE DEF mc, mr
  <2>2. /\ mc \in 1 .. MaxPermits <=> mc > 0 /\ mc <= MaxPermits
        /\ mr \in 1 .. MaxPermits <=> mr > 0 /\ mr <= MaxPermits
    BY <2>1, PermitsAssumption
  <2> QED BY <2>2 DEF SoundSettings, SoundButBind, CanListen, mc, mr
<1>2. SoundEnv <=> EnvChecked /\ EnvBuildable
  <2> DEFINE ol == settings.env.operation_limit
             cs == settings.env.connection_shards
  <2>1. ol \in Int /\ cs \in Int
    BY DEF IsSettings
  <2> HIDE DEF ol, cs
  <2>2. /\ ol \in 1 .. MaxPermits <=> ol \in Nat \ {0} /\ ol <= MaxPermits
        /\ cs > 0 <=> cs \in Nat \ {0}
    BY <2>1, PermitsAssumption
  <2>3. TypeOk(settings.env.token_type) <=> settings.env.token_type = NoType \/
           \E c \in (SUBSET Capabilities) \ {{}} : settings.env.token_type \in {c, c \cup {""}}
    BY TypesChecked
  <2> QED BY <2>2, <2>3 DEF SoundEnv, EnvChecked, EnvBuildable, ol, cs
<1> QED BY <1>1, <1>2, FileIsChecked DEF Sound

LEMMA Settled == ASSUME InEnvironment PROVE IsSettings(settings)
BY HandlersAssumption DEF InEnvironment

LEMMA RigidReading ==
    ASSUME settings' = settings, allowed' = allowed, extra' = extra,
           NEW n, NEW m, NEW r,
           load' = [target |-> n,
                    tokens |-> [k \in 1 .. m |-> ReadTokens[n][k]],
                    rrb_ids |-> {FT[j].rrb_id.word : j \in 1 .. r},
                    token_ids |-> {TokenAt(p).id.word : p \in Seen(n, m)},
                    token_hashes |-> {TokenAt(p).hash.digest :
                                         p \in {q \in Seen(n, m) : TokenAt(q).enabled}}],
           targets' = [j \in 1 .. n - 1 |-> ReadTargets[j]],
           settings.mode = "file", FileHead,
           \A j \in 1 .. r : GoodTarget(j),
           \A j \in 1 .. n - 1 : HasEnabled(j),
           TargetsApart(r),
           PlacesGood(Seen(n, m))
    PROVE  Reading(n, m, r)'
<1>1. ReadTokens' = ReadTokens /\ ReadTargets' = ReadTargets /\ FT' = FT
      /\ Seen(n, m)' = Seen(n, m)
  <2>1. ReadTokens' = ReadTokens /\ ReadTargets' = ReadTargets
    BY DEF ReadTargets, ReadTokens, NT, NK, FT, Tok
  <2>2. FT' = FT /\ Seen(n, m)' = Seen(n, m)
    BY DEF FT, NT, NK, Seen, Places
  <2> QED BY <2>1, <2>2
<1>2. FileHead' /\ TargetsApart(r)'
  BY DEF FileHead, TargetsApart, FT
<1>3. \A j \in 1 .. r : GoodTarget(j)'
  BY DEF GoodTarget, FT
<1>4. \A j \in 1 .. n - 1 : HasEnabled(j)'
  BY DEF HasEnabled, FT, NK, Tok
<1>5. PlacesGood(Seen(n, m))'
  <2>1. \A p : GoodToken(p)' <=> GoodToken(p)
    BY DEF GoodToken, TokenAt
  <2>2. \A p, q : Apart(p, q)' <=> Apart(p, q)
    BY DEF Apart, TokenAt
  <2> QED BY <1>1, <2>1, <2>2 DEF PlacesGood
<1>6. /\ {TokenAt(p).id.word : p \in Seen(n, m)}' = {TokenAt(p).id.word : p \in Seen(n, m)}
      /\ {TokenAt(p).hash.digest : p \in {q \in Seen(n, m) : TokenAt(q).enabled}}' =
            {TokenAt(p).hash.digest : p \in {q \in Seen(n, m) : TokenAt(q).enabled}}
  BY <1>1 DEF TokenAt
<1> QED BY <1>1, <1>2, <1>3, <1>4, <1>5, <1>6 DEF Reading

\* A refusal keeps the invariant if the configuration is not sound.
LEMMA RefusalKept ==
    ASSUME StartInv, ~Sound, Refuse, allowed' = allowed, extra' = extra
    PROVE  StartInv'
<1>1. stage' = "refused" /\ settings' = settings /\ load' = load /\ targets' = targets
      /\ routes' = routes
  BY DEF Refuse
<1>2. InEnvironment' /\ ~Sound'
  BY <1>1, Rigid DEF StartInv
<1>3. stage' \notin RequestStages /\ stage' \in StartStages
  BY <1>1 DEF RequestStages, StartStages
<1> QED BY <1>1, <1>2, <1>3 DEF StartInv

LEMMA CheckSettingsKeeps ==
    ASSUME StartInv, CheckSettings
    PROVE  StartInv'
<1>1. stage = "settings" /\ allowed' = allowed /\ extra' = extra
  BY DEF CheckSettings, Start
<1>2. IsSettings(settings)
  BY Settled DEF StartInv
<1>3. CASE phase' = "refused" /\ Refuse
  <2>1. ~(SettingsOk /\ Validate)
    BY <1>3 DEF CheckSettings, Start
  <2>2. ~Sound
    BY <1>2, <2>1, SettingsChecked, SoundIs
  <2> QED BY <1>1, <1>3, <2>2, RefusalKept
<1>4. CASE phase' = "validated" /\ stage' = "loading" /\ UNCHANGED <<settings, load, targets, routes>>
  <2>1. SettingsOk /\ Validate
    BY <1>4 DEF CheckSettings, Start
  <2>2. SoundButBind' /\ InEnvironment'
    BY <1>1, <1>2, <1>4, <2>1, SettingsChecked, Rigid DEF StartInv
  <2>3. load = NoLoad /\ targets = <<>> /\ routes = <<>>
    BY <1>1 DEF StartInv
  <2>4. stage' = "loading" /\ stage' \notin RequestStages /\ stage' \in StartStages
    BY <1>4 DEF RequestStages, StartStages
  <2>5. NoLoad' = NoLoad
    BY DEF NoLoad
  <2> QED BY <1>4, <2>2, <2>3, <2>4, <2>5 DEF StartInv
<1> QED BY <1>3, <1>4 DEF CheckSettings

LEMMA UnknownModeKeeps ==
    ASSUME StartInv, UnknownMode
    PROVE  StartInv'
<1>1. Refuse /\ allowed' = allowed /\ extra' = extra /\ settings.mode \notin {"env", "file"}
  BY DEF UnknownMode, policyVars
<1>2. ~Sound
  BY <1>1 DEF Sound
<1> QED BY <1>1, <1>2, RefusalKept

LEMMA LoadEnvTargetKeeps ==
    ASSUME StartInv, LoadEnvTarget
    PROVE  StartInv'
<1>1. /\ stage = "loading" /\ settings.mode = "env" /\ allowed' = allowed /\ extra' = extra
      /\ \/ ~EnvChecked /\ Refuse
         \/ /\ EnvChecked
            /\ targets' = <<EnvTarget>> /\ stage' = "building"
            /\ settings' = settings /\ load' = load /\ routes' = routes
  BY DEF LoadEnvTarget, policyVars, EnvChecked, EnvTarget, EnvToken, Trim
<1>2. IsSettings(settings)
  BY Settled DEF StartInv
<1>3. CASE ~EnvChecked /\ Refuse
  <2>1. ~Sound
    BY <1>1, <1>2, <1>3, SoundIs
  <2> QED BY <1>1, <1>3, <2>1, RefusalKept
<1>4. CASE /\ EnvChecked /\ targets' = <<EnvTarget>> /\ stage' = "building"
           /\ settings' = settings /\ load' = load /\ routes' = routes
  <2>1. SoundButBind' /\ InEnvironment' /\ TargetsRead'
    BY <1>1, <1>4, Rigid DEF StartInv, TargetsRead
  <2>2. load = NoLoad /\ routes = <<>>
    BY <1>1 DEF StartInv
  <2>3. stage' = "building" /\ stage' \notin RequestStages /\ stage' \in StartStages
    BY <1>4 DEF RequestStages, StartStages
  <2>4. load' = [NoLoad EXCEPT !.target = 0 + 1] /\ NoLoad' = NoLoad
    BY <1>4, <2>2 DEF NoLoad
  <2>5. Table(0)'
    BY <1>4, <2>2 DEF Table, TableOf
  <2>6. 0 \in 0 .. TN'
    BY <1>4 DEF TN
  <2> QED BY <2>1, <2>3, <2>4, <2>5, <2>6 DEF StartInv
<1> QED BY <1>1, <1>3, <1>4

LEMMA OpenFileKeeps ==
    ASSUME StartInv, OpenFile
    PROVE  StartInv'
<1>1. /\ stage = "loading" /\ settings.mode = "file" /\ allowed' = allowed /\ extra' = extra
      /\ \/ ~FileHead /\ Refuse
         \/ /\ FileHead /\ stage' = "target"
            /\ settings' = settings /\ load' = load /\ targets' = targets /\ routes' = routes
  BY DEF OpenFile, policyVars, FileHead, FT, Trim
<1>2. IsSettings(settings)
  BY Settled DEF StartInv
<1>3. CASE ~FileHead /\ Refuse
  <2>1. ~Sound
    BY <1>1, <1>2, <1>3, SoundIs DEF FileChecked
  <2> QED BY <1>1, <1>3, <2>1, RefusalKept
<1>4. CASE /\ FileHead /\ stage' = "target"
           /\ settings' = settings /\ load' = load /\ targets' = targets /\ routes' = routes
  <2>1. SoundButBind' /\ InEnvironment' /\ NT' = NT
    BY <1>1, <1>4, Rigid DEF StartInv
  <2>2. load = NoLoad /\ targets = <<>> /\ routes = <<>>
    BY <1>1 DEF StartInv
  <2>3. stage' \notin RequestStages /\ stage' \in StartStages
    BY <1>4 DEF RequestStages, StartStages
  <2>4. Reading(1, 0, 0)
    <3>1. Seen(1, 0) = {}
      BY <1>2, SeenNone
    <3>2. /\ [k \in 1 .. 0 |-> ReadTokens[1][k]] = <<>>
          /\ [j \in 1 .. 1 - 1 |-> ReadTargets[j]] = <<>>
      OBVIOUS
    <3>3. /\ {FT[j].rrb_id.word : j \in 1 .. 0} = {}
          /\ {TokenAt(p).id.word : p \in {}} = {}
          /\ {TokenAt(p).hash.digest : p \in {q \in {} : TokenAt(q).enabled}} = {}
      OBVIOUS
    <3>4. TargetsApart(0) /\ PlacesGood({})
      BY DEF TargetsApart, PlacesGood
    <3>5. \A j \in 1 .. 0 : GoodTarget(j)
      OBVIOUS
    <3>6. \A j \in 1 .. 1 - 1 : HasEnabled(j)
      OBVIOUS
    <3> QED BY <1>1, <1>4, <2>2, <3>1, <3>2, <3>3, <3>4, <3>5, <3>6 DEF Reading, NoLoad
  <2>5. Reading(1, 0, 0)'
    BY <1>1, <1>4, <2>4, RigidReading DEF Reading
  <2>6. NT \in Nat /\ NT # 0
    BY <1>2, <1>4, FileShape DEF FileHead
  <2>7. 1 \in 1 .. NT' /\ 1 - 1 = 0
    BY <2>1, <2>6
  <2> QED BY <1>4, <2>1, <2>2, <2>3, <2>5, <2>7 DEF StartInv
<1> QED BY <1>1, <1>3, <1>4

LEMMA TakeTargetKeeps ==
    ASSUME StartInv, TakeTarget
    PROVE  StartInv'
<1>1. stage = "target" /\ allowed' = allowed /\ extra' = extra
  BY DEF TakeTarget, policyVars
<1>2. IsSettings(settings)
  BY Settled DEF StartInv
<1>3. PICK n \in 1 .. NT : Reading(n, 0, n - 1)
  BY <1>1 DEF StartInv
<1>n. NT \in Nat /\ n \in Nat /\ NK(n) \in Nat
  <2>1. NT \in Nat /\ NK(n) \in Nat
    BY <1>2, FileShape
  <2> QED BY <2>1
<1> DEFINE ids == {FT[j].rrb_id.word : j \in 1 .. n - 1}
           Ok == GoodTarget(n) /\ FT[n].rrb_id.word \notin ids
<1>4. FileTarget = FT[n] /\ load.rrb_ids = ids
  BY <1>3 DEF Reading, FileTarget, FT
<1>5. \/ ~Ok /\ Refuse
      \/ /\ Ok /\ load' = [load EXCEPT !.rrb_ids = ids \cup {FT[n].rrb_id.word}]
         /\ stage' = "token" /\ settings' = settings /\ targets' = targets /\ routes' = routes
  BY <1>4 DEF TakeTarget, GoodTarget, Trim
<1>6. CASE ~Ok /\ Refuse
  <2>1. ~(GoodTarget(n) /\ TargetsApart(NT))
    <3>1. ASSUME NEW j \in 1 .. n - 1, FT[n].rrb_id.word = FT[j].rrb_id.word
          PROVE  ~TargetsApart(NT)
      <4>1. j \in 1 .. NT /\ j # n
        BY <1>n
      <4> QED BY <3>1, <4>1 DEF TargetsApart
    <3> QED BY <1>6, <3>1
  <2>2. ~Sound
    BY <1>2, <1>3, <2>1, SoundIs DEF FileChecked, Reading
  <2> QED BY <1>1, <1>6, <2>2, RefusalKept
<1>7. CASE /\ Ok /\ load' = [load EXCEPT !.rrb_ids = ids \cup {FT[n].rrb_id.word}]
           /\ stage' = "token" /\ settings' = settings /\ targets' = targets /\ routes' = routes
  <2>1. SoundButBind' /\ InEnvironment' /\ NT' = NT /\ NK(n)' = NK(n)
    BY <1>1, <1>7, Rigid DEF StartInv
  <2>2. routes = <<>>
    BY <1>1 DEF StartInv
  <2>3. stage' \notin RequestStages /\ stage' \in StartStages
    BY <1>7 DEF RequestStages, StartStages
  <2>4. {FT[j].rrb_id.word : j \in 1 .. n} = ids \cup {FT[n].rrb_id.word}
    <3>1. 1 .. n = (1 .. n - 1) \cup {n}
      BY <1>n
    <3> QED BY <3>1
  <2>5. load' = [target |-> n,
                 tokens |-> [k \in 1 .. 0 |-> ReadTokens[n][k]],
                 rrb_ids |-> {FT[j].rrb_id.word : j \in 1 .. n},
                 token_ids |-> {TokenAt(p).id.word : p \in Seen(n, 0)},
                 token_hashes |-> {TokenAt(p).hash.digest :
                                      p \in {q \in Seen(n, 0) : TokenAt(q).enabled}}]
    <3> HIDE DEF ids
    <3> QED BY <1>3, <1>7, <2>4 DEF Reading
  <2>6. \A j \in 1 .. n : GoodTarget(j)
    <3>1. \A j \in 1 .. n : j \in 1 .. n - 1 \/ j = n
      BY <1>n
    <3> QED BY <1>3, <1>7, <3>1 DEF Reading
  <2>7. TargetsApart(n)
    <3>1. \A j \in 1 .. n : j \in 1 .. n - 1 \/ j = n
      BY <1>n
    <3>2. \A i, j \in 1 .. n - 1 : i # j => FT[i].rrb_id.word # FT[j].rrb_id.word
      BY <1>3 DEF Reading, TargetsApart
    <3>3. \A j \in 1 .. n - 1 : FT[n].rrb_id.word # FT[j].rrb_id.word
      BY <1>7
    <3> QED BY <3>1, <3>2, <3>3 DEF TargetsApart
  <2>8. /\ targets' = [j \in 1 .. n - 1 |-> ReadTargets[j]]
        /\ settings.mode = "file" /\ FileHead
        /\ \A j \in 1 .. n - 1 : HasEnabled(j)
        /\ PlacesGood(Seen(n, 0))
    BY <1>3, <1>7 DEF Reading
  <2>9. Reading(n, 0, n)'
    <3> HIDE DEF Ok
    <3> QED BY <1>1, <1>7, <2>5, <2>6, <2>7, <2>8, RigidReading
  <2>10. n \in 1 .. NT' /\ 0 \in 0 .. NK(n)'
    BY <1>n, <2>1
  <2> QED BY <1>7, <2>1, <2>2, <2>3, <2>9, <2>10 DEF StartInv
<1> QED BY <1>5, <1>6, <1>7

LEMMA TakeTokenKeeps ==
    ASSUME StartInv, TakeToken
    PROVE  StartInv'
<1>1. stage = "token" /\ allowed' = allowed /\ extra' = extra
  BY DEF TakeToken, policyVars
<1>2. IsSettings(settings)
  BY Settled DEF StartInv
<1>3. PICK n \in 1 .. NT : \E m \in 0 .. NK(n) : Reading(n, m, n)
  BY <1>1 DEF StartInv
<1>4. PICK m \in 0 .. NK(n) : Reading(n, m, n)
  BY <1>3
<1>n. NT \in Nat /\ n \in Nat /\ NK(n) \in Nat /\ m \in Nat
  <2>1. NT \in Nat /\ NK(n) \in Nat
    BY <1>2, FileShape
  <2> QED BY <2>1
<1>5. FileTarget = FT[n] /\ load.tokens = [k \in 1 .. m |-> ReadTokens[n][k]]
  BY <1>4 DEF Reading, FileTarget, FT
<1>6. Len(load.tokens) = m
  <2> DEFINE g == ReadTokens[n]
  <2>1. load.tokens = [k \in 1 .. m |-> g[k]]
    BY <1>5
  <2> HIDE DEF g
  <2> QED BY <1>n, <2>1, LengthOfFcn
<1> DEFINE q == <<n, m + 1>>
           t == Tok(n, m + 1)
           ids == {TokenAt(p).id.word : p \in Seen(n, m)}
           hashes == {TokenAt(p).hash.digest : p \in {o \in Seen(n, m) : TokenAt(o).enabled}}
           Ok == GoodToken(q) /\ t.id.word \notin ids /\ (~t.enabled \/ t.hash.digest \notin hashes)
<1>7. m < NK(n) /\ FileTarget.tokens[Len(load.tokens) + 1] = t
  BY <1>5, <1>6 DEF TakeToken, NK, Tok
<1>8. load.token_ids = ids /\ load.token_hashes = hashes
  BY <1>4 DEF Reading
<1>9. TokenAt(q) = t /\ t.enabled \in BOOLEAN
  <2>1. m + 1 \in 1 .. NK(n)
    BY <1>n, <1>7
  <2> QED BY <1>2, <2>1, TokenAtIs, FileShape
<1>10. GoodToken(q) <=> t.id.word # "" /\ TypeOk(t.token_type) /\ HashOk(t.hash)
  BY <1>9 DEF GoodToken
<1> HIDE DEF t, q, ids, hashes
<1>11. \/ ~Ok /\ Refuse
       \/ /\ Ok
          /\ load' = [load EXCEPT
                !.token_ids = ids \cup {t.id.word},
                !.token_hashes = IF t.enabled THEN hashes \cup {t.hash.digest} ELSE hashes,
                !.tokens = Append(load.tokens, ReadToken(t))]
          /\ stage' = stage /\ settings' = settings /\ targets' = targets /\ routes' = routes
  <2>1. FreshHash(t) <=> ~t.enabled \/ t.hash.digest \notin hashes
    BY <1>8 DEF FreshHash
  <2> QED BY <1>7, <1>8, <1>10, <2>1 DEF TakeToken, Trim, ReadToken
<1>12. /\ Seen(n, m + 1) = Seen(n, m) \cup {q}
       /\ q \in Places /\ q \notin Seen(n, m)
  BY <1>2, <1>n, <1>7, SeenNext DEF q
<1>13. Seen(n, m) \subseteq Places
  BY DEF Seen
<1>14. CASE ~Ok /\ Refuse
  <2>1. ~PlacesGood(Places)
    <3>1. CASE ~GoodToken(q)
      BY <1>12, <3>1 DEF PlacesGood
    <3>2. CASE t.id.word \in ids
      <4>1. PICK p \in Seen(n, m) : t.id.word = TokenAt(p).id.word
        BY <3>2 DEF ids
      <4>2. p \in Places /\ p # q /\ ~Apart(p, q)
        BY <1>9, <1>12, <1>13, <4>1 DEF Apart
      <4> QED BY <1>12, <4>2 DEF PlacesGood
    <3>3. CASE t.enabled /\ t.hash.digest \in hashes
      <4>1. PICK p \in Seen(n, m) : TokenAt(p).enabled /\ t.hash.digest = TokenAt(p).hash.digest
        BY <3>3 DEF hashes
      <4>2. p \in Places /\ p # q /\ ~Apart(p, q)
        BY <1>9, <1>12, <1>13, <3>3, <4>1 DEF Apart
      <4> QED BY <1>12, <4>2 DEF PlacesGood
    <3> QED BY <1>14, <3>1, <3>2, <3>3
  <2>2. ~Sound
    BY <1>2, <1>4, <2>1, SoundIs DEF FileChecked, Reading
  <2> QED BY <1>1, <1>14, <2>2, RefusalKept
<1>15. CASE /\ Ok
            /\ load' = [load EXCEPT
                  !.token_ids = ids \cup {t.id.word},
                  !.token_hashes = IF t.enabled THEN hashes \cup {t.hash.digest} ELSE hashes,
                  !.tokens = Append(load.tokens, ReadToken(t))]
            /\ stage' = stage /\ settings' = settings /\ targets' = targets /\ routes' = routes
  <2>1. SoundButBind' /\ InEnvironment' /\ NT' = NT /\ NK(n)' = NK(n)
    BY <1>1, <1>15, Rigid DEF StartInv
  <2>2. routes = <<>>
    BY <1>1 DEF StartInv
  <2>3. stage' = "token" /\ stage' \notin RequestStages /\ stage' \in StartStages
    BY <1>1, <1>15 DEF RequestStages, StartStages
  <2>4. {TokenAt(p).id.word : p \in Seen(n, m + 1)} = ids \cup {t.id.word}
    BY <1>9, <1>12 DEF ids
  <2>5. {TokenAt(p).hash.digest : p \in {o \in Seen(n, m + 1) : TokenAt(o).enabled}} =
           IF t.enabled THEN hashes \cup {t.hash.digest} ELSE hashes
    <3>1. CASE t.enabled
      <4>1. {o \in Seen(n, m + 1) : TokenAt(o).enabled} =
              {o \in Seen(n, m) : TokenAt(o).enabled} \cup {q}
        BY <1>9, <1>12, <3>1
      <4> QED BY <1>9, <3>1, <4>1 DEF hashes
    <3>2. CASE ~t.enabled
      <4>1. {o \in Seen(n, m + 1) : TokenAt(o).enabled} = {o \in Seen(n, m) : TokenAt(o).enabled}
        BY <1>9, <1>12, <3>2
      <4> QED BY <3>2, <4>1 DEF hashes
    <3> QED BY <3>1, <3>2
  <2>6. Append(load.tokens, ReadToken(t)) = [k \in 1 .. m + 1 |-> ReadTokens[n][k]]
    <3> DEFINE g == ReadTokens[n]
    <3>1. m + 1 \in 1 .. NK(n)
      BY <1>n, <1>7
    <3>2. g[m + 1] = ReadToken(t)
      BY <3>1 DEF ReadTokens, t
    <3>3. load.tokens = [k \in 1 .. m |-> g[k]]
      BY <1>5
    <3> HIDE DEF g
    <3>4. Append(load.tokens, ReadToken(t)) = [k \in 1 .. m + 1 |-> g[k]]
      BY <1>n, <3>2, <3>3, AppendNext
    <3> QED BY <3>4 DEF g
  <2>7. load' = [target |-> n,
                 tokens |-> [k \in 1 .. m + 1 |-> ReadTokens[n][k]],
                 rrb_ids |-> {FT[j].rrb_id.word : j \in 1 .. n},
                 token_ids |-> {TokenAt(p).id.word : p \in Seen(n, m + 1)},
                 token_hashes |-> {TokenAt(p).hash.digest :
                                      p \in {o \in Seen(n, m + 1) : TokenAt(o).enabled}}]
    <3> DEFINE a == ids \cup {t.id.word}
               b == IF t.enabled THEN hashes \cup {t.hash.digest} ELSE hashes
               c == Append(load.tokens, ReadToken(t))
    <3>1. load' = [load EXCEPT !.token_ids = a, !.token_hashes = b, !.tokens = c]
      BY <1>15
    <3>2. PICK x, y, z, w : load = [target |-> n, tokens |-> x,
                                 rrb_ids |-> w, token_ids |-> y, token_hashes |-> z]
                         /\ w = {FT[j].rrb_id.word : j \in 1 .. n}
      BY <1>4 DEF Reading
    <3> HIDE DEF a, b, c
    <3>3. load' = [target |-> n, tokens |-> c, rrb_ids |-> w, token_ids |-> a, token_hashes |-> b]
      BY <3>1, <3>2
    <3> QED BY <2>4, <2>5, <2>6, <3>2, <3>3 DEF a, b, c
  <2>8. PlacesGood(Seen(n, m + 1))
    <3>1. PlacesGood(Seen(n, m))
      BY <1>4 DEF Reading
    <3>2. ASSUME NEW p \in Seen(n, m) PROVE Apart(p, q) /\ Apart(q, p)
      <4>1. t.id.word # TokenAt(p).id.word
        BY <1>15 DEF ids
      <4>2. TokenAt(p).enabled /\ t.enabled => t.hash.digest # TokenAt(p).hash.digest
        BY <1>15 DEF hashes
      <4> QED BY <1>9, <4>1, <4>2 DEF Apart
    <3> QED BY <1>12, <1>15, <3>1, <3>2 DEF PlacesGood
  <2>9. /\ targets' = [j \in 1 .. n - 1 |-> ReadTargets[j]]
        /\ settings.mode = "file" /\ FileHead
        /\ \A j \in 1 .. n : GoodTarget(j)
        /\ \A j \in 1 .. n - 1 : HasEnabled(j)
        /\ TargetsApart(n)
    BY <1>4, <1>15 DEF Reading
  <2>10. Reading(n, m + 1, n)'
    <3> HIDE DEF Ok
    <3> QED BY <1>1, <1>15, <2>7, <2>8, <2>9, RigidReading
  <2>11. n \in 1 .. NT' /\ m + 1 \in 0 .. NK(n)'
    BY <1>n, <1>7, <2>1
  <2> HIDE DEF Ok
  <2> QED BY <1>15, <2>1, <2>2, <2>3, <2>10, <2>11 DEF StartInv
<1> HIDE DEF Ok
<1> QED BY <1>11, <1>14, <1>15

LEMMA CloseTargetKeeps ==
    ASSUME StartInv, CloseTarget
    PROVE  StartInv'
<1>1. stage = "token" /\ allowed' = allowed /\ extra' = extra
  BY DEF CloseTarget, policyVars
<1>2. IsSettings(settings)
  BY Settled DEF StartInv
<1>3. PICK n \in 1 .. NT : \E m \in 0 .. NK(n) : Reading(n, m, n)
  BY <1>1 DEF StartInv
<1>4. PICK m \in 0 .. NK(n) : Reading(n, m, n)
  BY <1>3
<1>n. NT \in Nat /\ n \in Nat /\ NK(n) \in Nat /\ m \in Nat
  <2>1. NT \in Nat /\ NK(n) \in Nat
    BY <1>2, FileShape
  <2> QED BY <2>1
<1>5. FileTarget = FT[n] /\ load.tokens = [k \in 1 .. m |-> ReadTokens[n][k]] /\ load.target = n
  BY <1>4 DEF Reading, FileTarget, FT
<1>6. Len(load.tokens) = m
  <2> DEFINE g == ReadTokens[n]
  <2>1. load.tokens = [k \in 1 .. m |-> g[k]]
    BY <1>5
  <2> HIDE DEF g
  <2> QED BY <1>n, <2>1, LengthOfFcn
<1>7. m = NK(n)
  BY <1>5, <1>6 DEF CloseTarget, NK
<1>8. load.tokens = ReadTokens[n]
  <2>1. ReadTokens[n] = [k \in 1 .. NK(n) |-> ReadToken(Tok(n, k))]
    BY DEF ReadTokens
  <2> QED BY <1>5, <1>7, <2>1
<1>9. (\E k \in 1 .. Len(load.tokens) : load.tokens[k].enabled) <=> HasEnabled(n)
  <2> DEFINE ts == load.tokens
  <2>1. \A k \in 1 .. NK(n) : ts[k] = ReadToken(Tok(n, k))
    BY <1>8 DEF ReadTokens
  <2> HIDE DEF ts
  <2>2. \A t : ReadToken(t).enabled = t.enabled
    BY DEF ReadToken
  <2>3. \A k \in 1 .. NK(n) : ts[k].enabled = Tok(n, k).enabled
    BY <2>1, <2>2
  <2> QED BY <1>6, <1>7, <2>3 DEF HasEnabled, ts
<1>10. ReadTargets[n] = [rrb_id |-> FT[n].rrb_id.word,
                         connection_string |-> FT[n].connection_string.word,
                         operation_limit |-> FT[n].operation_limit,
                         tokens |-> load.tokens]
  BY <1>8 DEF ReadTargets
<1> DEFINE last == n = NT
<1>11. \/ ~HasEnabled(n) /\ Refuse
       \/ /\ HasEnabled(n)
          /\ targets' = Append(targets, ReadTargets[n])
          /\ load' = IF last THEN NoLoad ELSE [load EXCEPT !.target = n + 1, !.tokens = <<>>]
          /\ stage' = IF last THEN "building" ELSE "target"
          /\ settings' = settings /\ routes' = routes
  <2>1. load.target = Len(settings.file.targets) <=> last
    BY <1>5 DEF NT, FT
  <2> QED BY <1>5, <1>9, <1>10, <2>1 DEF CloseTarget, Trim
<1>12. CASE ~HasEnabled(n) /\ Refuse
  <2>1. ~Sound
    BY <1>2, <1>4, <1>12, SoundIs DEF FileChecked, Reading
  <2> QED BY <1>1, <1>12, <2>1, RefusalKept
<1>13. CASE /\ HasEnabled(n)
            /\ targets' = Append(targets, ReadTargets[n])
            /\ load' = IF last THEN NoLoad ELSE [load EXCEPT !.target = n + 1, !.tokens = <<>>]
            /\ stage' = IF last THEN "building" ELSE "target"
            /\ settings' = settings /\ routes' = routes
  <2>1. SoundButBind' /\ InEnvironment' /\ NT' = NT /\ NK(n)' = NK(n)
        /\ ReadTargets' = ReadTargets /\ (FileChecked' <=> FileChecked)
    BY <1>1, <1>13, Rigid DEF StartInv
  <2>2. routes = <<>>
    BY <1>1 DEF StartInv
  <2>3. targets' = [j \in 1 .. n |-> ReadTargets[j]]
    <3> DEFINE g == ReadTargets
               i == n - 1
    <3>1. targets = [j \in 1 .. i |-> g[j]]
      BY <1>4 DEF Reading
    <3>2. i \in Nat /\ i + 1 = n
      BY <1>n
    <3> HIDE DEF g, i
    <3>3. Append([j \in 1 .. i |-> g[j]], g[i + 1]) = [j \in 1 .. i + 1 |-> g[j]]
      BY <3>2, AppendNext
    <3> QED BY <1>13, <3>1, <3>2, <3>3 DEF g
  <2>4. \A j \in 1 .. n : HasEnabled(j)
    <3>1. \A j \in 1 .. n : j \in 1 .. n - 1 \/ j = n
      BY <1>n
    <3> QED BY <1>4, <1>13, <3>1 DEF Reading
  <2>5. /\ settings.mode = "file" /\ FileHead
        /\ \A j \in 1 .. n : GoodTarget(j)
        /\ TargetsApart(n)
        /\ PlacesGood(Seen(n, NK(n)))
    BY <1>4, <1>7 DEF Reading
  <2>6. CASE last
    <3>1. FileChecked
      <4>1. Seen(n, NK(n)) = Places
        BY <1>2, <2>6, SeenTurn
      <4> QED BY <2>4, <2>5, <2>6, <4>1 DEF FileChecked
    <3>2. ReadTargets = [j \in 1 .. n |-> ReadTargets[j]]
      BY <2>6 DEF ReadTargets
    <3>3. TargetsRead'
      BY <1>13, <2>1, <2>3, <2>5, <3>1, <3>2 DEF TargetsRead
    <3>4. stage' = "building" /\ stage' \notin RequestStages /\ stage' \in StartStages
      BY <1>13, <2>6 DEF RequestStages, StartStages
    <3>5. load' = [NoLoad EXCEPT !.target = 0 + 1] /\ NoLoad' = NoLoad
      BY <1>13, <2>6 DEF NoLoad
    <3>6. Table(0)'
      BY <1>13, <2>2 DEF Table, TableOf
    <3>7. 0 \in 0 .. TN'
      <4> DEFINE g == ReadTargets
      <4>1. targets' = [j \in 1 .. n |-> g[j]]
        BY <2>3
      <4> HIDE DEF g
      <4>2. TN' = n
        BY <1>n, <4>1, LengthOfFcn DEF TN
      <4> QED BY <1>n, <4>2
    <3> QED BY <2>1, <3>3, <3>4, <3>5, <3>6, <3>7 DEF StartInv
  <2>7. CASE ~last
    <3>1. stage' = "target" /\ stage' \notin RequestStages /\ stage' \in StartStages
      BY <1>13, <2>7 DEF RequestStages, StartStages
    <3>2. Seen(n + 1, 0) = Seen(n, NK(n))
      BY <1>2, SeenTurn
    <3>3. load' = [target |-> n + 1,
                   tokens |-> [k \in 1 .. 0 |-> ReadTokens[n + 1][k]],
                   rrb_ids |-> {FT[j].rrb_id.word : j \in 1 .. n},
                   token_ids |-> {TokenAt(p).id.word : p \in Seen(n + 1, 0)},
                   token_hashes |-> {TokenAt(p).hash.digest :
                                        p \in {o \in Seen(n + 1, 0) : TokenAt(o).enabled}}]
      <4>1. load' = [load EXCEPT !.target = n + 1, !.tokens = <<>>]
        BY <1>13, <2>7
      <4>2. PICK x, y, z, w : /\ load = [target |-> n, tokens |-> x, rrb_ids |-> w,
                                         token_ids |-> y, token_hashes |-> z]
                              /\ w = {FT[j].rrb_id.word : j \in 1 .. n}
                              /\ y = {TokenAt(p).id.word : p \in Seen(n, NK(n))}
                              /\ z = {TokenAt(p).hash.digest :
                                        p \in {o \in Seen(n, NK(n)) : TokenAt(o).enabled}}
        BY <1>4, <1>7 DEF Reading
      <4>3. load' = [target |-> n + 1, tokens |-> <<>>, rrb_ids |-> w, token_ids |-> y,
                     token_hashes |-> z]
        BY <4>1, <4>2
      <4>4. [k \in 1 .. 0 |-> ReadTokens[n + 1][k]] = <<>>
        OBVIOUS
      <4> QED BY <3>2, <4>2, <4>3, <4>4
    <3>4. n + 1 \in 1 .. NT' /\ (n + 1) - 1 = n
      BY <1>n, <2>1, <2>7
    <3>5. PlacesGood(Seen(n + 1, 0))
      BY <2>5, <3>2
    <3>6. Reading(n + 1, 0, n)'
      <4> HIDE DEF last
      <4> QED BY <1>1, <1>13, <2>3, <2>4, <2>5, <3>3, <3>4, <3>5, RigidReading
    <3>7. \E i \in 1 .. NT' : Reading(i, 0, i - 1)'
      BY <3>4, <3>6
    <3> HIDE DEF last
    <3> QED BY <1>13, <2>1, <2>2, <3>1, <3>7 DEF StartInv
  <2> QED BY <2>6, <2>7
<1> HIDE DEF last
<1> QED BY <1>11, <1>12, <1>13

-----------------------------------------------------------------------------
(* The table of routes.                                                    *)

LEMMA TableIs ==
    ASSUME NEW rs, NEW b
    PROVE  TableOf(targets, rs, b) <=>
             /\ \A h \in DOMAIN rs : \E i \in 1 .. b : \E k \in 1 .. TK(i) :
                   TT(i, k).enabled /\ TT(i, k).hash = h
             /\ \A i \in 1 .. b : \A k \in 1 .. TK(i) : TT(i, k).enabled =>
                   /\ TT(i, k).hash \in DOMAIN rs
                   /\ rs[TT(i, k).hash] = [target |-> targets[i].rrb_id, caps |-> TT(i, k).caps]
             /\ \A i \in 1 .. b : Buildable(targets[i])
BY DEF TableOf, TK, TT

\* What the targets are, and that no two enabled tokens share a hash.
LEMMA TargetsAre ==
    ASSUME IsSettings(settings), TargetsRead
    PROVE  /\ TN \in Nat
           /\ \A i \in 1 .. TN : TK(i) \in Nat
           /\ \A i \in 1 .. TN : \A k \in 1 .. TK(i) : TT(i, k).enabled \in BOOLEAN
           /\ \A i, j \in 1 .. TN : \A k \in 1 .. TK(i) : \A l \in 1 .. TK(j) :
                 /\ TT(i, k).enabled /\ TT(j, l).enabled /\ <<i, k>> # <<j, l>>
                 => TT(i, k).hash # TT(j, l).hash
           /\ settings.mode = "file" => /\ TN = NT
                                        /\ \A i \in 1 .. TN : TK(i) = NK(i)
                                        /\ \A i \in 1 .. TN : targets[i] = ReadTargets[i]
                                        /\ \A i \in 1 .. TN : \A k \in 1 .. TK(i) :
                                              TT(i, k) = ReadToken(Tok(i, k))
           /\ settings.mode = "env" => /\ TN = 1 /\ TK(1) = 1
                                       /\ targets[1] = EnvTarget /\ TT(1, 1) = EnvToken
<1>1. CASE settings.mode = "file" /\ FileChecked /\ targets = ReadTargets
  <2>1. NT \in Nat /\ \A j \in 1 .. NT : NK(j) \in Nat
    BY FileShape
  <2>2. TN = NT
    <3> DEFINE g == ReadTargets
    <3>1. targets = [j \in 1 .. NT |-> g[j]]
      BY <1>1 DEF ReadTargets
    <3> HIDE DEF g
    <3> QED BY <2>1, <3>1, LengthOfFcn DEF TN
  <2>3. \A i \in 1 .. NT : targets[i].tokens = [k \in 1 .. NK(i) |-> ReadToken(Tok(i, k))]
    BY <1>1 DEF ReadTargets, ReadTokens
  <2>4. ASSUME NEW i \in 1 .. NT PROVE TK(i) = NK(i)
    <3> DEFINE g == [k \in 1 .. NK(i) |-> ReadToken(Tok(i, k))]
    <3>1. targets[i].tokens = [k \in 1 .. NK(i) |-> g[k]]
      BY <2>3
    <3> HIDE DEF g
    <3> QED BY <2>1, <3>1, LengthOfFcn DEF TK
  <2>5. \A i \in 1 .. NT : \A k \in 1 .. NK(i) : TT(i, k) = ReadToken(Tok(i, k))
    BY <2>3 DEF TT
  <2>6. \A i \in 1 .. NT : \A k \in 1 .. NK(i) : TT(i, k).enabled = Tok(i, k).enabled
                                               /\ TT(i, k).hash = Tok(i, k).hash.digest
    BY <2>5 DEF ReadToken
  <2>7. \A i \in 1 .. NT : \A k \in 1 .. NK(i) : TT(i, k).enabled \in BOOLEAN
    BY <2>6, FileShape
  <2>8. ASSUME NEW i \in 1 .. NT, NEW j \in 1 .. NT, NEW k \in 1 .. NK(i), NEW l \in 1 .. NK(j),
               TT(i, k).enabled, TT(j, l).enabled, <<i, k>> # <<j, l>>
        PROVE  TT(i, k).hash # TT(j, l).hash
    <3>1. <<i, k>> \in Places /\ <<j, l>> \in Places
      BY PlacePair
    <3>2. Apart(<<i, k>>, <<j, l>>)
      BY <1>1, <2>8, <3>1 DEF FileChecked, PlacesGood
    <3>3. Tok(i, k).enabled /\ Tok(j, l).enabled => Tok(i, k).hash.digest # Tok(j, l).hash.digest
      BY <3>2, TokenAtIs DEF Apart
    <3> QED BY <2>6, <2>8, <3>3
  <2>9. settings.mode # "env"
    BY <1>1
  <2> QED BY <1>1, <2>1, <2>2, <2>4, <2>5, <2>7, <2>8, <2>9
<1>2. CASE settings.mode = "env" /\ EnvChecked /\ targets = <<EnvTarget>>
  <2>1. TN = 1 /\ targets[1] = EnvTarget
    BY <1>2 DEF TN
  <2>2. TK(1) = 1 /\ TT(1, 1) = EnvToken
    BY <2>1 DEF TK, TT, EnvTarget
  <2>3. \A i \in 1 .. TN : i = 1
    BY <2>1
  <2>4. \A i \in 1 .. TN : TK(i) = 1
    BY <2>2, <2>3
  <2>5. \A i \in 1 .. TN : \A k \in 1 .. TK(i) : i = 1 /\ k = 1
    BY <2>3, <2>4
  <2>6. EnvToken.enabled \in BOOLEAN
    BY DEF EnvToken
  <2>7. settings.mode # "file"
    BY <1>2
  <2>8. TN \in Nat /\ \A i \in 1 .. TN : TK(i) \in Nat
    BY <2>1, <2>4
  <2> QED BY <1>2, <2>1, <2>2, <2>5, <2>6, <2>7, <2>8
<1> QED BY <1>1, <1>2 DEF TargetsRead

LEMMA BuildTargetKeeps ==
    ASSUME StartInv, BuildTarget
    PROVE  StartInv'
<1>1. stage = "building" /\ allowed' = allowed /\ extra' = extra
  BY DEF BuildTarget, policyVars
<1>2. IsSettings(settings) /\ TargetsRead
  BY <1>1, Settled DEF StartInv
<1>3. PICK b \in 0 .. TN : load = [NoLoad EXCEPT !.target = b + 1] /\ Table(b)
  BY <1>1 DEF StartInv
<1>4. TN \in Nat /\ b \in Nat
  <2>1. TN \in Nat
    BY <1>2, TargetsAre
  <2> QED BY <2>1
<1> DEFINE n == b + 1
           t == targets[n]
           on == {TT(n, k) : k \in {j \in 1 .. TK(n) : TT(n, j).enabled}}
           hashes == {token.hash : token \in on}
           Entry(h) == [target |-> t.rrb_id, caps |-> (CHOOSE token \in on : token.hash = h).caps]
           Ok == /\ t.connection_string # "no url"
                 /\ t.operation_limit <= MaxPermits
                 /\ hashes \cap DOMAIN routes = {}
                 /\ \A i, j \in 1 .. TK(n) :
                       i < j /\ TT(n, i).enabled /\ TT(n, j).enabled => TT(n, i).hash # TT(n, j).hash
           Read == [h \in DOMAIN routes \cup hashes |-> IF h \in hashes THEN Entry(h) ELSE routes[h]]
<1>5. load.target = n
  BY <1>3 DEF NoLoad
<1>5a. n = b + 1
  OBVIOUS
<1>5b. /\ \A h \in DOMAIN routes : \E i \in 1 .. b : \E k \in 1 .. TK(i) :
             TT(i, k).enabled /\ TT(i, k).hash = h
       /\ \A i \in 1 .. b : \A k \in 1 .. TK(i) : TT(i, k).enabled =>
             /\ TT(i, k).hash \in DOMAIN routes
             /\ routes[TT(i, k).hash] = [target |-> targets[i].rrb_id, caps |-> TT(i, k).caps]
       /\ \A i \in 1 .. b : Buildable(targets[i])
  <2>1. TableOf(targets, routes, b)
    BY <1>3 DEF Table
  <2> QED BY <2>1, TableIs
<1> HIDE DEF n
<1>6. /\ n <= TN
      /\ \/ ~Ok /\ Refuse
         \/ /\ Ok /\ routes' = Read /\ load' = [load EXCEPT !.target = n + 1]
            /\ settings' = settings /\ stage' = stage /\ targets' = targets
  <2>1. EnabledTokens(targets[n]) = on
    BY DEF EnabledTokens, TT, TK
  <2>2. load.target <= TN
    BY DEF BuildTarget, TN
  <2> DEFINE u == targets[load.target]
             on2 == EnabledTokens(u)
             hashes2 == {token.hash : token \in on2}
             Entry2(h) == [target |-> u.rrb_id,
                           caps |-> (CHOOSE token \in on2 : token.hash = h).caps]
             Ok2 == /\ u.connection_string # "no url"
                    /\ u.operation_limit <= MaxPermits
                    /\ hashes2 \cap DOMAIN routes = {}
                    /\ \A i, j \in 1 .. Len(u.tokens) :
                          i < j /\ u.tokens[i].enabled /\ u.tokens[j].enabled =>
                              u.tokens[i].hash # u.tokens[j].hash
             Read2 == [h \in DOMAIN routes \cup hashes2 |->
                          IF h \in hashes2 THEN Entry2(h) ELSE routes[h]]
  <2>3. \/ ~Ok2 /\ Refuse
        \/ /\ Ok2 /\ routes' = Read2 /\ load' = [load EXCEPT !.target = load.target + 1]
           /\ settings' = settings /\ stage' = stage /\ targets' = targets
    BY Zenon DEF BuildTarget
  <2>4. u = t /\ on2 = on
    BY <1>5, <2>1
  <2>5. Ok2 <=> Ok
    BY <2>4 DEF TK, TT
  <2>6. Read2 = Read
    <3> HIDE DEF on, on2, t, u
    <3> QED BY <2>4
  <2> HIDE DEF Ok, Ok2, Read, Read2
  <2> QED BY <1>5, <2>2, <2>3, <2>5, <2>6
<1>7. n \in 1 .. TN /\ n \in Nat
  <2>1. n <= TN
    BY <1>6
  <2> QED BY <1>4, <1>5a, <2>1
<1>8. TK(n) \in Nat /\ \A k \in 1 .. TK(n) : TT(n, k).enabled \in BOOLEAN
  BY <1>2, <1>7, TargetsAre
<1>9. \A i \in 1 .. b : i \in 1 .. TN /\ i # n
  BY <1>4, <1>5a
<1>10. ASSUME NEW i \in 1 .. TN, NEW k \in 1 .. TK(i), NEW l \in 1 .. TK(n),
              TT(i, k).enabled, TT(n, l).enabled, TT(i, k).hash = TT(n, l).hash
       PROVE  i = n /\ k = l
  <2>1. <<i, k>> = <<n, l>>
    BY <1>2, <1>7, <1>10, TargetsAre
  <2> QED BY <2>1
<1>11. \A h : h \in hashes <=> \E k \in 1 .. TK(n) : TT(n, k).enabled /\ TT(n, k).hash = h
  OBVIOUS
<1>12. hashes \cap DOMAIN routes = {}
  <2> SUFFICES ASSUME NEW h \in hashes, h \in DOMAIN routes PROVE FALSE
    OBVIOUS
  <2>1. PICK l \in 1 .. TK(n) : TT(n, l).enabled /\ TT(n, l).hash = h
    BY <1>11
  <2>2. PICK i \in 1 .. b : \E k \in 1 .. TK(i) : TT(i, k).enabled /\ TT(i, k).hash = h
    BY <1>5b
  <2>3. PICK k \in 1 .. TK(i) : TT(i, k).enabled /\ TT(i, k).hash = h
    BY <2>2
  <2> HIDE DEF hashes
  <2>4. i \in 1 .. TN /\ i # n
    BY <1>9
  <2> QED BY <1>10, <2>1, <2>3, <2>4
<1>13. \A i, j \in 1 .. TK(n) :
          i < j /\ TT(n, i).enabled /\ TT(n, j).enabled => TT(n, i).hash # TT(n, j).hash
  <2> SUFFICES ASSUME NEW i \in 1 .. TK(n), NEW j \in 1 .. TK(n), i < j, TT(n, i).enabled,
                      TT(n, j).enabled, TT(n, i).hash = TT(n, j).hash
               PROVE  FALSE
    OBVIOUS
  <2>1. i = j
    BY <1>7, <1>10
  <2> QED BY <1>8, <2>1
<1>14. Ok <=> Buildable(t)
  <2> HIDE DEF hashes
  <2> QED BY <1>12, <1>13 DEF Buildable
<1>15. CASE ~Ok /\ Refuse
  <2>1. ~Buildable(t)
    BY <1>14, <1>15
  <2>2. ~Sound
    <3>1. CASE settings.mode = "file"
      <4>1. t = ReadTargets[n] /\ n \in 1 .. NT
        BY <1>2, <1>7, <3>1, TargetsAre
      <4>2. ~FileBuildable(n)
        <5>1. /\ ReadTargets[n].connection_string = FT[n].connection_string.word
              /\ ReadTargets[n].operation_limit = FT[n].operation_limit
          BY <4>1 DEF ReadTargets
        <5> QED BY <2>1, <4>1, <5>1 DEF Buildable, FileBuildable
      <4> HIDE DEF t
      <4> QED BY <1>2, <3>1, <4>1, <4>2, SoundIs
    <3>2. CASE settings.mode = "env"
      <4>1. TN = 1 /\ targets[1] = EnvTarget
        BY <1>2, <3>2, TargetsAre
      <4>2. n = 1
        BY <1>7, <4>1
      <4>3. ~EnvBuildable
        <5>1. /\ EnvTarget.connection_string = settings.env.connection_string.word
              /\ EnvTarget.operation_limit = settings.env.operation_limit
          BY DEF EnvTarget
        <5> QED BY <2>1, <4>1, <4>2, <5>1 DEF Buildable, EnvBuildable
      <4> QED BY <1>2, <3>2, <4>3, SoundIs
    <3> QED BY <1>2, <3>1, <3>2 DEF TargetsRead
  <2> QED BY <1>1, <1>15, <2>2, RefusalKept
<1>16. CASE /\ Ok /\ routes' = Read /\ load' = [load EXCEPT !.target = n + 1]
            /\ settings' = settings /\ stage' = stage /\ targets' = targets
  <2>1. SoundButBind' /\ InEnvironment' /\ TargetsRead'
    BY <1>1, <1>2, <1>16, Rigid DEF StartInv, TargetsRead
  <2>2. stage' = "building" /\ stage' \notin RequestStages /\ stage' \in StartStages
    BY <1>1, <1>16 DEF RequestStages, StartStages
  <2>3. load' = [NoLoad EXCEPT !.target = n + 1] /\ NoLoad' = NoLoad
    BY <1>3, <1>16 DEF NoLoad
  <2>4. n \in 0 .. TN' /\ TN' = TN
    <3>1. TN' = TN
      BY <1>16 DEF TN
    <3> QED BY <1>4, <1>7, <3>1
  <2>6. \A i \in 1 .. n : i \in 1 .. b \/ i = n
    BY <1>4, <1>5a
  <2>6a. \A i \in 1 .. b : i \in 1 .. n
    BY <1>4, <1>5a
  <2>6b. n \in 1 .. n
    BY <1>7
  <2>7. DOMAIN routes' = DOMAIN routes \cup hashes
    BY <1>16
  <2>8. \A h \in DOMAIN routes : routes'[h] = routes[h]
    <3>1. \A h \in DOMAIN routes : h \notin hashes
      <4> HIDE DEF hashes
      <4> QED BY <1>12
    <3> HIDE DEF hashes, Entry
    <3> QED BY <1>16, <3>1
  <2>9. \A h \in hashes : routes'[h] = Entry(h)
    <3> HIDE DEF hashes, Entry
    <3> QED BY <1>16
  <2>10. ASSUME NEW k \in 1 .. TK(n), TT(n, k).enabled
         PROVE  Entry(TT(n, k).hash) = [target |-> t.rrb_id, caps |-> TT(n, k).caps]
    <3> DEFINE token == CHOOSE x \in on : x.hash = TT(n, k).hash
    <3>1. TT(n, k) \in on
      BY <2>10
    <3> HIDE DEF on
    <3>2. token \in on /\ token.hash = TT(n, k).hash
      BY <3>1
    <3> USE DEF on
    <3> HIDE DEF token
    <3>3. PICK l \in 1 .. TK(n) : TT(n, l).enabled /\ token = TT(n, l)
      BY <3>2
    <3>4. l = k
      <4> HIDE DEF on
      <4> QED BY <1>7, <1>10, <2>10, <3>2, <3>3
    <3> QED BY <3>3, <3>4 DEF token
  <2> HIDE DEF hashes, Entry, on, Ok, Read
  <2>11. ASSUME NEW h \in DOMAIN routes'
         PROVE  \E i \in 1 .. n : \E k \in 1 .. TK(i) : TT(i, k).enabled /\ TT(i, k).hash = h
    <3>1. CASE h \in hashes
      BY <1>11, <2>6b, <3>1
    <3>2. CASE h \in DOMAIN routes
      <4>1. \E i \in 1 .. b : \E k \in 1 .. TK(i) : TT(i, k).enabled /\ TT(i, k).hash = h
        BY <1>5b, <3>2
      <4> QED BY <2>6a, <4>1
    <3> QED BY <2>7, <3>1, <3>2
  <2>12. ASSUME NEW i \in 1 .. n, NEW k \in 1 .. TK(i), TT(i, k).enabled
         PROVE  /\ TT(i, k).hash \in DOMAIN routes'
                /\ routes'[TT(i, k).hash] = [target |-> targets[i].rrb_id, caps |-> TT(i, k).caps]
    <3>1. CASE i \in 1 .. b
      BY <1>5b, <2>7, <2>8, <2>12, <3>1
    <3>2. CASE i = n
      <4>1. TT(n, k).hash \in hashes
        BY <1>11, <2>12, <3>2
      <4>2. routes'[TT(n, k).hash] = Entry(TT(n, k).hash)
        BY <2>9, <4>1
      <4> QED BY <2>7, <2>10, <2>12, <3>2, <4>1, <4>2
    <3> QED BY <2>6, <3>1, <3>2
  <2>13. \A i \in 1 .. n : Buildable(targets[i])
    BY <1>5b, <1>14, <1>16, <2>6
  <2>14. Table(n)'
    <3>1. TableOf(targets, routes', n)
      BY <2>11, <2>12, <2>13, TableIs
    <3> QED BY <1>16, <3>1 DEF Table
  <2> QED BY <2>1, <2>2, <2>3, <2>4, <2>14 DEF StartInv
<1> HIDE DEF Ok, Read
<1> QED BY <1>6, <1>15, <1>16

\* A request stage follows with the same configuration, targets and table.
LEMMA ServingKept ==
    ASSUME StartInv, stage' \in RequestStages, settings' = settings, allowed' = allowed,
           extra' = extra, targets' = targets, routes' = routes,
           CanListen, SoundButBind, TargetsRead, Table(TN)
    PROVE  StartInv'
<1>1. SoundButBind' /\ CanListen' /\ InEnvironment' /\ TargetsRead'
  BY Rigid DEF StartInv, TargetsRead
<1>2. Table(TN)'
  BY DEF Table, TN
<1>3. stage' \notin StartStages
  BY DEF RequestStages, StartStages
<1> QED BY <1>1, <1>2, <1>3 DEF StartInv, StartStages

LEMMA ListenKeeps ==
    ASSUME StartInv, Listen
    PROVE  StartInv'
<1>1. stage = "building" /\ allowed' = allowed /\ extra' = extra
  BY DEF Listen, policyVars
<1>2. IsSettings(settings) /\ TargetsRead /\ SoundButBind
  BY <1>1, Settled DEF StartInv
<1>3. PICK b \in 0 .. TN : load = [NoLoad EXCEPT !.target = b + 1] /\ Table(b)
  BY <1>1 DEF StartInv
<1>4. TN \in Nat /\ b \in Nat
  <2>1. TN \in Nat
    BY <1>2, TargetsAre
  <2> QED BY <2>1
<1>5. load.target = b + 1
  BY <1>3 DEF NoLoad
<1>6. b = TN
  <2>1. b + 1 > TN
    BY <1>5 DEF Listen, TN
  <2> QED BY <1>4, <2>1
<1>7. CASE ~CanListen /\ Refuse
  <2>1. ~Sound
    BY <1>2, <1>7, SoundIs
  <2> QED BY <1>1, <1>7, <2>1, RefusalKept
<1>8. CASE CanListen /\ stage' = "serving" /\ UNCHANGED <<settings, targets, routes>>
  <2>1. stage' \in RequestStages
    BY <1>8 DEF RequestStages
  <2> QED BY <1>1, <1>2, <1>3, <1>6, <1>8, <2>1, ServingKept
<1> QED BY <1>7, <1>8 DEF Listen, CanListen

-----------------------------------------------------------------------------
(* Tokens.                                                                 *)

\* The token of the request is in the table, and its entry there.
KnownToken == Presented # "" /\ HashOf(Presented) \in DOMAIN routes
Entry == routes[HashOf(Presented)]

\* The table answers a token as the operator's entries do.
LEMMA EntriesAgree ==
    ASSUME IsSettings(settings), TargetsRead, Table(TN), NEW token
    PROVE  /\ HashOf(token) \in DOMAIN routes <=> EntriesOf(token) # {}
           /\ HashOf(token) \in DOMAIN routes =>
                 /\ routes[HashOf(token)].caps \in (SUBSET Capabilities) \ {{}}
                 /\ routes[HashOf(token)].target # ""
                 /\ \E e \in EntriesOf(token) :
                       /\ EntriesOf(token) = {e}
                       /\ routes[HashOf(token)].target = e[1]
                       /\ routes[HashOf(token)].caps =
                             IF e[2] = NoType THEN {"command"} ELSE e[2] \ {""}
<1> DEFINE h == HashOf(token)
<1>1. /\ \A x \in DOMAIN routes : \E i \in 1 .. TN : \E k \in 1 .. TK(i) :
            TT(i, k).enabled /\ TT(i, k).hash = x
      /\ \A i \in 1 .. TN : \A k \in 1 .. TK(i) : TT(i, k).enabled =>
            /\ TT(i, k).hash \in DOMAIN routes
            /\ routes[TT(i, k).hash] = [target |-> targets[i].rrb_id, caps |-> TT(i, k).caps]
      /\ \A i \in 1 .. TN : Buildable(targets[i])
  <2>1. TableOf(targets, routes, TN)
    BY DEF Table
  <2> QED BY <2>1, TableIs
<1>2. h \in DOMAIN routes <=>
        \E i \in 1 .. TN : \E k \in 1 .. TK(i) : TT(i, k).enabled /\ TT(i, k).hash = h
  <2> HIDE DEF h
  <2> QED BY <1>1
<1>3. CASE settings.mode = "env"
  <2>1. TN = 1 /\ TK(1) = 1 /\ targets[1] = EnvTarget /\ TT(1, 1) = EnvToken
    BY <1>3, TargetsAre
  <2>2. /\ EnvToken.hash = <<"sha256", settings.env.token.word>> /\ EnvToken.enabled
        /\ EnvToken.caps = CapsOf(settings.env.token_type) /\ EnvTarget.rrb_id = "env"
    BY DEF EnvToken, EnvTarget, Sha256
  <2>3. h = <<"sha256", token>>
    BY <1>3 DEF HashOf, Sha256
  <2>4. TypeOk(settings.env.token_type)
    BY <1>3 DEF TargetsRead, EnvChecked
  <2> DEFINE e == <<"env", settings.env.token_type>>
  <2>5. EntriesOf(token) = IF token = settings.env.token.word THEN {e} ELSE {}
    BY <1>3 DEF EntriesOf
  <2>6. \A i \in 1 .. TN : \A k \in 1 .. TK(i) : i = 1 /\ k = 1
    <3>1. \A i \in 1 .. TN : i = 1
      BY <2>1
    <3> QED BY <2>1, <3>1
  <2>7. 1 \in 1 .. TN /\ 1 \in 1 .. TK(1)
    BY <2>1
  <2>8. h \in DOMAIN routes <=> EnvToken.hash = h
    BY <1>2, <2>1, <2>2, <2>6, <2>7
  <2>9. EnvToken.hash = h <=> token = settings.env.token.word
    BY <2>2, <2>3
  <2>10. h \in DOMAIN routes => routes[h] = [target |-> "env", caps |-> CapsOf(settings.env.token_type)]
    <3>1. /\ TT(1, 1).enabled => TT(1, 1).hash \in DOMAIN routes
          /\ TT(1, 1).enabled => routes[TT(1, 1).hash] = [target |-> targets[1].rrb_id,
                                                         caps |-> TT(1, 1).caps]
      BY <1>1, <2>7
    <3> HIDE DEF h
    <3> QED BY <2>1, <2>2, <2>8, <3>1
  <2>11. h \in DOMAIN routes => routes[h].target = "env" /\ routes[h].caps = CapsOf(settings.env.token_type)
    <3> HIDE DEF h
    <3> QED BY <2>10
  <2>12. e[1] = "env" /\ e[2] = settings.env.token_type
    OBVIOUS
  <2> HIDE DEF h, e
  <2>13. /\ CapsOf(settings.env.token_type) \in (SUBSET Capabilities) \ {{}}
         /\ CapsOf(settings.env.token_type) = IF settings.env.token_type = NoType THEN {"command"}
                                              ELSE settings.env.token_type \ {""}
    BY <2>4, TypesChecked
  <2>14. "env" # ""
    OBVIOUS
  <2> QED BY <2>5, <2>8, <2>9, <2>11, <2>12, <2>13, <2>14 DEF h
<1>4. CASE settings.mode = "file"
  <2>1. /\ TN = NT
        /\ \A i \in 1 .. TN : TK(i) = NK(i)
        /\ \A i \in 1 .. TN : targets[i] = ReadTargets[i]
        /\ \A i \in 1 .. TN : \A k \in 1 .. TK(i) : TT(i, k) = ReadToken(Tok(i, k))
    BY <1>4, TargetsAre
  <2>2. h = <<"hmac", settings.hash_token.word, token>>
    BY <1>4 DEF HashOf, HmacSha256, Trim
  <2> DEFINE Mine(q) == TokenAt(q).enabled /\ TokenAt(q).hash.digest = h
             E(q) == <<FT[q[1]].rrb_id.word, TokenAt(q).token_type>>
  <2>3. EntriesOf(token) = {E(q) : q \in {p \in Places : Mine(p)}}
    <3>1. settings.mode # "env"
      BY <1>4
    <3> HIDE DEF h
    <3> QED BY <2>2, <3>1 DEF EntriesOf, FT
  <2> HIDE DEF h
  <2>4. ASSUME NEW i \in 1 .. TN, NEW k \in 1 .. TK(i)
        PROVE  /\ <<i, k>> \in Places
               /\ Mine(<<i, k>>) <=> TT(i, k).enabled /\ TT(i, k).hash = h
               /\ TT(i, k).caps = CapsOf(TokenAt(<<i, k>>).token_type)
               /\ targets[i].rrb_id = FT[i].rrb_id.word /\ FT[i].rrb_id.word # ""
               /\ TypeOk(TokenAt(<<i, k>>).token_type)
    <3>1. i \in 1 .. NT /\ k \in 1 .. NK(i)
      BY <2>1
    <3>2. <<i, k>> \in Places
      BY <3>1, PlacePair
    <3>3. TokenAt(<<i, k>>) = Tok(i, k)
      BY TokenAtIs
    <3>4. /\ ReadToken(Tok(i, k)).enabled = Tok(i, k).enabled
          /\ ReadToken(Tok(i, k)).hash = Tok(i, k).hash.digest
          /\ ReadToken(Tok(i, k)).caps = CapsOf(Tok(i, k).token_type)
      BY DEF ReadToken
    <3>5. ReadTargets[i].rrb_id = FT[i].rrb_id.word
      BY <3>1 DEF ReadTargets
    <3>6. FileChecked
      BY <1>4 DEF TargetsRead
    <3>7. FT[i].rrb_id.word # "" /\ TypeOk(TokenAt(<<i, k>>).token_type)
      BY <3>1, <3>2, <3>6 DEF FileChecked, GoodTarget, PlacesGood, GoodToken
    <3> QED BY <2>1, <3>2, <3>3, <3>4, <3>5, <3>7
  <2>5. \A p \in Places : p = <<p[1], p[2]>> /\ p[1] \in 1 .. TN /\ p[2] \in 1 .. TK(p[1])
    BY <2>1, PlacePair
  <2>6. \A p \in Places : Mine(p) => /\ TT(p[1], p[2]).enabled /\ TT(p[1], p[2]).hash = h
                                     /\ p[1] \in 1 .. TN /\ p[2] \in 1 .. TK(p[1])
                                     /\ p = <<p[1], p[2]>>
    <3> HIDE DEF Mine
    <3> QED BY <2>4, <2>5
  <2>7. h \in DOMAIN routes <=> \E p \in Places : Mine(p)
    <3>1. ASSUME h \in DOMAIN routes PROVE \E p \in Places : Mine(p)
      <4> HIDE DEF Mine
      <4>1. PICK i \in 1 .. TN : \E k \in 1 .. TK(i) : TT(i, k).enabled /\ TT(i, k).hash = h
        BY <1>2, <3>1
      <4>2. PICK k \in 1 .. TK(i) : TT(i, k).enabled /\ TT(i, k).hash = h
        BY <4>1
      <4> QED BY <2>4, <4>2
    <3>2. ASSUME NEW p \in Places, Mine(p) PROVE h \in DOMAIN routes
      <4> HIDE DEF Mine
      <4> QED BY <1>2, <2>6, <3>2
    <3> QED BY <3>1, <3>2
  <2>8. \A p, q \in Places : Mine(p) /\ Mine(q) => p = q
    <3> SUFFICES ASSUME NEW p \in Places, NEW q \in Places, Mine(p), Mine(q), p # q PROVE FALSE
      OBVIOUS
    <3>1. Apart(p, q)
      BY <1>4 DEF TargetsRead, FileChecked, PlacesGood
    <3> QED BY <3>1 DEF Apart
  <2>9. (EntriesOf(token) # {}) <=> \E p \in Places : Mine(p)
    <3> HIDE DEF Mine, E
    <3> QED BY <2>3
  <2>10. ASSUME NEW p \in Places, Mine(p)
         PROVE  /\ EntriesOf(token) = {E(p)}
                /\ routes[h] = [target |-> E(p)[1], caps |-> CapsOf(E(p)[2])]
                /\ E(p)[1] # "" /\ TypeOk(E(p)[2])
    <3>1. EntriesOf(token) = {E(p)}
      <4> HIDE DEF Mine, E
      <4> QED BY <2>3, <2>8, <2>10
    <3> DEFINE i == p[1]
               k == p[2]
    <3>2. TT(i, k).enabled /\ TT(i, k).hash = h /\ i \in 1 .. TN /\ k \in 1 .. TK(i) /\ p = <<i, k>>
      <4> HIDE DEF Mine
      <4> QED BY <2>6, <2>10
    <3> HIDE DEF i, k
    <3>3. E(p)[1] = FT[i].rrb_id.word /\ E(p)[2] = TokenAt(p).token_type
      BY DEF i
    <3>4. routes[h] = [target |-> targets[i].rrb_id, caps |-> TT(i, k).caps]
      BY <1>1, <3>2
    <3>5. /\ TT(i, k).caps = CapsOf(TokenAt(p).token_type)
          /\ targets[i].rrb_id = FT[i].rrb_id.word /\ FT[i].rrb_id.word # ""
          /\ TypeOk(TokenAt(p).token_type)
      <4> HIDE DEF Mine
      <4> QED BY <2>4, <3>2
    <3> HIDE DEF E, Mine
    <3> QED BY <3>1, <3>3, <3>4, <3>5
  <2>11. ASSUME h \in DOMAIN routes
         PROVE  /\ routes[h].caps \in (SUBSET Capabilities) \ {{}}
                /\ routes[h].target # ""
                /\ \E e \in EntriesOf(token) :
                      /\ EntriesOf(token) = {e}
                      /\ routes[h].target = e[1]
                      /\ routes[h].caps = IF e[2] = NoType THEN {"command"} ELSE e[2] \ {""}
    <3>1. PICK p \in Places : Mine(p)
      BY <2>7, <2>11
    <3> HIDE DEF Mine, E
    <3>2. PICK e : e = E(p)
      OBVIOUS
    <3>3. /\ EntriesOf(token) = {e}
          /\ routes[h] = [target |-> e[1], caps |-> CapsOf(e[2])]
          /\ e[1] # "" /\ TypeOk(e[2])
      BY <2>10, <3>1, <3>2
    <3>4. routes[h].target = e[1] /\ routes[h].caps = CapsOf(e[2])
      <4> DEFINE a == e[1]
                 c == CapsOf(e[2])
      <4>1. routes[h] = [target |-> a, caps |-> c]
        BY <3>3
      <4> HIDE DEF a, c
      <4>2. routes[h].target = a /\ routes[h].caps = c
        BY <4>1
      <4> QED BY <4>2 DEF a, c
    <3>5. /\ CapsOf(e[2]) \in (SUBSET Capabilities) \ {{}}
          /\ CapsOf(e[2]) = IF e[2] = NoType THEN {"command"} ELSE e[2] \ {""}
      BY <3>3, TypesChecked
    <3> QED BY <3>3, <3>4, <3>5
  <2> HIDE DEF Mine, E
  <2> QED BY <2>7, <2>9, <2>11 DEF h
<1> QED BY <1>3, <1>4 DEF TargetsRead

-----------------------------------------------------------------------------
(* A request, stage by stage.                                              *)

\* Nothing was counted, recorded or run yet.
Fresh ==
    /\ charged = NoAddr /\ cleared = NoAddr /\ ran = NoRun
    /\ denied = <<>> /\ command_denied = <<>>

\* The request was let in, with the route of its token.
Routed ==
    /\ request.route # "metrics" /\ ~PathRejected /\ KnownToken /\ route = Entry
    /\ charged = NoAddr /\ cleared = ClientIp
    /\ denied = <<>> /\ command_denied = <<>>

\* What a request leaves behind: what is counted, what is run, and who it was.
Counted ==
    /\ (denied = <<>>) <=> (status = 200 \/ (ran # NoRun /\ status # 502) \/ PathRejected)
    /\ denied = <<>> \/ \E reason : denied = <<<<request.route, reason>>>>
    /\ (command_denied # <<>>) <=> (sent = Denied)
    /\ status = 502 => ran # NoRun
RanAsRouted ==
    /\ request.route # "metrics" => (charged # NoAddr <=> ~KnownToken /\ ~PathRejected)
    /\ ran # NoRun => /\ request.route # "metrics" /\ KnownToken
                      /\ ran.target = Entry.target /\ caps = Entry.caps
                      /\ phase = "judged" /\ sent # Denied /\ ran.commands = sent
Recorded ==
    /\ charged \in {NoAddr, ClientIp} /\ cleared \in {NoAddr, ClientIp}
    /\ charged = NoAddr \/ cleared = NoAddr

RequestInv ==
    /\ stage = "settings" => phase = "config"
    /\ stage \in {"loading", "target", "token", "building", "serving", "auth", "body"} =>
          phase = "validated"
    /\ stage = "policy" => phase = "judging"
    /\ phase \in {"config", "refused", "validated", "judging"} => sent = <<>>
    /\ stage \in {"execute", "reply"} => phase = "judged" /\ sent # Denied
    /\ stage \in StartStages \cup {"serving", "auth"} => Fresh
    /\ stage \in RequestStages \ {"serving"} => IsRequest(request)
    /\ stage \in {"body", "policy", "execute", "reply"} => Routed
    /\ stage \in {"policy", "execute", "reply"} =>
          caps = route.caps /\ request.route \in CommandRoutes
    /\ stage \in {"body", "policy", "execute"} => ran = NoRun
    /\ stage = "reply" => ran = [target |-> route.target, commands |-> sent]
    /\ stage = "answered" => Counted /\ RanAsRouted /\ Recorded

HandlersInv == StartInv /\ RequestInv

\* What is said of a request stays, too.
LEMMA RequestRigid ==
    ASSUME settings' = settings, routes' = routes, request' = request
    PROVE  /\ ClientIp' = ClientIp
           /\ KnownToken' <=> KnownToken
           /\ Entry' = Entry
           /\ IsRequest(request') <=> IsRequest(request)
           /\ PathRejected' <=> PathRejected
<1>1. ClientIp' = ClientIp
  BY DEF ClientIp, TrustedProxies, Proxies
<1>2. Presented' = Presented
  BY DEF Presented
<1>3. HashOf(Presented)' = HashOf(Presented)
  BY <1>2 DEF HashOf, Trim
<1>4. PathRejected' <=> PathRejected
  BY DEF PathRejected
<1> QED BY <1>1, <1>2, <1>3, <1>4 DEF KnownToken, Entry

\* The address that is recorded is one.
LEMMA ClientIsAddr == ASSUME IsRequest(request) PROVE ClientIp # NoAddr
<1>1. request.peer # NoAddr
  <2>1. request.peer.family \in Families
    BY DEF IsRequest, IsAddr
  <2> QED BY <2>1 DEF NoAddr, Families
<1> QED BY <1>1 DEF ClientIp, Resolve

\* bearer_token reads the token that is presented, if there is one.
LEMMA BearerIs == BearerToken = IF Presented = "" THEN {} ELSE {Presented}
BY DEF BearerToken, Presented, Trim

\* An answer, from what it leaves behind.
LEMMA AnswerKept ==
    ASSUME HandlersInv, stage \in RequestStages \ {"serving"}, NEW code, Answer(code),
           allowed' = allowed, extra' = extra, Counted', RanAsRouted', Recorded',
           phase' \in {"config", "refused", "validated", "judging"} => sent' = <<>>
    PROVE  HandlersInv' /\ settings' = settings /\ routes' = routes /\ request' = request
<1>1. /\ stage' = "answered" /\ settings' = settings /\ targets' = targets /\ routes' = routes
      /\ request' = request
  BY DEF Answer
<1>2. stage' \in RequestStages /\ stage \notin {"settings", "refused"} /\ stage \in RequestStages
  BY <1>1 DEF RequestStages
<1>3. StartInv'
  BY <1>1, <1>2, ServingKept DEF HandlersInv, StartInv
<1>4. IsRequest(request')
  BY <1>1, RequestRigid DEF HandlersInv, RequestInv
<1>5. RequestInv'
  BY <1>1, <1>4 DEF RequestInv, StartStages
<1> QED BY <1>1, <1>3, <1>5 DEF HandlersInv

\* A stage that follows without an answer.
LEMMA GoOnKept ==
    ASSUME HandlersInv, stage \in RequestStages, NEW next \in RequestStages, GoOn(next),
           allowed' = allowed, extra' = extra
    PROVE  StartInv' /\ settings' = settings /\ routes' = routes /\ request' = request
           /\ stage' = next
<1>1. /\ stage' = next /\ settings' = settings /\ targets' = targets /\ routes' = routes
      /\ request' = request
  BY DEF GoOn
<1>2. stage \notin {"settings", "refused"}
  BY DEF RequestStages
<1> QED BY <1>1, <1>2, ServingKept DEF HandlersInv, StartInv

LEMMA ArriveKeeps ==
    ASSUME HandlersInv, Arrive
    PROVE  HandlersInv'
<1>1. /\ stage = "serving" /\ stage' = "auth" /\ settings' = settings /\ targets' = targets
      /\ routes' = routes /\ phase' = phase /\ allowed' = allowed /\ extra' = extra /\ sent' = sent
      /\ charged' = charged /\ cleared' = cleared /\ ran' = ran /\ denied' = denied
      /\ command_denied' = command_denied
  BY DEF Arrive, policyVars
<1>2. stage \in RequestStages /\ stage' \in RequestStages /\ stage \notin {"settings", "refused"}
  BY <1>1 DEF RequestStages
<1>3. StartInv'
  BY <1>1, <1>2, ServingKept DEF HandlersInv, StartInv
<1>4. PICK e \in Environments : settings = e.settings /\ allowed = e.allowed /\ extra = e.extra
  BY DEF HandlersInv, StartInv, InEnvironment
<1>5. e = [settings |-> settings, allowed |-> allowed, extra |-> extra]
  BY <1>4, HandlersAssumption
<1>6. request' \in RequestsFor(e)
  BY <1>5 DEF Arrive
<1>7. IsRequest(request')
  BY <1>6, HandlersAssumption
<1>8. Fresh /\ phase = "validated" /\ sent = <<>>
  BY <1>1 DEF HandlersInv, RequestInv
<1>9. Fresh'
  BY <1>1, <1>8 DEF Fresh, NoAddr, NoRun
<1>10. RequestInv'
  BY <1>1, <1>7, <1>8, <1>9 DEF RequestInv, RequestStages, StartStages
<1> QED BY <1>3, <1>10 DEF HandlersInv

\* A denial that is counted once, of a request that does not run.
LEMMA CountedOnce ==
    ASSUME ran' = NoRun, status' # 200, status' # 502, request' = request, ~PathRejected,
           NEW reason, denied' = Append(<<>>, <<request.route, reason>>),
           (command_denied' # <<>>) <=> (sent' = Denied)
    PROVE  Counted'
<1>1. denied' = <<<<request'.route, reason>>>> /\ denied' # <<>>
  OBVIOUS
<1>2. NoRun' = NoRun /\ Denied' = Denied /\ ~PathRejected'
  BY DEF NoRun, Denied, PathRejected
<1> QED BY <1>1, <1>2 DEF Counted

\* A success, of which nothing is counted.
LEMMA CountedNone ==
    ASSUME status' = 200, denied' = <<>>, command_denied' = <<>>, sent' # Denied
    PROVE  Counted'
<1>1. Denied' = Denied
  BY DEF Denied
<1>2. 200 # 502
  OBVIOUS
<1> QED BY <1>1, <1>2 DEF Counted

\* A failure: it is counted and recorded.
LEMMA UnauthorizedKeeps ==
    ASSUME HandlersInv, stage = "auth", Unauthorized, request.route # "metrics" => ~KnownToken,
           ~PathRejected
    PROVE  HandlersInv'
<1>1. PICK code \in {401, 429} : Answer(code)
  BY DEF Unauthorized
<1>2. /\ charged' = ClientIp /\ denied' = Append(denied, <<request.route, "auth">>)
      /\ phase' = phase /\ allowed' = allowed /\ extra' = extra /\ caps' = caps /\ sent' = sent
      /\ cleared' = cleared /\ command_denied' = command_denied /\ ran' = ran
  BY DEF Unauthorized, Count, policyVars
<1>3. status' = code /\ settings' = settings /\ routes' = routes /\ request' = request
  BY <1>1 DEF Answer
<1>4. Fresh /\ phase = "validated" /\ sent = <<>> /\ IsRequest(request)
  BY DEF HandlersInv, RequestInv, RequestStages
<1>5. /\ ClientIp' = ClientIp /\ (KnownToken' <=> KnownToken)
      /\ ClientIp # NoAddr /\ ~PathRejected'
  BY <1>3, <1>4, RequestRigid, ClientIsAddr
<1>6. denied' = Append(<<>>, <<request.route, "auth">>) /\ status' # 200 /\ status' # 502
  BY <1>1, <1>2, <1>3, <1>4 DEF Fresh
<1>7. ran' = NoRun /\ cleared' = NoAddr /\ command_denied' = <<>> /\ sent' # Denied
  BY <1>2, <1>4 DEF Fresh, Denied
<1>8. Counted'
  BY <1>3, <1>6, <1>7, CountedOnce
<1>9. RanAsRouted'
  BY <1>2, <1>3, <1>5, <1>7 DEF RanAsRouted, NoRun, NoAddr
<1>10. Recorded'
  BY <1>2, <1>5, <1>7 DEF Recorded, NoAddr
<1>11. stage \in RequestStages \ {"serving"}
  BY DEF RequestStages
<1> QED BY <1>1, <1>2, <1>4, <1>8, <1>9, <1>10, <1>11, AnswerKept

LEMMA RejectPathKeeps ==
    ASSUME HandlersInv, RejectPath
    PROVE  HandlersInv'
<1>1. /\ stage = "auth" /\ PathRejected /\ Answer(400)
      /\ phase' = phase /\ allowed' = allowed /\ extra' = extra /\ sent' = sent
      /\ charged' = charged /\ cleared' = cleared /\ ran' = ran /\ denied' = denied
      /\ command_denied' = command_denied
  BY DEF RejectPath, policyVars
<1>2. Fresh /\ phase = "validated" /\ sent = <<>>
  BY <1>1 DEF HandlersInv, RequestInv
<1>3. status' = 400 /\ settings' = settings /\ routes' = routes /\ request' = request
  BY <1>1 DEF Answer
<1>4. PathRejected'
  BY <1>1, <1>3, RequestRigid
<1>5. Counted'
  <2>1. denied' = <<>> /\ command_denied' = <<>> /\ sent' = <<>>
    BY <1>1, <1>2 DEF Fresh
  <2>2. sent' # Denied'
    BY <2>1 DEF Denied
  <2>3. status' # 502
    BY <1>3
  <2> QED BY <1>4, <2>1, <2>2, <2>3 DEF Counted
<1>6. charged' = NoAddr' /\ cleared' = NoAddr' /\ ran' = NoRun'
  BY <1>1, <1>2 DEF Fresh, NoAddr, NoRun
<1>7. RanAsRouted' /\ Recorded'
  BY <1>4, <1>6 DEF RanAsRouted, Recorded
<1>8. stage \in RequestStages \ {"serving"}
  BY <1>1 DEF RequestStages
<1> QED BY <1>1, <1>2, <1>5, <1>7, <1>8, AnswerKept

LEMMA AuthenticateKeeps ==
    ASSUME HandlersInv, Authenticate
    PROVE  HandlersInv'
<1>1. stage = "auth" /\ request.route # "metrics" /\ ~PathRejected
  BY DEF Authenticate
<1>2. Fresh /\ phase = "validated" /\ sent = <<>> /\ IsRequest(request)
  BY <1>1 DEF HandlersInv, RequestInv, RequestStages
<1> DEFINE may == IF request.route = "subscribe" THEN "realtime" \in Entry.caps
                  ELSE Entry.caps # {}
           LetIn == /\ GoOn("body") /\ route' = Entry /\ denied' = denied
           Refused == /\ Answer(403) /\ denied' = Append(denied, <<request.route, "auth">>)
<1>3. \/ ~KnownToken /\ Unauthorized
      \/ /\ KnownToken /\ cleared' = ClientIp
         /\ LetIn \/ Refused
         /\ phase' = phase /\ allowed' = allowed /\ extra' = extra /\ caps' = caps /\ sent' = sent
         /\ charged' = charged /\ command_denied' = command_denied /\ ran' = ran
  <2> DEFINE known == {t \in BearerToken : HashOf(t) \in DOMAIN routes}
  <2>1. known = {} <=> ~KnownToken
    BY BearerIs DEF KnownToken
  <2>2. \A t \in known : t = Presented
    BY BearerIs
  <2>3. \/ known = {} /\ Unauthorized
        \/ \E t \in known :
              /\ cleared' = ClientIp
              /\ \/ /\ GoOn("body") /\ route' = routes[HashOf(t)] /\ denied' = denied
                 \/ /\ Answer(403) /\ denied' = Append(denied, <<request.route, "auth">>)
              /\ phase' = phase /\ allowed' = allowed /\ extra' = extra /\ caps' = caps /\ sent' = sent
              /\ charged' = charged /\ command_denied' = command_denied /\ ran' = ran
    BY DEF Authenticate, Count, policyVars
  <2> HIDE DEF known
  <2> QED BY <2>1, <2>2, <2>3 DEF Entry
<1>4. CASE ~KnownToken /\ Unauthorized
  BY <1>1, <1>4, UnauthorizedKeeps
<1>5. CASE /\ KnownToken /\ cleared' = ClientIp
           /\ LetIn \/ Refused
           /\ phase' = phase /\ allowed' = allowed /\ extra' = extra /\ caps' = caps /\ sent' = sent
           /\ charged' = charged /\ command_denied' = command_denied /\ ran' = ran
  <2>1. charged' = NoAddr /\ command_denied' = <<>> /\ ran' = NoRun /\ sent' # Denied
    BY <1>2, <1>5 DEF Fresh, Denied
  <2>2. CASE LetIn
    <3>1. stage \in RequestStages /\ "body" \in RequestStages
      BY <1>1 DEF RequestStages
    <3>2. StartInv' /\ settings' = settings /\ routes' = routes /\ request' = request
          /\ stage' = "body"
      BY <1>5, <2>2, <3>1, GoOnKept
    <3>3. ClientIp' = ClientIp /\ (KnownToken' <=> KnownToken) /\ Entry' = Entry
          /\ IsRequest(request') /\ ~PathRejected'
      BY <1>1, <1>2, <3>2, RequestRigid
    <3>4. Routed'
      BY <1>1, <1>2, <1>5, <2>1, <2>2, <3>2, <3>3 DEF Routed, Fresh, NoAddr
    <3>5. RequestInv'
      BY <1>2, <1>5, <2>1, <3>2, <3>3, <3>4 DEF RequestInv, RequestStages, StartStages, NoRun
    <3> QED BY <3>2, <3>5 DEF HandlersInv
  <2>3. CASE Refused
    <3>1. status' = 403 /\ settings' = settings /\ routes' = routes /\ request' = request
      BY <2>3 DEF Answer
    <3>2. ClientIp' = ClientIp /\ (KnownToken' <=> KnownToken) /\ ~PathRejected'
      BY <1>1, <3>1, RequestRigid
    <3>3. denied' = Append(<<>>, <<request.route, "auth">>)
      BY <1>2, <2>3 DEF Fresh
    <3>4. Counted'
      BY <1>1, <2>1, <3>1, <3>3, CountedOnce
    <3>5. RanAsRouted'
      BY <1>5, <2>1, <3>1, <3>2 DEF RanAsRouted, NoRun, NoAddr
    <3>6. Recorded'
      BY <1>5, <2>1, <3>2 DEF Recorded, NoAddr
    <3>7. stage \in RequestStages \ {"serving"}
      BY <1>1 DEF RequestStages
    <3> QED BY <1>2, <1>5, <2>3, <3>4, <3>5, <3>6, <3>7, AnswerKept
  <2> QED BY <1>5, <2>2, <2>3
<1> HIDE DEF LetIn, Refused
<1> QED BY <1>3, <1>4, <1>5

LEMMA MetricsKeeps ==
    ASSUME HandlersInv, Metrics
    PROVE  HandlersInv'
<1>1. stage = "auth" /\ request.route = "metrics" /\ ~PathRejected
  BY DEF Metrics, PathRejected
<1>2. Fresh /\ phase = "validated" /\ sent = <<>> /\ IsRequest(request)
  BY <1>1 DEF HandlersInv, RequestInv, RequestStages
<1> DEFINE Same == /\ phase' = phase /\ allowed' = allowed /\ extra' = extra /\ sent' = sent
                   /\ charged' = charged /\ command_denied' = command_denied /\ ran' = ran
           Nobody == /\ Answer(401) /\ denied' = Append(denied, <<request.route, "auth">>)
                     /\ cleared' = cleared /\ Same
           Shown == Answer(200) /\ cleared' = ClientIp /\ denied' = denied /\ Same
<1>3. Nobody \/ Unauthorized \/ Shown
  BY ZenonT(30) DEF Metrics, Count, policyVars
<1>4. CASE Unauthorized
  BY <1>1, <1>4, UnauthorizedKeeps
<1>5. CASE Nobody \/ Shown
  <2>1. charged' = NoAddr /\ command_denied' = <<>> /\ ran' = NoRun /\ sent' # Denied
    BY <1>2, <1>5 DEF Fresh, Denied
  <2>2. status' \in {200, 401} /\ settings' = settings /\ routes' = routes /\ request' = request
    BY <1>5 DEF Answer
  <2>3. ClientIp' = ClientIp
    BY <2>2, RequestRigid
  <2>4. Counted'
    <3>1. CASE Nobody
      <4>1. denied' = Append(<<>>, <<request.route, "auth">>) /\ status' = 401
        BY <1>2, <3>1 DEF Fresh, Answer
      <4> QED BY <1>1, <2>1, <2>2, <4>1, CountedOnce
    <3>2. CASE Shown
      <4>1. denied' = <<>> /\ status' = 200
        BY <1>2, <3>2 DEF Fresh, Answer
      <4> QED BY <2>1, <4>1, CountedNone
    <3> QED BY <1>5, <3>1, <3>2
  <2>5. RanAsRouted'
    BY <1>1, <2>1, <2>2 DEF RanAsRouted, NoRun
  <2>6. cleared' = NoAddr \/ cleared' = ClientIp
    BY <1>2, <1>5 DEF Fresh
  <2>7. Recorded'
    BY <2>1, <2>3, <2>6 DEF Recorded, NoAddr
  <2>8. stage \in RequestStages \ {"serving"}
    BY <1>1 DEF RequestStages
  <2>9. Answer(401) \/ Answer(200)
    BY <1>5
  <2>10. Same
    BY <1>5
  <2> HIDE DEF Nobody, Shown
  <2> QED BY <1>2, <2>4, <2>5, <2>7, <2>8, <2>9, <2>10, AnswerKept
<1> HIDE DEF Nobody, Shown
<1> QED BY <1>3, <1>4, <1>5

\* A body that is refused, or a subscription that is answered.
LEMMA BodyAnswerKept ==
    ASSUME HandlersInv, stage = "body", NEW code, Answer(code),
           UNCHANGED <<policyVars, route, charged, cleared, command_denied, ran, body>>,
           \/ code = 200 /\ denied' = denied
           \/ code # 200 /\ code # 502 /\ \E reason : denied' = Count(reason)
    PROVE  HandlersInv'
<1>1. Routed /\ phase = "validated" /\ sent = <<>> /\ IsRequest(request) /\ ran = NoRun
  BY DEF HandlersInv, RequestInv, RequestStages
<1>2. /\ phase' = phase /\ allowed' = allowed /\ extra' = extra /\ sent' = sent
      /\ charged' = NoAddr /\ cleared' = ClientIp /\ command_denied' = <<>> /\ ran' = NoRun
  BY <1>1 DEF Routed, policyVars
<1>3. status' = code /\ settings' = settings /\ routes' = routes /\ request' = request
  BY DEF Answer
<1>4. ClientIp' = ClientIp /\ (KnownToken' <=> KnownToken) /\ ~PathRejected /\ ~PathRejected'
  BY <1>1, <1>3, RequestRigid DEF Routed
<1>5. sent' # Denied
  BY <1>1, <1>2 DEF Denied
<1>6. Counted'
  <2>1. CASE code = 200 /\ denied' = denied
    <3>1. denied' = <<>> /\ status' = 200
      BY <1>1, <1>3, <2>1 DEF Routed
    <3> QED BY <1>2, <1>5, <3>1, CountedNone
  <2>2. CASE code # 200 /\ code # 502 /\ \E reason : denied' = Count(reason)
    <3>1. PICK reason : denied' = Append(<<>>, <<request.route, reason>>)
      BY <1>1, <2>2 DEF Routed, Count
    <3> QED BY <1>2, <1>3, <1>4, <1>5, <2>2, <3>1, CountedOnce
  <2> QED BY <2>1, <2>2
<1>7. RanAsRouted'
  BY <1>1, <1>2, <1>3, <1>4 DEF RanAsRouted, Routed, NoRun, NoAddr
<1>8. Recorded'
  BY <1>2, <1>4 DEF Recorded, NoAddr
<1>9. stage \in RequestStages \ {"serving"}
  BY DEF RequestStages
<1> QED BY <1>1, <1>2, <1>6, <1>7, <1>8, <1>9, AnswerKept

LEMMA InvalidJsonKeeps ==
    ASSUME HandlersInv, InvalidJson
    PROVE  HandlersInv'
<1>1. /\ stage = "body" /\ Answer(400) /\ denied' = Count("invalid_json")
      /\ UNCHANGED <<policyVars, route, charged, cleared, command_denied, ran, body>>
  BY DEF InvalidJson
<1>2. 400 # 200 /\ 400 # 502
  OBVIOUS
<1> QED BY <1>1, <1>2, BodyAnswerKept

LEMMA SubscribeKeeps ==
    ASSUME HandlersInv, Subscribe
    PROVE  HandlersInv'
<1>1. stage = "body" /\ UNCHANGED <<policyVars, route, charged, cleared, command_denied, ran, body>>
  BY DEF Subscribe
<1>2. \E code \in {400, 429, 503, 504, 200} :
        /\ Answer(code)
        /\ \/ code = 200 /\ denied' = denied
           \/ code # 200 /\ code # 502 /\ \E reason : denied' = Count(reason)
  <2>1. \/ \E code \in {400, 429, 503, 504} : Answer(code) /\ \E reason : denied' = Count(reason)
        \/ Answer(200) /\ denied' = denied
    BY DEF Subscribe
  <2>2. \A code \in {400, 429, 503, 504} : code # 200 /\ code # 502
    OBVIOUS
  <2> QED BY <2>1, <2>2
<1> QED BY <1>1, <1>2, BodyAnswerKept

LEMMA TakeBodyKeeps ==
    ASSUME HandlersInv, TakeBody
    PROVE  HandlersInv'
<1>1. /\ stage = "body" /\ request.route \in CommandRoutes /\ GoOn("policy")
      /\ caps' = route.caps /\ phase' = "judging" /\ sent' = sent
      /\ allowed' = allowed /\ extra' = extra
      /\ route' = route /\ charged' = charged /\ cleared' = cleared
      /\ denied' = denied /\ command_denied' = command_denied /\ ran' = ran
  BY DEF TakeBody, Receive
<1>2. Routed /\ phase = "validated" /\ sent = <<>> /\ IsRequest(request) /\ ran = NoRun
  BY <1>1 DEF HandlersInv, RequestInv, RequestStages
<1>3. stage \in RequestStages /\ "policy" \in RequestStages
  BY <1>1 DEF RequestStages
<1>4. StartInv' /\ settings' = settings /\ routes' = routes /\ request' = request
      /\ stage' = "policy"
  BY <1>1, <1>3, GoOnKept
<1>5. ClientIp' = ClientIp /\ (KnownToken' <=> KnownToken) /\ Entry' = Entry
      /\ IsRequest(request') /\ (PathRejected' <=> PathRejected)
  BY <1>2, <1>4, RequestRigid
<1>6. Routed'
  BY <1>1, <1>2, <1>4, <1>5 DEF Routed, NoAddr
<1>7. RequestInv'
  BY <1>1, <1>2, <1>4, <1>5, <1>6 DEF RequestInv, RequestStages, StartStages, NoRun
<1> QED BY <1>4, <1>7 DEF HandlersInv

LEMMA ApplyPolicyKeeps ==
    ASSUME HandlersInv, ApplyPolicy
    PROVE  HandlersInv'
<1>1. /\ stage = "policy" /\ phase' = "judged" /\ caps' = caps
      /\ allowed' = allowed /\ extra' = extra
      /\ route' = route /\ charged' = charged /\ cleared' = cleared /\ ran' = ran
  BY DEF ApplyPolicy, Judge
<1>2. /\ Routed /\ IsRequest(request) /\ ran = NoRun
      /\ caps = route.caps /\ request.route \in CommandRoutes
  BY <1>1 DEF HandlersInv, RequestInv, RequestStages
<1>3. stage \in RequestStages \ {"serving"} /\ "execute" \in RequestStages
  BY <1>1 DEF RequestStages
<1>4. CASE /\ sent' = Denied /\ Answer(400)
           /\ command_denied' = Append(command_denied, <<route.target, Kind>>)
           /\ denied' = Count("policy")
  <2>1. status' = 400 /\ settings' = settings /\ routes' = routes /\ request' = request
    BY <1>4 DEF Answer
  <2>2. ClientIp' = ClientIp /\ (KnownToken' <=> KnownToken) /\ ~PathRejected /\ ~PathRejected'
    BY <1>2, <2>1, RequestRigid DEF Routed
  <2>3. denied' = Append(<<>>, <<request.route, "policy">>)
    BY <1>2, <1>4 DEF Routed, Count
  <2>4. command_denied' # <<>>
    <3>1. command_denied' = Append(<<>>, <<route.target, Kind>>)
      BY <1>2, <1>4 DEF Routed
    <3> QED BY <3>1
  <2>5. Counted'
    BY <1>1, <1>2, <1>4, <2>1, <2>2, <2>3, <2>4, CountedOnce
  <2>6. RanAsRouted'
    BY <1>1, <1>2, <2>1, <2>2 DEF RanAsRouted, Routed, NoRun, NoAddr
  <2>7. Recorded'
    BY <1>1, <1>2, <2>2 DEF Recorded, Routed, NoAddr
  <2> QED BY <1>1, <1>3, <1>4, <2>5, <2>6, <2>7, AnswerKept
<1>5. CASE sent' # Denied /\ GoOn("execute") /\ UNCHANGED <<denied, command_denied>>
  <2>1. StartInv' /\ settings' = settings /\ routes' = routes /\ request' = request
        /\ stage' = "execute"
    BY <1>1, <1>3, <1>5, GoOnKept
  <2>2. ClientIp' = ClientIp /\ (KnownToken' <=> KnownToken) /\ Entry' = Entry
        /\ IsRequest(request') /\ (PathRejected' <=> PathRejected)
    BY <1>2, <2>1, RequestRigid
  <2>3. Routed'
    BY <1>1, <1>2, <1>5, <2>1, <2>2 DEF Routed, NoAddr
  <2>4. sent' # Denied'
    BY <1>5 DEF Denied
  <2>5. RequestInv'
    BY <1>1, <1>2, <1>5, <2>1, <2>2, <2>3, <2>4 DEF RequestInv, RequestStages, StartStages, NoRun
  <2> QED BY <2>1, <2>5 DEF HandlersInv
<1> QED BY <1>4, <1>5 DEF ApplyPolicy

\* A route has a target and capabilities.
LEMMA RouteIs ==
    ASSUME HandlersInv, stage \in RequestStages, KnownToken
    PROVE  Entry.target # "" /\ Entry.caps \in (SUBSET Capabilities) \ {{}}
<1>1. stage \notin {"settings", "refused"}
  BY DEF RequestStages
<1>2. IsSettings(settings) /\ TargetsRead /\ Table(TN)
  BY <1>1, Settled DEF HandlersInv, StartInv
<1> QED BY <1>2, EntriesAgree DEF KnownToken, Entry

LEMMA ExecuteKeeps ==
    ASSUME HandlersInv, Execute
    PROVE  HandlersInv'
<1>1. /\ stage = "execute" /\ phase' = phase /\ caps' = caps /\ sent' = sent
      /\ allowed' = allowed /\ extra' = extra
      /\ route' = route /\ charged' = charged /\ cleared' = cleared
      /\ denied' = denied /\ command_denied' = command_denied
      /\ ran' = [target |-> route.target, commands |-> sent]
      /\ GoOn("reply") \/ \E code \in {400, 429, 503, 504} : Answer(code)
  BY DEF Execute, policyVars
<1>2. /\ Routed /\ IsRequest(request) /\ phase = "judged" /\ sent # Denied
      /\ caps = route.caps /\ request.route \in CommandRoutes
  BY <1>1 DEF HandlersInv, RequestInv, RequestStages
<1>3. stage \in RequestStages \ {"serving"} /\ "reply" \in RequestStages
  BY <1>1 DEF RequestStages
<1>4. route.target # "" /\ KnownToken /\ route = Entry
  BY <1>2, <1>3, RouteIs DEF Routed
<1>5. ran' # NoRun /\ ran'.target = route.target /\ ran'.commands = sent
  <2>1. ran'.target = route.target /\ ran'.commands = sent
    BY <1>1
  <2>2. NoRun.target = ""
    BY DEF NoRun
  <2> QED BY <1>4, <2>1, <2>2
<1>6. CASE GoOn("reply")
  <2>1. StartInv' /\ settings' = settings /\ routes' = routes /\ request' = request
        /\ stage' = "reply"
    BY <1>1, <1>3, <1>6, GoOnKept
  <2>2. ClientIp' = ClientIp /\ (KnownToken' <=> KnownToken) /\ Entry' = Entry
        /\ IsRequest(request') /\ (PathRejected' <=> PathRejected)
    BY <1>2, <2>1, RequestRigid
  <2>3. Routed'
    BY <1>1, <1>2, <2>1, <2>2 DEF Routed, NoAddr
  <2>4. sent' # Denied'
    BY <1>1, <1>2 DEF Denied
  <2>5. RequestInv'
    BY <1>1, <1>2, <2>1, <2>2, <2>3, <2>4 DEF RequestInv, RequestStages, StartStages
  <2> QED BY <2>1, <2>5 DEF HandlersInv
<1>7. ASSUME NEW code \in {400, 429, 503, 504}, Answer(code) PROVE HandlersInv'
  <2>1. status' = code /\ settings' = settings /\ routes' = routes /\ request' = request
    BY <1>7 DEF Answer
  <2>2. ClientIp' = ClientIp /\ (KnownToken' <=> KnownToken) /\ Entry' = Entry
        /\ ~PathRejected'
    BY <1>2, <2>1, RequestRigid DEF Routed
  <2>3. status' # 502
    BY <2>1
  <2>4. denied' = <<>> /\ command_denied' = <<>> /\ sent' # Denied'
    BY <1>1, <1>2 DEF Routed, Denied
  <2>5. ran' # NoRun'
    BY <1>5 DEF NoRun
  <2>6. Counted'
    BY <2>3, <2>4, <2>5 DEF Counted
  <2>7. RanAsRouted'
    <3>1. charged' = NoAddr'
      BY <1>1, <1>2 DEF Routed, NoAddr
    <3>2. request'.route # "metrics" /\ KnownToken'
      BY <1>2, <1>4, <2>1, <2>2 DEF Routed
    <3>3. ran'.target = Entry'.target /\ caps' = Entry'.caps
      <4>1. Entry' = route
        BY <1>4, <2>2
      <4>2. caps' = route.caps
        BY <1>1, <1>2
      <4> QED BY <1>5, <4>1, <4>2
    <3>4. phase' = "judged" /\ sent' # Denied' /\ ran'.commands = sent'
      BY <1>1, <1>2, <1>5, <2>4
    <3> QED BY <3>1, <3>2, <3>3, <3>4 DEF RanAsRouted
  <2>8. Recorded'
    BY <1>1, <1>2, <2>2 DEF Recorded, Routed, NoAddr
  <2> QED BY <1>1, <1>2, <1>3, <1>7, <2>6, <2>7, <2>8, AnswerKept
<1> QED BY <1>1, <1>6, <1>7

LEMMA RespondKeeps ==
    ASSUME HandlersInv, Respond
    PROVE  HandlersInv'
<1>1. /\ stage = "reply" /\ phase' = phase /\ caps' = caps /\ sent' = sent
      /\ allowed' = allowed /\ extra' = extra
      /\ route' = route /\ charged' = charged /\ cleared' = cleared
      /\ command_denied' = command_denied /\ ran' = ran
      /\ \/ Answer(200) /\ denied' = denied
         \/ Answer(502) /\ denied' = Append(denied, <<request.route, "response_too_large">>)
  BY DEF Respond, policyVars, Count
<1>2. /\ Routed /\ IsRequest(request) /\ phase = "judged" /\ sent # Denied
      /\ caps = route.caps /\ ran = [target |-> route.target, commands |-> sent]
  BY <1>1 DEF HandlersInv, RequestInv, RequestStages
<1>3. stage \in RequestStages \ {"serving"}
  BY <1>1 DEF RequestStages
<1>4. route.target # "" /\ KnownToken /\ route = Entry
  BY <1>2, <1>3, RouteIs DEF Routed
<1>5. ran' # NoRun /\ ran'.target = route.target /\ ran'.commands = sent
  BY <1>1, <1>2, <1>4 DEF NoRun
<1>6. status' \in {200, 502} /\ settings' = settings /\ routes' = routes /\ request' = request
  BY <1>1 DEF Answer
<1>7. ClientIp' = ClientIp /\ (KnownToken' <=> KnownToken) /\ Entry' = Entry
      /\ ~PathRejected'
  BY <1>2, <1>6, RequestRigid DEF Routed
<1>8. command_denied' = <<>> /\ sent' # Denied' /\ ran' # NoRun'
  BY <1>1, <1>2, <1>5 DEF Routed, Denied, NoRun
<1>9. Counted'
  <2>1. CASE Answer(200) /\ denied' = denied
    <3>1. denied' = <<>> /\ status' = 200
      BY <1>2, <2>1 DEF Routed, Answer
    <3>2. sent' # Denied
      BY <1>1, <1>2
    <3> QED BY <1>8, <3>1, <3>2, CountedNone
  <2>2. CASE Answer(502) /\ denied' = Append(denied, <<request.route, "response_too_large">>)
    <3>1. denied' = Append(<<>>, <<request.route, "response_too_large">>) /\ status' = 502
      BY <1>2, <2>2 DEF Routed, Answer
    <3>2. denied' = <<<<request'.route, "response_too_large">>>> /\ denied' # <<>>
      BY <1>6, <3>1
    <3>3. status' # 200
      BY <3>1
    <3> QED BY <1>7, <1>8, <3>1, <3>2, <3>3 DEF Counted
  <2> QED BY <1>1, <2>1, <2>2
<1>10. RanAsRouted'
  BY <1>1, <1>2, <1>4, <1>5, <1>6, <1>7, <1>8 DEF RanAsRouted, Routed, NoAddr
<1>11. Recorded'
  BY <1>1, <1>2, <1>7 DEF Recorded, Routed, NoAddr
<1> QED BY <1>1, <1>2, <1>3, <1>9, <1>10, <1>11, AnswerKept

LEMMA StartupKeeps ==
    ASSUME HandlersInv, StartupNext, UNCHANGED requestVars
    PROVE  HandlersInv'
<1>1. StartInv'
  BY CheckSettingsKeeps, UnknownModeKeeps, LoadEnvTargetKeeps, OpenFileKeeps, TakeTargetKeeps,
     TakeTokenKeeps, CloseTargetKeeps, BuildTargetKeeps, ListenKeeps
  DEF StartupNext, HandlersInv
<1> DEFINE Later == {"loading", "target", "token", "building"}
<1>2. \/ /\ stage = "settings" /\ phase = "config" /\ sent' = sent
         /\ \/ phase' = "validated" /\ stage' = "loading"
            \/ phase' = "refused" /\ stage' = "refused"
      \/ /\ stage \in Later /\ phase' = phase /\ sent' = sent
         /\ stage' \in Later \cup {"serving", "refused"}
  <2>1. CASE CheckSettings
    BY <2>1 DEF CheckSettings, Start, Refuse
  <2>2. CASE UnknownMode
    BY <2>2 DEF UnknownMode, Refuse, policyVars
  <2>3. CASE LoadEnvTarget
    BY <2>3 DEF LoadEnvTarget, Refuse, policyVars
  <2>4. CASE OpenFile
    BY <2>4 DEF OpenFile, Refuse, policyVars
  <2>5. CASE TakeTarget
    BY <2>5 DEF TakeTarget, Refuse, policyVars
  <2>6. CASE TakeToken
    <3>1. stage = "token" /\ (stage' = stage \/ stage' = "refused") /\ UNCHANGED policyVars
      BY <2>6 DEF TakeToken, Refuse
    <3> QED BY <3>1 DEF policyVars
  <2>7. CASE CloseTarget
    <3>1. stage = "token" /\ stage' \in {"building", "target", "refused"} /\ UNCHANGED policyVars
      BY <2>7 DEF CloseTarget, Refuse
    <3> QED BY <3>1 DEF policyVars
  <2>8. CASE BuildTarget
    <3>1. stage = "building" /\ (stage' = stage \/ stage' = "refused") /\ UNCHANGED policyVars
      BY <2>8 DEF BuildTarget, Refuse
    <3> QED BY <3>1 DEF policyVars
  <2>9. CASE Listen
    BY <2>9 DEF Listen, Refuse, policyVars
  <2> QED BY <2>1, <2>2, <2>3, <2>4, <2>5, <2>6, <2>7, <2>8, <2>9 DEF StartupNext
<1>3. /\ charged' = charged /\ cleared' = cleared /\ ran' = ran /\ denied' = denied
      /\ command_denied' = command_denied
  BY DEF requestVars
<1>4. stage \in StartStages /\ stage' \in StartStages \cup {"serving"}
  BY <1>2 DEF StartStages
<1>5. Fresh
  BY <1>4 DEF HandlersInv, RequestInv
<1>6. Fresh'
  BY <1>3, <1>5 DEF Fresh, NoAddr, NoRun
<1>7. sent = <<>> /\ (stage \in Later => phase = "validated")
  BY <1>2 DEF HandlersInv, RequestInv
<1>8. /\ sent' = <<>> /\ (stage' \in Later \cup {"serving"} => phase' = "validated")
      /\ stage' # "settings"
  BY <1>2, <1>7
<1>9. stage' \notin {"auth", "body", "policy", "execute", "reply", "answered"}
  BY <1>4 DEF StartStages
<1>10. RequestInv'
  BY <1>4, <1>6, <1>8, <1>9 DEF RequestInv, RequestStages
<1> QED BY <1>1, <1>10 DEF HandlersInv

LEMMA InitKeeps == HandlersInit => HandlersInv
<1> SUFFICES ASSUME HandlersInit PROVE HandlersInv
  OBVIOUS
<1>1. /\ InEnvironment /\ stage = "settings" /\ load = NoLoad /\ targets = <<>> /\ routes = <<>>
      /\ phase = "config" /\ sent = <<>> /\ Fresh
  BY DEF HandlersInit, PolicyInit, StartupInit, InEnvironment, Fresh
<1>2. StartInv
  BY <1>1 DEF StartInv, StartStages, RequestStages
<1>3. RequestInv
  BY <1>1 DEF RequestInv, StartStages, RequestStages
<1> QED BY <1>2, <1>3 DEF HandlersInv

LEMMA StutterKeeps == ASSUME HandlersInv, UNCHANGED handlerVars PROVE HandlersInv'
<1>1. /\ phase' = phase /\ allowed' = allowed /\ extra' = extra /\ caps' = caps /\ sent' = sent
      /\ settings' = settings /\ stage' = stage /\ load' = load /\ targets' = targets
      /\ routes' = routes /\ request' = request /\ route' = route /\ charged' = charged
      /\ cleared' = cleared /\ status' = status /\ denied' = denied
      /\ command_denied' = command_denied /\ ran' = ran
  BY DEF handlerVars, policyVars, startupVars, requestVars
<1>2. StartInv'
  <2>1. CASE stage \in RequestStages
    <3>1. stage \notin {"settings", "refused"}
      BY <2>1 DEF RequestStages
    <3> QED BY <1>1, <2>1, <3>1, ServingKept DEF HandlersInv, StartInv
  <2>2. CASE stage \in StartStages
    <3>1. stage' \notin RequestStages
      BY <1>1, <2>2 DEF StartStages, RequestStages
    <3>2. /\ InEnvironment' <=> InEnvironment
          /\ Sound' <=> Sound
          /\ SoundButBind' <=> SoundButBind
          /\ NT' = NT /\ \A j : NK(j)' = NK(j)
      BY <1>1, Rigid
    <3>3. \A n, m, r : Reading(n, m, r) => Reading(n, m, r)'
      <4>1. /\ settings' = settings /\ allowed' = allowed /\ extra' = extra
            /\ load' = load /\ targets' = targets
        BY <1>1
      <4> SUFFICES ASSUME NEW n, NEW m, NEW r, Reading(n, m, r) PROVE Reading(n, m, r)'
        OBVIOUS
      <4>2. /\ load' = [target |-> n,
                        tokens |-> [k \in 1 .. m |-> ReadTokens[n][k]],
                        rrb_ids |-> {FT[j].rrb_id.word : j \in 1 .. r},
                        token_ids |-> {TokenAt(p).id.word : p \in Seen(n, m)},
                        token_hashes |-> {TokenAt(p).hash.digest :
                                             p \in {q \in Seen(n, m) : TokenAt(q).enabled}}]
            /\ targets' = [j \in 1 .. n - 1 |-> ReadTargets[j]]
        BY <4>1 DEF Reading
      <4>3. /\ settings.mode = "file" /\ FileHead
            /\ \A j \in 1 .. r : GoodTarget(j)
            /\ \A j \in 1 .. n - 1 : HasEnabled(j)
            /\ TargetsApart(r)
            /\ PlacesGood(Seen(n, m))
        BY DEF Reading
      <4> QED BY <4>1, <4>2, <4>3, RigidReading
    <3>4. (TargetsRead => TargetsRead') /\ TN' = TN /\ NoLoad' = NoLoad
      BY <1>1, Rigid DEF TargetsRead, TN, NoLoad
    <3>5. \A b : Table(b)' <=> Table(b)
      BY <1>1 DEF Table
    <3>6. stage = "target" => \E n \in 1 .. NT' : Reading(n, 0, n - 1)'
      BY <3>2, <3>3 DEF HandlersInv, StartInv
    <3>7. stage = "token" => \E n \in 1 .. NT' : \E m \in 0 .. NK(n)' : Reading(n, m, n)'
      BY <3>2, <3>3 DEF HandlersInv, StartInv
    <3>8. stage = "building" =>
            /\ TargetsRead'
            /\ \E b \in 0 .. TN' : load' = [NoLoad EXCEPT !.target = b + 1] /\ Table(b)'
      BY <1>1, <3>4, <3>5 DEF HandlersInv, StartInv
    <3>9. /\ InEnvironment'
          /\ stage \notin {"settings", "refused"} => SoundButBind'
          /\ stage = "refused" => ~Sound'
          /\ stage \in {"settings", "loading"} => load' = NoLoad' /\ targets' = <<>>
          /\ stage \in {"settings", "loading", "target", "token"} => routes' = <<>>
      BY <1>1, <3>2, <3>4 DEF HandlersInv, StartInv
    <3> QED BY <1>1, <2>2, <3>1, <3>4, <3>6, <3>7, <3>8, <3>9 DEF StartInv
  <2> QED BY <2>1, <2>2 DEF HandlersInv, StartInv
<1>3. RequestInv'
  <2>1. ClientIp' = ClientIp /\ (KnownToken' <=> KnownToken) /\ Entry' = Entry
        /\ (IsRequest(request') <=> IsRequest(request)) /\ (PathRejected' <=> PathRejected)
    BY <1>1, RequestRigid
  <2>0. NoAddr' = NoAddr /\ NoRun' = NoRun /\ Denied' = Denied
    BY DEF NoAddr, NoRun, Denied
  <2>2. /\ Fresh' <=> Fresh
        /\ RanAsRouted' <=> RanAsRouted
    BY <1>1, <2>0, <2>1 DEF Fresh, RanAsRouted
  <2>2a. Counted' <=> Counted
    BY <1>1, <2>0, <2>1 DEF Counted
  <2>3. /\ Routed' <=> Routed
        /\ Recorded' <=> Recorded
    BY <1>1, <2>1 DEF Routed, Recorded, NoAddr
  <2>4. Denied' = Denied /\ NoRun' = NoRun
    BY DEF Denied, NoRun
  <2> QED BY <1>1, <2>1, <2>2, <2>2a, <2>3, <2>4 DEF HandlersInv, RequestInv
<1> QED BY <1>2, <1>3 DEF HandlersInv

LEMMA NextKeeps == HandlersInv /\ [HandlersNext]_handlerVars => HandlersInv'
BY StutterKeeps, StartupKeeps, ArriveKeeps, RejectPathKeeps, AuthenticateKeeps, MetricsKeeps,
   InvalidJsonKeeps, TakeBodyKeeps, ApplyPolicyKeeps, ExecuteKeeps, RespondKeeps, SubscribeKeeps
DEF HandlersNext

-----------------------------------------------------------------------------
(* Theorems.                                                               *)

\* The inductive invariant: how far the start has checked and read the
\* configuration, what the table of routes holds, and what a request at each
\* stage has counted, recorded and run.
THEOREM HandlersInvariant == HandlersSpec => []HandlersInv
BY InitKeeps, NextKeeps, PTL DEF HandlersSpec

\* Bridge::from_env, load_targets and AppState::new let through exactly the
\* sound configurations, for a token file of any length.
THEOREM StartIsSound == HandlersSpec => []StartsIffSound
<1>1. HandlersInv => StartsIffSound
  <2> SUFFICES ASSUME HandlersInv, stage \in {"serving", "refused"}
               PROVE  (stage = "serving") = Sound
    BY DEF StartsIffSound
  <2>1. CASE stage = "refused"
    <3>1. ~Sound /\ stage # "serving"
      BY <2>1 DEF HandlersInv, StartInv
    <3> QED BY <3>1 DEF Sound
  <2>2. CASE stage = "serving"
    <3>1. /\ IsSettings(settings) /\ SoundButBind /\ CanListen /\ TargetsRead /\ Table(TN)
      BY <2>2, Settled DEF HandlersInv, StartInv, RequestStages
    <3>2. \A i \in 1 .. TN : Buildable(targets[i])
      BY <3>1 DEF Table, TableOf
    <3>3. CASE settings.mode = "file"
      <4>1. TN = NT /\ \A i \in 1 .. TN : targets[i] = ReadTargets[i]
        BY <3>1, <3>3, TargetsAre
      <4>2. \A i \in 1 .. NT :
              /\ ReadTargets[i].connection_string = FT[i].connection_string.word
              /\ ReadTargets[i].operation_limit = FT[i].operation_limit
        BY DEF ReadTargets
      <4>3. \A i \in 1 .. NT : FileBuildable(i)
        BY <3>2, <4>1, <4>2 DEF Buildable, FileBuildable
      <4> QED BY <2>2, <3>1, <3>3, <4>3, SoundIs DEF TargetsRead
    <3>4. CASE settings.mode = "env"
      <4>1. TN = 1 /\ targets[1] = EnvTarget
        BY <3>1, <3>4, TargetsAre
      <4>2. /\ EnvTarget.connection_string = settings.env.connection_string.word
            /\ EnvTarget.operation_limit = settings.env.operation_limit
        BY DEF EnvTarget
      <4>3. 1 \in 1 .. TN
        BY <4>1
      <4>4. EnvBuildable
        BY <3>2, <4>1, <4>2, <4>3 DEF Buildable, EnvBuildable
      <4> QED BY <2>2, <3>1, <3>4, <4>4, SoundIs DEF TargetsRead
    <3> QED BY <3>1, <3>3, <3>4 DEF TargetsRead
  <2> QED BY <2>1, <2>2
<1> QED BY <1>1, HandlersInvariant, PTL

\* What the other modules assume of their constants, of the settings that become
\* these constants: GateAssumption, PoolAssumption, RealtimeAssumption,
\* ServerAssumption and, if lockout is on, LockoutAssumption.
ServesAsAssumed ==
    stage \in RequestStages =>
        /\ settings.acquire_timeout_ms \in Nat \ {0} /\ settings.request_timeout_ms \in Nat
        /\ settings.acquire_timeout_ms < settings.request_timeout_ms
        /\ settings.max_concurrency \in Nat \ {0}
        /\ settings.max_realtime_concurrency \in Nat \ {0}
        /\ settings.auth_lockout_failures \in Nat
        /\ settings.auth_lockout_failures # 0 =>
              /\ settings.auth_lockout_window_seconds \in Nat \ {0}
              /\ settings.auth_lockout_seconds \in Nat \ {0}
              /\ settings.auth_lockout_max_entries \in Nat \ {0}
        /\ Len(targets) \in Nat \ {0}
        /\ \A i \in 1 .. Len(targets) :
              LET t == IF settings.mode = "file" THEN settings.file.targets[i] ELSE settings.env
              IN  t.operation_limit \in Nat \ {0} /\ t.connection_shards \in Nat \ {0}

\* The checks of the start, scattered over from_env and load_targets, give every
\* other component the constants it was proved right for, with any number of
\* targets and as long as the bridge serves.
THEOREM ServedAsAssumed == HandlersSpec => []ServesAsAssumed
<1>1. HandlersInv => ServesAsAssumed
  <2> SUFFICES ASSUME HandlersInv, stage \in RequestStages PROVE ServesAsAssumed
    BY DEF ServesAsAssumed
  <2>1. IsSettings(settings) /\ SoundButBind /\ TargetsRead
    BY Settled DEF HandlersInv, StartInv, RequestStages
  <2> DEFINE mc == settings.max_concurrency
             mr == settings.max_realtime_concurrency
             rt == settings.request_timeout_ms
             aq == settings.acquire_timeout_ms
             lf == settings.auth_lockout_failures
             lw == settings.auth_lockout_window_seconds
             ls == settings.auth_lockout_seconds
             le == settings.auth_lockout_max_entries
  <2>2. /\ mc \in Int /\ mr \in Int /\ rt \in Int /\ aq \in Int
        /\ lf \in Int /\ lw \in Int /\ ls \in Int /\ le \in Int
    BY <2>1 DEF IsSettings, Numbers
  <2>3. /\ aq \in 1 .. rt - 1 /\ mc > 0 /\ mr > 0 /\ lf >= 0
        /\ lw > 0 \/ (lw = 0 /\ lf = 0)
        /\ ls > 0 \/ (ls = 0 /\ lf = 0)
        /\ le > 0 \/ (le = 0 /\ lf = 0)
    BY <2>1 DEF SoundButBind
  <2> HIDE DEF mc, mr, rt, aq, lf, lw, ls, le
  <2>4. /\ aq \in Nat \ {0} /\ rt \in Nat /\ aq < rt
        /\ mc \in Nat \ {0} /\ mr \in Nat \ {0} /\ lf \in Nat
        /\ lf # 0 => lw \in Nat \ {0} /\ ls \in Nat \ {0} /\ le \in Nat \ {0}
    BY <2>2, <2>3
  <2>5. TN \in Nat \ {0}
    <3>1. CASE settings.mode = "file"
      BY <2>1, <3>1, TargetsAre, FileShape DEF TargetsRead, FileChecked, FileHead
    <3>2. CASE settings.mode = "env"
      BY <2>1, <3>2, TargetsAre
    <3> QED BY <2>1, <3>1, <3>2 DEF TargetsRead
  <2>6. ASSUME NEW i \in 1 .. TN
        PROVE  LET t == IF settings.mode = "file" THEN settings.file.targets[i] ELSE settings.env
               IN  t.operation_limit \in Nat \ {0} /\ t.connection_shards \in Nat \ {0}
    <3>1. CASE settings.mode = "file"
      <4>1. i \in 1 .. NT
        BY <2>1, <3>1, TargetsAre
      <4>2. /\ FT[i].operation_limit \in Nat /\ FT[i].connection_shards \in Nat
            /\ GoodTarget(i)
        BY <2>1, <3>1, <4>1, FileShape DEF TargetsRead, FileChecked
      <4> QED BY <3>1, <4>2 DEF GoodTarget, FT
    <3>2. CASE settings.mode = "env"
      BY <2>1, <3>2 DEF TargetsRead, EnvChecked
    <3> QED BY <2>1, <3>1, <3>2 DEF TargetsRead
  <2> QED BY <2>4, <2>5, <2>6 DEF ServesAsAssumed, TN, mc, mr, rt, aq, lf, lw, ls, le
<1> QED BY <1>1, HandlersInvariant, PTL

\* Every answer is counted as a denial once or not at all, and which: all but the
\* successes, the answers of a target, and what the Path extractor turns away.
\* Metrics::request_denied on all paths through the handlers.
THEOREM DenialsAreCounted == HandlersSpec => []DenialsCounted
<1>1. HandlersInv => DenialsCounted
  <2> SUFFICES ASSUME HandlersInv, stage = "answered"
               PROVE  /\ (denied = <<>>) = \/ status = 200
                                           \/ ran # NoRun /\ status # 502
                                           \/ PathRejected
                      /\ \A k \in 1 .. Len(denied) : k = 1 /\ denied[k][1] = request.route
                      /\ (command_denied # <<>>) = (sent = Denied)
                      /\ status = 502 => ran # NoRun
    BY DEF DenialsCounted
  <2>1. Counted
    BY DEF HandlersInv, RequestInv
  <2>2. \A k \in 1 .. Len(denied) : k = 1 /\ denied[k][1] = request.route
    <3>1. CASE denied = <<>>
      <4>1. Len(denied) = 0
        BY <3>1
      <4> QED BY <4>1
    <3>2. CASE \E reason : denied = <<<<request.route, reason>>>>
      <4>1. PICK reason : denied = <<<<request.route, reason>>>>
        BY <3>2
      <4>2. Len(denied) = 1 /\ denied[1][1] = request.route
        BY <4>1
      <4>3. \A k \in 1 .. Len(denied) : k = 1
        BY <4>2
      <4> QED BY <4>2, <4>3
    <3> QED BY <2>1, <3>1, <3>2 DEF Counted
  <2> QED BY <2>1, <2>2 DEF Counted
<1> QED BY <1>1, HandlersInvariant, PTL

\* A token reaches the target of its one enabled entry, with the capabilities
\* of that entry, through the table of hashes, or none.
THEOREM TokensAreRouted == HandlersSpec => []RunsWhereConfigured
<1>1. HandlersInv => RunsWhereConfigured
  <2> SUFFICES ASSUME HandlersInv, stage = "answered", request.route # "metrics"
               PROVE  LET entries == IF Presented = "" THEN {} ELSE EntriesOf(Presented)
                      IN  /\ ran # NoRun => \E e \in entries :
                                /\ entries = {e}
                                /\ ran.target = e[1]
                                /\ caps = IF e[2] = NoType THEN {"command"} ELSE e[2] \ {""}
                          /\ (charged # NoAddr) = (entries = {} /\ ~PathRejected)
    BY DEF RunsWhereConfigured
  <2>1. IsSettings(settings) /\ TargetsRead /\ Table(TN) /\ RanAsRouted
    BY Settled DEF HandlersInv, StartInv, RequestInv, RequestStages
  <2> DEFINE entries == IF Presented = "" THEN {} ELSE EntriesOf(Presented)
  <2>2. KnownToken <=> entries # {}
    BY <2>1, EntriesAgree DEF KnownToken
  <2>3. KnownToken => \E e \in entries :
           /\ entries = {e}
           /\ Entry.target = e[1]
           /\ Entry.caps = IF e[2] = NoType THEN {"command"} ELSE e[2] \ {""}
    <3> SUFFICES ASSUME KnownToken
                 PROVE  \E e \in entries :
                           /\ entries = {e}
                           /\ Entry.target = e[1]
                           /\ Entry.caps = IF e[2] = NoType THEN {"command"} ELSE e[2] \ {""}
      OBVIOUS
    <3>1. Presented # "" /\ HashOf(Presented) \in DOMAIN routes
      BY DEF KnownToken
    <3> QED BY <2>1, <3>1, EntriesAgree DEF Entry
  <2> HIDE DEF entries
  <2>4. ran # NoRun => \E e \in entries :
           /\ entries = {e}
           /\ ran.target = e[1]
           /\ caps = IF e[2] = NoType THEN {"command"} ELSE e[2] \ {""}
    BY <2>1, <2>3 DEF RanAsRouted
  <2>5. (charged # NoAddr) = (entries = {} /\ ~PathRejected)
    BY <2>1, <2>2 DEF RanAsRouted
  <2> QED BY <2>4, <2>5 DEF entries
<1> QED BY <1>1, HandlersInvariant, PTL

\* The handlers implement SecurityPolicy: a batch is judged once, before it
\* runs, for the capabilities of its own token, and what runs is what was judged.
THEOREM HandlersImplementPolicy == HandlersSpec => ImplementsPolicy
<1>1. HandlersInit => PolicyInit
  BY DEF HandlersInit
<1>2. HandlersInv /\ [HandlersNext]_handlerVars => [PolicyNext]_policyVars
  <2> SUFFICES ASSUME HandlersInv, [HandlersNext]_handlerVars
               PROVE  PolicyNext \/ UNCHANGED policyVars
    OBVIOUS
  <2>1. CASE CheckSettings
    <3>1. Start(TRUE) \/ Start(FALSE)
      BY <2>1 DEF CheckSettings, Start
    <3> QED BY <3>1 DEF PolicyNext
  <2>2. CASE TakeBody
    <3>1. stage = "body" /\ request.route \in CommandRoutes /\ Receive(route.caps, request.list)
      BY <2>2 DEF TakeBody
    <3>2. stage \in RequestStages /\ Routed /\ IsRequest(request)
      BY <3>1 DEF HandlersInv, RequestInv, RequestStages
    <3>3. route.caps \in (SUBSET Capabilities) \ {{}}
      BY <3>2, RouteIs DEF Routed
    <3>4. request.list \in Batches
      BY <3>1, <3>2 DEF IsRequest, IsBatch
    <3> QED BY <3>1, <3>3, <3>4 DEF PolicyNext
  <2>3. CASE ApplyPolicy
    BY <2>3 DEF ApplyPolicy, PolicyNext
  <2>4. CASE UnknownMode \/ LoadEnvTarget \/ OpenFile \/ TakeTarget \/ TakeToken \/ CloseTarget
             \/ BuildTarget \/ Listen
    BY <2>4 DEF UnknownMode, LoadEnvTarget, OpenFile, TakeTarget, TakeToken, CloseTarget,
                BuildTarget, Listen
  <2>5. CASE Arrive \/ RejectPath \/ InvalidJson \/ Execute \/ Respond \/ Subscribe
    BY <2>5 DEF Arrive, RejectPath, InvalidJson, Execute, Respond, Subscribe
  <2>6. CASE Authenticate \/ Metrics
    BY <2>6 DEF Authenticate, Metrics, Unauthorized
  <2>7. CASE UNCHANGED handlerVars
    BY <2>7 DEF handlerVars
  <2> QED BY <2>1, <2>2, <2>3, <2>4, <2>5, <2>6, <2>7 DEF HandlersNext, StartupNext
<1>3. HandlersInv => (ran # NoRun => phase = "judged" /\ sent # Denied /\ ran.commands = sent)
  <2> SUFFICES ASSUME HandlersInv, ran # NoRun
               PROVE  phase = "judged" /\ sent # Denied /\ ran.commands = sent
    OBVIOUS
  <2>1. stage \notin StartStages \cup {"serving", "auth", "body", "policy", "execute"}
    BY DEF HandlersInv, RequestInv, Fresh
  <2>2. stage = "reply" \/ stage = "answered"
    BY <2>1 DEF HandlersInv, StartInv, RequestStages
  <2>3. CASE stage = "reply"
    BY <2>3 DEF HandlersInv, RequestInv
  <2>4. CASE stage = "answered"
    BY <2>4 DEF HandlersInv, RequestInv, RanAsRouted
  <2> QED BY <2>2, <2>3, <2>4
<1> QED BY <1>1, <1>2, <1>3, HandlersInvariant, PTL DEF HandlersSpec, ImplementsPolicy, PolicySpec

-----------------------------------------------------------------------------
(* Trusted proxies: the masks compare the bits of the prefix.              *)

LEMMA MaskIs ==
    ASSUME NEW w \in Nat \ {0}, NEW prefix \in 0 .. w
    PROVE  PrefixMask(prefix, w) = [k \in 1 .. w |-> IF k <= prefix THEN 1 ELSE 0]
<1>1. CASE prefix = 0
  <2>1. \A k \in 1 .. w : ~(k <= prefix)
    BY <1>1
  <2> QED BY <1>1, <2>1 DEF PrefixMask
<1>2. CASE prefix # 0
  <2> DEFINE m == w - prefix
  <2>1. m \in 0 .. w - 1
    BY <1>2
  <2>2. m % w = m
    <3> HIDE DEF m
    <3> QED BY <2>1
  <2>3. \A k \in 1 .. w : k + m <= w <=> k <= prefix
    OBVIOUS
  <2>4. \A k \in 1 .. w : k + m <= w => k + m \in 1 .. w
    OBVIOUS
  <2> HIDE DEF m
  <2>5. Shl(AllOnes(w), m, w) = [k \in 1 .. w |-> IF k + m <= w THEN AllOnes(w)[k + m] ELSE 0]
    BY <2>2 DEF Shl
  <2>6. \A k \in 1 .. w : k + m <= w => AllOnes(w)[k + m] = 1
    BY <2>4 DEF AllOnes
  <2>7. Shl(AllOnes(w), m, w) = [k \in 1 .. w |-> IF k <= prefix THEN 1 ELSE 0]
    BY <2>3, <2>5, <2>6
  <2> QED BY <1>2, <2>7 DEF PrefixMask, m
<1> QED BY <1>1, <1>2

LEMMA MaskCompares ==
    ASSUME NEW w \in Nat \ {0}, NEW prefix \in 0 .. w,
           NEW x \in [1 .. w -> {0, 1}], NEW y \in [1 .. w -> {0, 1}]
    PROVE  BitAnd(x, PrefixMask(prefix, w), w) = BitAnd(y, PrefixMask(prefix, w), w) <=>
             \A k \in 1 .. prefix : x[k] = y[k]
<1> DEFINE mask == [k \in 1 .. w |-> IF k <= prefix THEN 1 ELSE 0]
           a == BitAnd(x, mask, w)
           b == BitAnd(y, mask, w)
<1>1. PrefixMask(prefix, w) = mask
  BY MaskIs
<1>2. /\ a = [k \in 1 .. w |-> IF x[k] = 1 THEN mask[k] ELSE 0]
      /\ b = [k \in 1 .. w |-> IF y[k] = 1 THEN mask[k] ELSE 0]
  BY DEF BitAnd
<1>3. \A k \in 1 .. w : mask[k] = IF k <= prefix THEN 1 ELSE 0
  OBVIOUS
<1> HIDE DEF mask, a, b
<1>4. a = b <=> \A k \in 1 .. w : a[k] = b[k]
  BY <1>2
<1>5. \A k \in 1 .. w : a[k] = b[k] <=> (k <= prefix => x[k] = y[k])
  <2> TAKE k \in 1 .. w
  <2>1. /\ a[k] = IF x[k] = 1 THEN mask[k] ELSE 0
        /\ b[k] = IF y[k] = 1 THEN mask[k] ELSE 0
    BY <1>2
  <2>2. x[k] \in {0, 1} /\ y[k] \in {0, 1}
    OBVIOUS
  <2> QED BY <1>3, <2>1, <2>2
<1>6. (\A k \in 1 .. w : k <= prefix => x[k] = y[k]) <=> \A k \in 1 .. prefix : x[k] = y[k]
  <2>1. \A k \in 1 .. prefix : k \in 1 .. w /\ k <= prefix
    OBVIOUS
  <2>2. \A k \in 1 .. w : k <= prefix => k \in 1 .. prefix
    OBVIOUS
  <2> QED BY <2>1, <2>2
<1> QED BY <1>1, <1>4, <1>5, <1>6 DEF a, b

LEMMA TrustIs ==
    ASSUME IsSettings(settings), IsRequest(request), SoundButBind
    PROVE  IsTrusted(TrustedProxies, request.peer) <=> FromProxy
<1> DEFINE ip == request.peer
<1>1. IsAddr(ip)
  BY DEF IsRequest
<1> HIDE DEF ip
<1>2. CASE ~settings.trust
  BY <1>2 DEF IsTrusted, TrustedProxies, FromProxy
<1>3. CASE settings.trust
  <2>1. \A p \in Proxies : EntryOk(p)
    BY <1>3, ProxiesChecked DEF SoundButBind
  <2>2. \A p \in Proxies : p.network = NoAddr \/ IsAddr(p.network)
    BY DEF Proxies, IsSettings
  <2>3. ASSUME NEW p \in Proxies
        PROVE  Contains(ParseProxy(p), ip) <=>
                 /\ p.network.family = ip.family
                 /\ \A k \in 1 .. (IF p.slash THEN p.prefix ELSE Len(p.network.bits)) :
                       p.network.bits[k] = ip.bits[k]
    <3> DEFINE f == p.network.family
               x == p.network.bits
               y == ip.bits
               w == Width(ip.family)
               n == IF p.slash THEN p.prefix ELSE Width(f)
    <3>1. p.network # NoAddr /\ (p.slash => p.prefix \in 0 .. Width(f))
      BY <2>1 DEF EntryOk
    <3>2. f \in Families /\ x \in Seq({0, 1}) /\ Len(x) = Width(f)
      BY <2>2, <3>1 DEF IsAddr
    <3>3. y \in Seq({0, 1}) /\ Len(y) = w
      BY <1>1 DEF IsAddr
    <3>4. w \in Nat \ {0} /\ Width(f) \in Nat \ {0}
      BY AddressAssumption DEF Width
    <3>5. n \in 0 .. Width(f)
      BY <3>1, <3>4
    <3>6. ParseProxy(p).network.family = f /\ ParseProxy(p).network.bits = x /\ ParseProxy(p).prefix = n
      BY DEF ParseProxy
    <3>7. Contains(ParseProxy(p), ip) <=>
            f = ip.family /\ BitAnd(x, PrefixMask(n, w), w) = BitAnd(y, PrefixMask(n, w), w)
      <4> HIDE DEF f, x, n
      <4> QED BY <3>6 DEF Contains
    <3>8. (IF p.slash THEN p.prefix ELSE Len(p.network.bits)) = n
      BY <3>2
    <3>9. f = ip.family => w = Width(f)
      OBVIOUS
    <3> HIDE DEF f, x, y, w, n
    <3>10. f = ip.family =>
             (BitAnd(x, PrefixMask(n, w), w) = BitAnd(y, PrefixMask(n, w), w) <=>
                \A k \in 1 .. n : x[k] = y[k])
      <4> SUFFICES ASSUME f = ip.family
                   PROVE  BitAnd(x, PrefixMask(n, w), w) = BitAnd(y, PrefixMask(n, w), w) <=>
                            \A k \in 1 .. n : x[k] = y[k]
        OBVIOUS
      <4>1. x \in [1 .. w -> {0, 1}] /\ y \in [1 .. w -> {0, 1}] /\ n \in 0 .. w
        BY <3>2, <3>3, <3>5, <3>9, LenProperties
      <4> QED BY <3>4, <4>1, MaskCompares
    <3> QED BY <3>7, <3>8, <3>10 DEF f, x, y
  <2>4. IsTrusted(TrustedProxies, ip) <=> \E p \in Proxies : Contains(ParseProxy(p), ip)
    BY <1>3 DEF IsTrusted, TrustedProxies
  <2> QED BY <1>3, <2>3, <2>4 DEF FromProxy, ip
<1> QED BY <1>2, <1>3

-----------------------------------------------------------------------------
(* Headers: the first address in them.                                     *)

Less == {p \in Nat \X Nat : p[1] < p[2]}

LEMMA LessWellFounded == IsWellFoundedOn(Less, Nat)
BY NatLessThanWellFounded DEF OpToRel, Less

LEMMA LeastNatural ==
    ASSUME NEW S \in SUBSET Nat, S # {}
    PROVE  \E n \in S : \A m \in S : n <= m
<1>1. PICK n \in S : \A m \in S : ~(<<m, n>> \in Less)
  BY LessWellFounded, WFMin
<1>2. \A m \in S : ~(m < n)
  BY <1>1 DEF Less
<1> QED BY <1>2

\* find_map: no address at all, or the one before which there is none.
LEMMA FirstAddrIs ==
    ASSUME NEW addrs, Len(addrs) \in Nat
    PROVE  \/ /\ \A k \in 1 .. Len(addrs) : addrs[k] = NoAddr
              /\ FirstAddr(addrs) = NoAddr
           \/ \E k \in 1 .. Len(addrs) :
                 /\ addrs[k] # NoAddr /\ FirstAddr(addrs) = addrs[k]
                 /\ \A j \in 1 .. k - 1 : addrs[j] = NoAddr
<1> DEFINE n == Len(addrs)
           P(k) == addrs[k] # NoAddr /\ \A j \in 1 .. k - 1 : addrs[j] = NoAddr
<1>1. CASE \A k \in 1 .. n : addrs[k] = NoAddr
  BY <1>1 DEF FirstAddr
<1>2. CASE ~\A k \in 1 .. n : addrs[k] = NoAddr
  <2> DEFINE S == {k \in 1 .. n : addrs[k] # NoAddr}
  <2>1. S \in SUBSET Nat /\ S # {}
    BY <1>2
  <2>2. PICK k \in S : \A m \in S : k <= m
    <3> HIDE DEF S
    <3> QED BY <2>1, LeastNatural
  <2>3. k \in 1 .. n /\ addrs[k] # NoAddr
    OBVIOUS
  <2>4. \A j \in 1 .. k - 1 : addrs[j] = NoAddr
    <3> SUFFICES ASSUME NEW j \in 1 .. k - 1, addrs[j] # NoAddr PROVE FALSE
      OBVIOUS
    <3>1. j \in 1 .. n
      BY <2>3
    <3>2. j \in S
      BY <3>1
    <3>3. k <= j
      BY <2>2, <3>2
    <3> QED BY <2>3, <3>3
  <2>5. P(k)
    BY <2>3, <2>4
  <2> DEFINE c == CHOOSE i \in 1 .. n : P(i)
  <2> HIDE DEF P
  <2>6. c \in 1 .. n /\ P(c)
    BY <2>3, <2>5
  <2>7. FirstAddr(addrs) = addrs[c]
    BY <1>2 DEF FirstAddr, P
  <2> HIDE DEF c
  <2> QED BY <2>6, <2>7 DEF P
<1> QED BY <1>1, <1>2

\* A text is read as an address exactly when a proxy may write it.
ReadableText(t) == <<t.open, t.close, t.addr.family, t.tail>> \in Readable

LEMMA ParseIs ==
    ASSUME NEW t, IsText(t)
    PROVE  /\ ParseIpCandidate(t) = IF ReadableText(t) THEN t.addr ELSE NoAddr
           /\ ReadableText(t) => t.addr # NoAddr
<1> DEFINE o == t.open
           c == t.close
           f == t.addr.family
           l == t.tail
<1>1. o \in BOOLEAN /\ c \in BOOLEAN /\ l \in {"none", "port", "colon", "junk"}
      /\ ~(f = "v6" /\ ~o /\ l \in {"port", "colon"})
  BY DEF IsText
<1>2. t.addr = NoAddr \/ IsAddr(t.addr)
  BY DEF IsText
<1>3. t.addr # NoAddr <=> f \in Families
  <2>1. NoAddr.family \notin Families
    BY DEF NoAddr, Families
  <2> QED BY <1>2, <2>1 DEF IsAddr
<1>4. ReadableText(t) <=> <<o, c, f, l>> \in Readable
  BY DEF ReadableText
<1> DEFINE Reads == \/ ~o /\ ~c /\ l = "none"
                    \/ l = "port" /\ (o <=> c) /\ (o <=> f = "v6")
                    \/ o /\ c
                    \/ ~o /\ ~c /\ f = "v4" /\ l \in {"port", "colon"}
<1>5. ParseIpCandidate(t) = IF Reads THEN t.addr ELSE NoAddr
  BY <1>1 DEF ParseIpCandidate, IsIpAddr, IsSocketAddr, OneColon
<1> HIDE DEF o, c, f, l
<1>6. <<o, c, f, l>> \in Readable <=>
        \/ ~o /\ ~c /\ f \in Families /\ l = "none"
        \/ ~o /\ ~c /\ f = "v4" /\ l \in {"port", "colon"}
        \/ o /\ c /\ f \in Families /\ l \in {"none", "port", "colon", "junk"}
  BY <1>1 DEF Readable
<1>7. "v4" \in Families /\ Families = {"v4", "v6"}
  BY DEF Families
<1>8. f \in Families => (Reads <=> <<o, c, f, l>> \in Readable)
  BY <1>1, <1>6, <1>7
<1>9. f \notin Families => <<o, c, f, l>> \notin Readable
  BY <1>6, <1>7
<1> HIDE DEF Reads
<1> QED BY <1>3, <1>4, <1>5, <1>8, <1>9

\* A header that is a list of addresses.
LEMMA ListIpIs ==
    ASSUME NEW values, Len(values) \in Nat, \A k \in 1 .. Len(values) : IsText(values[k])
    PROVE  \/ /\ \A k \in 1 .. Len(values) : ~ReadableText(values[k])
              /\ ListIp(values) = NoAddr
           \/ \E k \in 1 .. Len(values) :
                 /\ ReadableText(values[k]) /\ ListIp(values) = values[k].addr
                 /\ ListIp(values) # NoAddr
                 /\ \A j \in 1 .. k - 1 : ~ReadableText(values[j])
<1> DEFINE n == Len(values)
           g == [k \in 1 .. n |-> ParseIpCandidate(values[k])]
<1>1. \A k \in 1 .. n : /\ g[k] = IF ReadableText(values[k]) THEN values[k].addr ELSE NoAddr
                        /\ ReadableText(values[k]) => values[k].addr # NoAddr
  BY ParseIs
<1>2. g = [k \in 1 .. n |-> g[k]]
  OBVIOUS
<1>3. ListIp(values) = FirstAddr(g)
  BY DEF ListIp
<1> HIDE DEF g
<1>4. Len(g) = n /\ n \in Nat
  BY <1>2, LengthOfFcn
<1> HIDE DEF n
<1>5. \/ (\A k \in 1 .. n : g[k] = NoAddr) /\ FirstAddr(g) = NoAddr
      \/ \E k \in 1 .. n : /\ g[k] # NoAddr /\ FirstAddr(g) = g[k]
                           /\ \A j \in 1 .. k - 1 : g[j] = NoAddr
  BY <1>4, FirstAddrIs
<1>6. \A k \in 1 .. n : \A j \in 1 .. k - 1 : j \in 1 .. n
  BY <1>4
<1> QED BY <1>1, <1>3, <1>5, <1>6 DEF n

\* A header with one value is a list of at most one.
LEMMA HeaderIpIs ==
    ASSUME NEW values, IsSeq(values), Len(values) <= 1
    PROVE  HeaderIp(values) = ListIp(values)
<1>1. Len(values) \in Nat /\ (values # <<>> <=> Len(values) # 0)
  <2>1. PICK S : values \in Seq(S)
    BY DEF IsSeq
  <2> QED BY <2>1, LenProperties, EmptySeq
<1> DEFINE n == Len(values)
           g == [k \in 1 .. n |-> ParseIpCandidate(values[k])]
<1>2. ListIp(values) = FirstAddr(g) /\ g = [k \in 1 .. n |-> g[k]]
  BY DEF ListIp
<1>3. \A k \in 1 .. n : g[k] = ParseIpCandidate(values[k])
  OBVIOUS
<1> HIDE DEF g
<1>4. Len(g) = n /\ n \in Nat
  BY <1>1, <1>2, LengthOfFcn
<1> HIDE DEF n
<1>5. \/ (\A k \in 1 .. n : g[k] = NoAddr) /\ FirstAddr(g) = NoAddr
      \/ \E k \in 1 .. n : /\ g[k] # NoAddr /\ FirstAddr(g) = g[k]
                           /\ \A j \in 1 .. k - 1 : g[j] = NoAddr
  BY <1>4, FirstAddrIs
<1>6. CASE n = 0
  <2>1. FirstAddr(g) = NoAddr
    BY <1>5, <1>6
  <2> QED BY <1>1, <1>2, <1>6, <2>1 DEF HeaderIp, n
<1>7. CASE n = 1
  <2>1. \A k : k \in 1 .. n <=> k = 1
    BY <1>7
  <2>2. FirstAddr(g) = g[1] /\ g[1] = ParseIpCandidate(values[1])
    BY <1>3, <1>5, <2>1
  <2> QED BY <1>1, <1>2, <1>7, <2>2 DEF HeaderIp, n
<1>8. n = 0 \/ n = 1
  BY <1>4 DEF n
<1> QED BY <1>6, <1>7, <1>8

\* An entry of Forwarded, and the header.
ForAt(parts, k) == parts[k].key = "for" /\ ReadableText(parts[k].value)

EntryIp(parts) ==
    FirstAddr([p \in 1 .. Len(parts) |->
        IF parts[p].key = "for" THEN ParseIpCandidate(parts[p].value) ELSE NoAddr])

LEMMA EntryIpIs ==
    ASSUME NEW parts, Len(parts) \in Nat, \A k \in 1 .. Len(parts) : IsText(parts[k].value)
    PROVE  \/ /\ \A k \in 1 .. Len(parts) : ~ForAt(parts, k)
              /\ EntryIp(parts) = NoAddr
           \/ \E k \in 1 .. Len(parts) :
                 /\ ForAt(parts, k) /\ EntryIp(parts) = parts[k].value.addr
                 /\ EntryIp(parts) # NoAddr
                 /\ \A j \in 1 .. k - 1 : ~ForAt(parts, j)
<1> DEFINE n == Len(parts)
           g == [k \in 1 .. n |-> IF parts[k].key = "for" THEN ParseIpCandidate(parts[k].value)
                                  ELSE NoAddr]
<1>1. \A k \in 1 .. n : /\ g[k] = IF ForAt(parts, k) THEN parts[k].value.addr ELSE NoAddr
                        /\ ForAt(parts, k) => parts[k].value.addr # NoAddr
  BY ParseIs DEF ForAt
<1>2. g = [k \in 1 .. n |-> g[k]]
  OBVIOUS
<1>3. EntryIp(parts) = FirstAddr(g)
  BY DEF EntryIp
<1> HIDE DEF g
<1>4. Len(g) = n /\ n \in Nat
  BY <1>2, LengthOfFcn
<1> HIDE DEF n
<1>5. \/ (\A k \in 1 .. n : g[k] = NoAddr) /\ FirstAddr(g) = NoAddr
      \/ \E k \in 1 .. n : /\ g[k] # NoAddr /\ FirstAddr(g) = g[k]
                           /\ \A j \in 1 .. k - 1 : g[j] = NoAddr
  BY <1>4, FirstAddrIs
<1>6. \A k \in 1 .. n : \A j \in 1 .. k - 1 : j \in 1 .. n
  BY <1>4
<1> QED BY <1>1, <1>3, <1>5, <1>6 DEF n

LEMMA ForwardedHeaderIpIs ==
    ASSUME NEW entries, Len(entries) \in Nat,
           \A e \in 1 .. Len(entries) :
              /\ Len(entries[e]) \in Nat
              /\ \A k \in 1 .. Len(entries[e]) : IsText(entries[e][k].value)
    PROVE  \/ /\ \A e \in 1 .. Len(entries) : \A k \in 1 .. Len(entries[e]) : ~ForAt(entries[e], k)
              /\ ForwardedHeaderIp(entries) = NoAddr
           \/ \E e \in 1 .. Len(entries) : \E k \in 1 .. Len(entries[e]) :
                 /\ ForAt(entries[e], k)
                 /\ ForwardedHeaderIp(entries) = entries[e][k].value.addr
                 /\ ForwardedHeaderIp(entries) # NoAddr
                 /\ \A d \in 1 .. e - 1 : \A j \in 1 .. Len(entries[d]) : ~ForAt(entries[d], j)
                 /\ \A j \in 1 .. k - 1 : ~ForAt(entries[e], j)
<1> DEFINE n == Len(entries)
           g == [e \in 1 .. n |-> EntryIp(entries[e])]
<1>1. ForwardedHeaderIp(entries) = FirstAddr(g)
  BY DEF ForwardedHeaderIp, EntryIp
<1>2. \A e \in 1 .. n :
        \/ /\ \A k \in 1 .. Len(entries[e]) : ~ForAt(entries[e], k)
           /\ g[e] = NoAddr
        \/ \E k \in 1 .. Len(entries[e]) :
              /\ ForAt(entries[e], k) /\ g[e] = entries[e][k].value.addr /\ g[e] # NoAddr
              /\ \A j \in 1 .. k - 1 : ~ForAt(entries[e], j)
  BY EntryIpIs
<1>3. g = [e \in 1 .. n |-> g[e]]
  OBVIOUS
<1> HIDE DEF g
<1>4. Len(g) = n /\ n \in Nat
  BY <1>3, LengthOfFcn
<1> HIDE DEF n
<1>5. \/ (\A e \in 1 .. n : g[e] = NoAddr) /\ FirstAddr(g) = NoAddr
      \/ \E e \in 1 .. n : /\ g[e] # NoAddr /\ FirstAddr(g) = g[e]
                           /\ \A d \in 1 .. e - 1 : g[d] = NoAddr
  BY <1>4, FirstAddrIs
<1>6. \A e \in 1 .. n : \A d \in 1 .. e - 1 : d \in 1 .. n
  BY <1>4
<1>7. \A e \in 1 .. n : g[e] = NoAddr => \A k \in 1 .. Len(entries[e]) : ~ForAt(entries[e], k)
  BY <1>2
<1>8. CASE (\A e \in 1 .. n : g[e] = NoAddr) /\ FirstAddr(g) = NoAddr
  BY <1>1, <1>7, <1>8 DEF n
<1>9. CASE \E e \in 1 .. n : /\ g[e] # NoAddr /\ FirstAddr(g) = g[e]
                             /\ \A d \in 1 .. e - 1 : g[d] = NoAddr
  <2>1. PICK e \in 1 .. n : /\ g[e] # NoAddr /\ FirstAddr(g) = g[e]
                            /\ \A d \in 1 .. e - 1 : g[d] = NoAddr
    BY <1>9
  <2>2. PICK k \in 1 .. Len(entries[e]) :
           /\ ForAt(entries[e], k) /\ g[e] = entries[e][k].value.addr
           /\ \A j \in 1 .. k - 1 : ~ForAt(entries[e], j)
    BY <1>2, <2>1
  <2>3. \A d \in 1 .. e - 1 : \A j \in 1 .. Len(entries[d]) : ~ForAt(entries[d], j)
    BY <1>6, <1>7, <2>1
  <2> QED BY <1>1, <2>1, <2>2, <2>3 DEF n
<1> QED BY <1>5, <1>8, <1>9

\* The places of the headers.
HL(n) == Len(Header(n))
Entries == request.headers.forwarded

LEMMA HeaderShape ==
    ASSUME IsRequest(request)
    PROVE  /\ \A n \in 1 .. 4 : HL(n) \in Nat /\ \A k \in 1 .. HL(n) : IsText(Header(n)[k])
           /\ Len(Entries) \in Nat
           /\ \A e \in 1 .. Len(Entries) :
                 /\ Len(Entries[e]) \in Nat
                 /\ \A k \in 1 .. Len(Entries[e]) : IsText(Entries[e][k].value)
<1> DEFINE h == request.headers
           four == {h.cf_connecting_ip, h.true_client_ip, h.x_forwarded_for, h.x_real_ip}
<1>1. \A s : IsSeq(s) => Len(s) \in Nat
  <2> SUFFICES ASSUME NEW s, IsSeq(s) PROVE Len(s) \in Nat
    OBVIOUS
  <2>1. PICK S : s \in Seq(S)
    BY DEF IsSeq
  <2> QED BY <2>1
<1>2. \A values \in four : IsSeq(values) /\ \A k \in 1 .. Len(values) : IsText(values[k])
  BY DEF IsRequest
<1>3. \A n \in 1 .. 4 : Header(n) \in four
  <2>1. \A n \in 1 .. 4 : n = 1 \/ n = 2 \/ n = 3 \/ n = 4
    OBVIOUS
  <2>2. /\ Header(1) = h.cf_connecting_ip /\ Header(2) = h.true_client_ip
        /\ Header(3) = h.x_forwarded_for /\ Header(4) = h.x_real_ip
    BY DEF Header
  <2> QED BY <2>1, <2>2
<1>4. /\ IsSeq(Entries)
      /\ \A e \in 1 .. Len(Entries) : IsSeq(Entries[e])
      /\ \A e \in 1 .. Len(Entries) : \A k \in 1 .. Len(Entries[e]) : IsText(Entries[e][k].value)
  BY DEF IsRequest, Entries
<1> HIDE DEF four
<1> QED BY <1>1, <1>2, <1>3, <1>4 DEF HL

LEMMA NamedIs ==
    \A p : p \in Named <=>
       \/ \E n \in 1 .. 4 : \E k \in 1 .. HL(n) :
             p = <<n, 1, k>> /\ ReadableText(Header(n)[k])
       \/ \E e \in 1 .. Len(Entries) : \E k \in 1 .. Len(Entries[e]) :
             p = <<5, e, k>> /\ ForAt(Entries[e], k)
<1> TAKE p
<1> DEFINE Row(n) == {<<n, 1, k>> : k \in 1 .. HL(n)}
           Ks(e) == {j \in 1 .. Len(Entries[e]) : Entries[e][j].key = "for"}
           Col(e) == {<<5, e, k>> : k \in Ks(e)}
           F4 == UNION {Row(n) : n \in 1 .. 4}
           F5 == UNION {Col(e) : e \in 1 .. Len(Entries)}
<1>1. Fields = F4 \cup F5
  <2> DEFINE G4 == UNION {{<<n, 1, k>> : k \in 1 .. Len(Header(n))} : n \in 1 .. 4}
             G5 == UNION {{<<5, e, k>> : k \in {j \in 1 .. Len(Entries[e]) : Entries[e][j].key = "for"}} :
                             e \in 1 .. Len(Entries)}
  <2>1. Fields = G4 \cup G5
    BY Zenon DEF Fields, Entries
  <2>2. F4 = G4
    BY Zenon DEF HL
  <2>3. F5 = G5
    OBVIOUS
  <2> HIDE DEF F4, F5, G4, G5
  <2> QED BY <2>1, <2>2, <2>3
<1>2. p \in F4 <=> \E n \in 1 .. 4 : \E k \in 1 .. HL(n) : p = <<n, 1, k>>
  <2>1. p \in F4 <=> \E n \in 1 .. 4 : p \in Row(n)
    <3> HIDE DEF Row
    <3> QED OBVIOUS
  <2>2. \A n : p \in Row(n) <=> \E k \in 1 .. HL(n) : p = <<n, 1, k>>
    OBVIOUS
  <2> HIDE DEF Row, F4
  <2> QED BY <2>1, <2>2
<1>3. p \in F5 <=> \E e \in 1 .. Len(Entries) : \E k \in 1 .. Len(Entries[e]) :
                      p = <<5, e, k>> /\ Entries[e][k].key = "for"
  <2>1. p \in F5 <=> \E e \in 1 .. Len(Entries) : p \in Col(e)
    <3> HIDE DEF Col
    <3> QED OBVIOUS
  <2>2. \A e : p \in Col(e) <=> \E k \in Ks(e) : p = <<5, e, k>>
    <3> HIDE DEF Ks
    <3> QED OBVIOUS
  <2>3. \A e, k : k \in Ks(e) <=> k \in 1 .. Len(Entries[e]) /\ Entries[e][k].key = "for"
    OBVIOUS
  <2> HIDE DEF Col, F5, Ks
  <2> QED BY <2>1, <2>2, <2>3
<1>4. \A n \in 1 .. 4 : \A k : TextAt(<<n, 1, k>>) = Header(n)[k]
  <2>1. \A n \in 1 .. 4 : n # 5
    OBVIOUS
  <2>2. \A n, k : <<n, 1, k>>[1] = n /\ <<n, 1, k>>[3] = k
    OBVIOUS
  <2> QED BY <2>1, <2>2 DEF TextAt
<1>5. \A e, k : TextAt(<<5, e, k>>) = Entries[e][k].value
  BY DEF TextAt, Entries
<1>6. p \in Named <=> p \in Fields /\ ReadableText(TextAt(p))
  BY DEF Named, ReadableText
<1> HIDE DEF F4, F5
<1>7. p \in F4 /\ ReadableText(TextAt(p)) <=>
        \E n \in 1 .. 4 : \E k \in 1 .. HL(n) : p = <<n, 1, k>> /\ ReadableText(Header(n)[k])
  BY <1>2, <1>4
<1>8. p \in F5 /\ ReadableText(TextAt(p)) <=>
        \E e \in 1 .. Len(Entries) : \E k \in 1 .. Len(Entries[e]) :
           p = <<5, e, k>> /\ ForAt(Entries[e], k)
  BY <1>3, <1>5 DEF ForAt
<1> QED BY <1>1, <1>6, <1>7, <1>8

\* forwarded_ip finds the address that is named first, if one is.
LEMMA ForwardedIs ==
    ASSUME IsRequest(request)
    PROVE  \/ Named = {} /\ ForwardedIp(request.headers) = NoAddr
           \/ /\ Named # {} /\ ForwardedIp(request.headers) # NoAddr
              /\ ForwardedIp(request.headers) \in NamedFirst
<1> DEFINE ip == ForwardedIp(request.headers)
           L == <<ListIp(Header(1)), ListIp(Header(2)), ListIp(Header(3)), ListIp(Header(4)),
                  ForwardedHeaderIp(Entries)>>
<1>1. ip = FirstAddr(L) /\ Len(L) = 5
  <2>1. /\ Header(1) = request.headers.cf_connecting_ip
        /\ Header(2) = request.headers.true_client_ip
        /\ Header(3) = request.headers.x_forwarded_for /\ Header(4) = request.headers.x_real_ip
    BY DEF Header
  <2>2. \A n \in {1, 2, 4} : HeaderIp(Header(n)) = ListIp(Header(n))
    <3>1. \A n \in {1, 2, 4} : IsSeq(Header(n)) /\ Len(Header(n)) <= 1
      BY <2>1 DEF IsRequest
    <3> QED BY <3>1, HeaderIpIs
  <2>3. FirstAddr(L) = FirstAddr(<<HeaderIp(Header(1)), HeaderIp(Header(2)), ListIp(Header(3)),
                                   HeaderIp(Header(4)), ForwardedHeaderIp(Entries)>>)
    BY <2>2
  <2> QED BY <2>1, <2>3 DEF ForwardedIp, Entries
<1>2. (\A n \in 1 .. 4 : L[n] = ListIp(Header(n))) /\ L[5] = ForwardedHeaderIp(Entries)
  <2>1. \A n \in 1 .. 4 : n = 1 \/ n = 2 \/ n = 3 \/ n = 4
    OBVIOUS
  <2>2. /\ L[1] = ListIp(Header(1)) /\ L[2] = ListIp(Header(2)) /\ L[3] = ListIp(Header(3))
        /\ L[4] = ListIp(Header(4)) /\ L[5] = ForwardedHeaderIp(Entries)
    OBVIOUS
  <2> HIDE DEF L
  <2> QED BY <2>1, <2>2
<1> HIDE DEF L, ip
<1>3. \/ (\A n \in 1 .. 5 : L[n] = NoAddr) /\ ip = NoAddr
      \/ \E n \in 1 .. 5 : L[n] # NoAddr /\ ip = L[n] /\ \A j \in 1 .. n - 1 : L[j] = NoAddr
  <2>1. Len(L) \in Nat
    BY <1>1
  <2> QED BY <1>1, <2>1, FirstAddrIs
<1>4. \A n \in 1 .. 4 :
        \/ /\ \A k \in 1 .. HL(n) : ~ReadableText(Header(n)[k])
           /\ L[n] = NoAddr
        \/ \E k \in 1 .. HL(n) :
              /\ ReadableText(Header(n)[k]) /\ L[n] = Header(n)[k].addr /\ L[n] # NoAddr
              /\ \A j \in 1 .. k - 1 : ~ReadableText(Header(n)[j])
  <2> TAKE n \in 1 .. 4
  <2>1. Len(Header(n)) \in Nat /\ \A k \in 1 .. Len(Header(n)) : IsText(Header(n)[k])
    BY HeaderShape DEF HL
  <2> QED BY <1>2, <2>1, ListIpIs DEF HL
<1>5. \/ /\ \A e \in 1 .. Len(Entries) : \A k \in 1 .. Len(Entries[e]) : ~ForAt(Entries[e], k)
         /\ L[5] = NoAddr
      \/ \E e \in 1 .. Len(Entries) : \E k \in 1 .. Len(Entries[e]) :
            /\ ForAt(Entries[e], k) /\ L[5] = Entries[e][k].value.addr /\ L[5] # NoAddr
            /\ \A d \in 1 .. e - 1 : \A j \in 1 .. Len(Entries[d]) : ~ForAt(Entries[d], j)
            /\ \A j \in 1 .. k - 1 : ~ForAt(Entries[e], j)
  <2>1. /\ Len(Entries) \in Nat
        /\ \A e \in 1 .. Len(Entries) :
              /\ Len(Entries[e]) \in Nat
              /\ \A k \in 1 .. Len(Entries[e]) : IsText(Entries[e][k].value)
    BY HeaderShape
  <2>2. L[5] = ForwardedHeaderIp(Entries)
    BY <1>2
  <2> DEFINE es == Entries
  <2> HIDE DEF es
  <2>3. es = Entries
    BY DEF es
  <2> QED BY <2>1, <2>2, ForwardedHeaderIpIs
<1>6. ASSUME NEW r \in Named
      PROVE  \/ \E n \in 1 .. 4 : \E k \in 1 .. HL(n) :
                   /\ r[1] = n /\ r[2] = 1 /\ r[3] = k /\ ReadableText(Header(n)[k]) /\ L[n] # NoAddr
             \/ \E e \in 1 .. Len(Entries) : \E k \in 1 .. Len(Entries[e]) :
                   /\ r[1] = 5 /\ r[2] = e /\ r[3] = k /\ ForAt(Entries[e], k) /\ L[5] # NoAddr
  <2>1. CASE \E n \in 1 .. 4 : \E k \in 1 .. HL(n) :
                r = <<n, 1, k>> /\ ReadableText(Header(n)[k])
    <3>1. PICK n \in 1 .. 4 : \E k \in 1 .. HL(n) : r = <<n, 1, k>> /\ ReadableText(Header(n)[k])
      BY <2>1
    <3>2. PICK k \in 1 .. HL(n) : r = <<n, 1, k>> /\ ReadableText(Header(n)[k])
      BY <3>1
    <3>3. r[1] = n /\ r[2] = 1 /\ r[3] = k
      BY <3>2
    <3>4. L[n] # NoAddr
      BY <1>4, <3>2
    <3> QED BY <3>2, <3>3, <3>4
  <2>2. CASE \E e \in 1 .. Len(Entries) : \E k \in 1 .. Len(Entries[e]) :
                r = <<5, e, k>> /\ ForAt(Entries[e], k)
    <3>1. PICK e \in 1 .. Len(Entries) : \E k \in 1 .. Len(Entries[e]) :
                r = <<5, e, k>> /\ ForAt(Entries[e], k)
      BY <2>2
    <3>2. PICK k \in 1 .. Len(Entries[e]) : r = <<5, e, k>> /\ ForAt(Entries[e], k)
      BY <3>1
    <3>3. r[1] = 5 /\ r[2] = e /\ r[3] = k
      BY <3>2
    <3>4. L[5] # NoAddr
      BY <1>5, <3>2
    <3> QED BY <3>2, <3>3, <3>4
  <2> QED BY <2>1, <2>2, NamedIs
<1>7. CASE (\A n \in 1 .. 5 : L[n] = NoAddr) /\ ip = NoAddr
  <2>1. \A n \in 1 .. 4 : L[n] = NoAddr
    BY <1>7
  <2>2. L[5] = NoAddr
    BY <1>7
  <2>3. Named = {}
    <3> SUFFICES ASSUME NEW r \in Named PROVE FALSE
      OBVIOUS
    <3> QED BY <1>6, <2>1, <2>2
  <2> QED BY <1>7, <2>3 DEF ip
<1>8. ASSUME NEW p \in Named, \A r \in Named : ~Before(r, p), ip = TextAt(p).addr, ip # NoAddr
      PROVE  Named # {} /\ ip # NoAddr /\ ip \in NamedFirst
  BY <1>8 DEF NamedFirst
<1>9. CASE \E n \in 1 .. 5 : L[n] # NoAddr /\ ip = L[n] /\ \A j \in 1 .. n - 1 : L[j] = NoAddr
  <2>1. PICK n \in 1 .. 5 : L[n] # NoAddr /\ ip = L[n] /\ \A j \in 1 .. n - 1 : L[j] = NoAddr
    BY <1>9
  <2>2. ASSUME NEW r \in Named PROVE r[1] \in 1 .. 5 /\ ~(r[1] < n)
    <3>1. r[1] \in 1 .. 5 /\ L[r[1]] # NoAddr
      <4>1. 5 \in 1 .. 5 /\ \A i \in 1 .. 4 : i \in 1 .. 5
        OBVIOUS
      <4> QED BY <1>6, <4>1
    <3>2. r[1] < n => r[1] \in 1 .. n - 1
      BY <3>1
    <3> QED BY <2>1, <3>1, <3>2
  <2>3. CASE n \in 1 .. 4
    <3>1. PICK k \in 1 .. HL(n) :
            /\ ReadableText(Header(n)[k]) /\ L[n] = Header(n)[k].addr
            /\ \A j \in 1 .. k - 1 : ~ReadableText(Header(n)[j])
      BY <1>4, <2>1, <2>3
    <3> DEFINE p == <<n, 1, k>>
    <3>2. p \in Named
      BY <2>3, <3>1, NamedIs
    <3>3. TextAt(p) = Header(n)[k]
      <4>1. n # 5
        BY <2>3
      <4> QED BY <4>1 DEF TextAt
    <3>4. p[1] = n /\ p[2] = 1 /\ p[3] = k
      OBVIOUS
    <3> HIDE DEF p
    <3>5. ASSUME NEW r \in Named, Before(r, p) PROVE FALSE
      <4>1. \/ r[1] < n
            \/ r[1] = n /\ r[2] < 1
            \/ r[1] = n /\ r[2] = 1 /\ r[3] < k
        BY <3>4, <3>5 DEF Before
      <4>2. r[1] = n
        BY <2>2, <4>1
      <4>3. n # 5
        BY <2>3
      <4>4. PICK m \in 1 .. HL(n) : r[2] = 1 /\ r[3] = m /\ ReadableText(Header(n)[m])
        BY <1>6, <4>2, <4>3
      <4>5. HL(n) \in Nat
        BY <2>3, HeaderShape
      <4>6. m < k
        BY <2>2, <4>1, <4>4
      <4>7. m \in 1 .. k - 1
        BY <4>5, <4>6
      <4> QED BY <3>1, <4>4, <4>7
    <3> QED BY <1>8, <2>1, <3>1, <3>2, <3>3, <3>5 DEF ip
  <2>4. CASE n = 5
    <3>1. PICK e \in 1 .. Len(Entries) : \E k \in 1 .. Len(Entries[e]) :
            /\ ForAt(Entries[e], k) /\ L[5] = Entries[e][k].value.addr
            /\ \A d \in 1 .. e - 1 : \A j \in 1 .. Len(Entries[d]) : ~ForAt(Entries[d], j)
            /\ \A j \in 1 .. k - 1 : ~ForAt(Entries[e], j)
      BY <1>5, <2>1, <2>4
    <3>2. PICK k \in 1 .. Len(Entries[e]) :
            /\ ForAt(Entries[e], k) /\ L[5] = Entries[e][k].value.addr
            /\ \A d \in 1 .. e - 1 : \A j \in 1 .. Len(Entries[d]) : ~ForAt(Entries[d], j)
            /\ \A j \in 1 .. k - 1 : ~ForAt(Entries[e], j)
      BY <3>1
    <3> DEFINE p == <<5, e, k>>
    <3>3. p \in Named
      BY <3>2, NamedIs
    <3>4. TextAt(p) = Entries[e][k].value
      BY DEF TextAt, Entries
    <3>5. p[1] = 5 /\ p[2] = e /\ p[3] = k
      OBVIOUS
    <3> HIDE DEF p
    <3>6. ASSUME NEW r \in Named, Before(r, p) PROVE FALSE
      <4>1. \/ r[1] < 5
            \/ r[1] = 5 /\ r[2] < e
            \/ r[1] = 5 /\ r[2] = e /\ r[3] < k
        BY <3>5, <3>6 DEF Before
      <4>2. r[1] = 5
        BY <2>2, <2>4, <4>1
      <4>3. PICK d \in 1 .. Len(Entries) : \E m \in 1 .. Len(Entries[d]) :
               r[2] = d /\ r[3] = m /\ ForAt(Entries[d], m)
        <5>1. \A i \in 1 .. 4 : i # 5
          OBVIOUS
        <5> QED BY <1>6, <4>2, <5>1
      <4>4. PICK m \in 1 .. Len(Entries[d]) : r[2] = d /\ r[3] = m /\ ForAt(Entries[d], m)
        BY <4>3
      <4>5. Len(Entries) \in Nat /\ Len(Entries[e]) \in Nat /\ Len(Entries[d]) \in Nat
        BY HeaderShape
      <4>6. d \in Nat \ {0} /\ m \in Nat \ {0} /\ e \in Nat /\ k \in Nat
        BY <4>5
      <4>7. 5 < 5 <=> FALSE
        OBVIOUS
      <4>8. d < e \/ (d = e /\ m < k)
        BY <4>1, <4>2, <4>4, <4>7
      <4>9. d < e => d \in 1 .. e - 1
        BY <4>6
      <4>10. m < k => m \in 1 .. k - 1
        BY <4>6
      <4> QED BY <3>2, <4>4, <4>8, <4>9, <4>10
    <3> QED BY <1>8, <2>1, <2>4, <3>2, <3>3, <3>4, <3>6 DEF ip
  <2>5. n \in 1 .. 4 \/ n = 5
    OBVIOUS
  <2> QED BY <2>3, <2>4, <2>5
<1> QED BY <1>3, <1>7, <1>9

\* TrustedProxies::resolve charges the client the documentation names, for
\* every list of networks and all headers: only a trusted proxy is believed.
THEOREM TheClientIsCharged == HandlersSpec => []ChargesTheClient
<1>1. HandlersInv => ChargesTheClient
  <2> SUFFICES ASSUME HandlersInv, stage = "answered" PROVE ChargesTheClient
    BY DEF ChargesTheClient
  <2>1. IsSettings(settings) /\ IsRequest(request) /\ SoundButBind /\ Recorded
    BY Settled DEF HandlersInv, StartInv, RequestInv, RequestStages
  <2> DEFINE clients == IF FromProxy /\ Named # {} THEN NamedFirst ELSE {request.peer}
  <2>2. ClientIp \in clients
    <3>1. IsTrusted(TrustedProxies, request.peer) <=> FromProxy
      BY <2>1, TrustIs
    <3>2. \/ Named = {} /\ ForwardedIp(request.headers) = NoAddr
          \/ /\ Named # {} /\ ForwardedIp(request.headers) # NoAddr
             /\ ForwardedIp(request.headers) \in NamedFirst
      BY <2>1, ForwardedIs
    <3>3. ClientIp = IF ~FromProxy \/ ForwardedIp(request.headers) = NoAddr
                       THEN request.peer ELSE ForwardedIp(request.headers)
      BY <3>1 DEF ClientIp, Resolve
    <3> QED BY <3>2, <3>3
  <2>3. /\ charged \in {NoAddr, ClientIp} /\ cleared \in {NoAddr, ClientIp}
        /\ charged = NoAddr \/ cleared = NoAddr
    BY <2>1 DEF Recorded
  <2> HIDE DEF clients
  <2>4. \E client \in clients :
           /\ charged \in {NoAddr, client} /\ cleared \in {NoAddr, client}
           /\ charged = NoAddr \/ cleared = NoAddr
    BY <2>2, <2>3
  <2> QED BY <2>4 DEF ChargesTheClient, clients
<1> QED BY <1>1, HandlersInvariant, PTL

=============================================================================
