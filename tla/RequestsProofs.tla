--------------------------- MODULE RequestsProofs ---------------------------
(***************************************************************************)
(* Proofs about Requests, for any export files, addresses, credentials,      *)
(* handles, ways to start the server and files.                              *)
(***************************************************************************)
EXTENDS Requests, SequenceTheorems, TLAPS

----------------------------------------------------------------------------
(* The invariant *)

Walking == {"auth_walk", "walk", "compat_walk"}
Checking == {"auth_check", "check", "compat_check"}
Places == Walking \cup Checking \cup
          {"idle", "prep", "rename", "compat", "translate", "elevate", "transfer", "access", "reply", "dead"}

IsCall(c) ==
    c \in [op : Procedures \cup {"NONE", "MNT"}, remote : {c.remote}, cred : {c.cred}, handle : {c.handle},
           path : {c.path}, tofh : {c.tofh}, to : {c.to}, given : {c.given},
           authenticated : {c.authenticated}, prev : {c.prev}, elevated : BOOLEAN,
           file : {c.file}, access : {c.access}, status : {c.status}]

(* A file as exports_parse may find it.                                      *)
Sound(file) ==
    /\ file.readable \in BOOLEAN
    /\ IsSeq(file.lines)
    /\ \A i \in DOMAIN file.lines : IsLine(file.lines[i])

(* The list belongs to the file as it was read last, and while it is         *)
(* searched it is not replaced.                                              *)
Listed ==
    /\ efile \in ExportFiles
    /\ Sound(loaded) /\ Sound(searched)
    /\ export_list = parsed(loaded)
    /\ exports_access \in BOOLEAN
    /\ exports_access <=> pc \in Walking
    /\ exports_access => searched = loaded
    /\ held \in {"own", "list", "freed"}
    /\ export_path = [path |-> export_path.path, live |-> export_path.live]

(* A request and where it is.                                                *)
Flow ==
    /\ pc \in Places /\ IsCall(cur)
    /\ pc \in Walking \cup Checking => cur.remote \in Remotes
    /\ AtWork => cur.op \in Procedures /\ cur.cred \in Creds /\ cur.remote \in Remotes
    /\ pc \in {"check", "walk"} /\ cur.op # "MNT" => cur.op \in Procedures /\ cur.cred \in Creds
    /\ pc = "prep" => cur.op \in Procedures /\ cur.cred \in Creds /\ cur.remote \in Remotes
    /\ pc \in {"auth_walk", "auth_check"} => cur.op = "MNT"
    /\ pc \in {"rename", "compat", "compat_walk", "compat_check"} => cur.op = "RENAME"
    /\ pc = "elevate" => cur.op \in {"READ", "WRITE"}
    /\ pc = "transfer" => cur.op = "WRITE"
    /\ pc = "access" => cur.op = "ACCESS"
    /\ cur.elevated => \/ pc \in {"transfer", "reply", "dead"}
                       \/ pc = "translate" /\ cur.op = "READ"

(* What the search leaves in the globals: of an item and its host, or of     *)
(* nothing.                                                                  *)
Globals ==
    [options |-> exports_opts, path |-> export_path.path, hash |-> export_password_hash,
     uid |-> last_anonuid, gid |-> last_anongid]
FoundOf(path, host) ==
    [options |-> host.options, path |-> path, hash |-> host.password_hash,
     uid |-> host.anonuid, gid |-> host.anongid]
NothingFound(g) == g.options = NotExported /\ g.path = NoPath

(* i is the first of the longest of the lines S.                             *)
Longest(lines, S, i) ==
    /\ i \in S
    /\ \A j \in S : /\ Len(item_path(lines[j])) <= Len(item_path(lines[i]))
                    /\ Len(item_path(lines[j])) = Len(item_path(lines[i])) => i <= j

(* The lines whose path is a prefix of this one, and what the first of the   *)
(* longest of them grants: what the loop looks for.                          *)
Prefixed(lines, path, remote) ==
    {i \in DOMAIN lines : /\ begins_with(path, item_path(lines[i]))
                          /\ HostsFor(lines[i], remote) # {}}
PrefixGrants(file, path, remote) ==
    LET lines == Lines(file)
        all == Prefixed(lines, path, remote)
        longest == {i \in all : \A j \in all :
                       Len(item_path(lines[j])) <= Len(item_path(lines[i]))}
    IN  IF path = NoPath \/ has_updir(path) THEN {}
        ELSE UNION {{[path |-> item_path(lines[i]), host |-> h] :
                         h \in HostsFor(lines[i], remote)} : i \in First(longest)}

(* The search has been through the first n lines and found g, on a path of   *)
(* that length.                                                              *)
SearchedTo(lines, n, path, remote, g, len) ==
    LET S == {i \in Prefixed(lines, path, remote) : i <= n}
    IN  IF S = {} THEN len = 0 /\ NothingFound(g)
        ELSE \E i \in S : /\ Longest(lines, S, i)
                          /\ len = Len(item_path(lines[i]))
                          /\ \E host \in HostsFor(lines[i], remote) : g = FoundOf(item_path(lines[i]), host)

Searching ==
    exports_access =>
        /\ cursor = [pos |-> cursor.pos, len |-> cursor.len]
        /\ cursor.pos \in 1..(Len(export_list) + 1)
        /\ SearchPath # NoPath /\ ~has_updir(SearchPath)
        /\ SearchedTo(Lines(searched), cursor.pos - 1, SearchPath, cur.remote, Globals, cursor.len)

(* Who the process is, and whom it squashes to.                              *)
Switches == setup.uid = ROOT /\ ~setup.opt_singleuser
Identity ==
    /\ can_switch \in BOOLEAN
    /\ can_switch => squash = NobodyIds
    /\ ~can_switch => squash = ServerIds /\ ~Switches
    /\ AtWork => can_switch = Switches
    /\ effective = [uid |-> effective.uid, gid |-> effective.gid, groups |-> effective.groups]
    /\ ~Switches => /\ effective.uid = setup.uid /\ effective.groups = {}
                    /\ setup.uid # ROOT => effective.gid = setup.gid

(* Until ACCESS looks at the file, the globals and the process are as PREP   *)
(* left them.                                                                *)
BeforeAccess ==
    cur.op = "ACCESS" /\ pc \in {"translate", "access"} /\ Switches =>
                    /\ effective.uid = get_uid(cur.cred) /\ effective.gid = get_gid(cur.cred)
                    /\ cur.cred.flavor = "AUTH_UNIX" => effective.groups = switch_groups(cur.cred)

(* A search that has ended has found what the longest prefix grants.         *)
Matches(file, path, remote, g) ==
    LET grants == PrefixGrants(file, path, remote) IN
    IF grants = {} THEN NothingFound(g)
    ELSE \A grant \in grants : g = FoundOf(grant.path, grant.host)
Found == pc \in Checking => Matches(searched, SearchPath, cur.remote, Globals)

Inv ==
    /\ Listed /\ Flow /\ Searching /\ Identity /\ BeforeAccess
    /\ Found /\ ActsAsCaller /\ OldPasswordRefused /\ AccessClass

----------------------------------------------------------------------------
(* Hosts, items and lists *)

LEMMA SeqLength ==
  ASSUME NEW s, IsSeq(s)
  PROVE  Len(s) \in Nat /\ DOMAIN s = 1..Len(s) /\ (s = <<>> <=> Len(s) = 0)
<1>1. s \in Seq({s[i] : i \in DOMAIN s})
  BY DEF IsSeq
<1> QED
  BY <1>1, LenProperties, EmptySeq

(* The code's test of an address is the meaning of the host's name.          *)
LEMMA HostMatch ==
  ASSUME NEW remote, remote \subseteq AllOnes, NEW spec, IsName(spec.name)
  PROVE  host_matches(remote, add_host(spec)) <=> Concerns(spec.name, remote)
<1> DEFINE name == spec.name
           mask == host_mask(name)
<1>1. host_matches(remote, add_host(spec)) <=> remote \cap mask = name.addr
  BY DEF host_matches, add_host
<1>2. /\ name.kind \in {"anon", "ID", "IP", "NET", "OLDNET"} /\ name.addr \subseteq AllOnes
      /\ name.kind = "anon" => name.addr = {}
      /\ name.kind = "NET" => name.bits \in Nat
      /\ name.kind = "OLDNET" => name.mask \subseteq AllOnes
  BY DEF IsName
<1>3. remote \cap mask = name.addr <=> name.addr \subseteq mask /\ \A i \in mask : i \in remote <=> i \in name.addr
  OBVIOUS
<1>4. CASE name.kind = "anon"
  <2>1. mask = {} /\ Concerns(name, remote)
    BY <1>4 DEF host_mask, Concerns
  <2> QED
    BY <1>1, <1>2, <1>4, <2>1
<1>5. CASE name.kind \in {"ID", "IP"}
  <2>1. mask = AllOnes /\ (Concerns(name, remote) <=> remote = name.addr)
    BY <1>5 DEF host_mask, Concerns
  <2> QED
    BY <1>1, <2>1
<1>6. CASE name.kind = "NET"
  <2>1. mask = {i \in AllOnes : i <= name.bits}
    BY <1>6 DEF host_mask, make_netmask
  <2>2. Concerns(name, remote) <=> /\ \A i \in 1..name.bits : i \in remote <=> i \in name.addr
                                   /\ name.addr \subseteq 1..name.bits
    BY <1>6 DEF Concerns
  <2>3. AddrBits \in Nat /\ name.bits \in Nat /\ AllOnes = 1..AddrBits
    BY <1>2, <1>6, ExportsAssumption DEF AllOnes
  <2>4. \A i : i \in mask <=> i \in 1..name.bits /\ i \in AllOnes
    BY <2>1, <2>3
  <2> HIDE DEF mask, name
  <2>5. name.addr \subseteq mask <=> name.addr \subseteq 1..name.bits
    BY <1>2, <2>4
  <2>6. (\A i \in mask : i \in remote <=> i \in name.addr)
          <=> (\A i \in 1..name.bits : i \in remote <=> i \in name.addr)
    BY <1>2, <2>4
  <2>7. host_matches(remote, add_host(spec)) <=> Concerns(name, remote)
    BY <1>1, <1>3, <2>2, <2>5, <2>6
  <2> QED
    BY <2>7 DEF name
<1>7. CASE name.kind = "OLDNET"
  <2>1. mask = name.mask
    BY <1>7 DEF host_mask
  <2>2. Concerns(name, remote) <=> /\ \A i \in name.mask : i \in remote <=> i \in name.addr
                                   /\ name.addr \subseteq name.mask
    BY <1>7 DEF Concerns
  <2> QED
    BY <1>1, <1>3, <2>1, <2>2
<1> QED
  BY <1>2, <1>4, <1>5, <1>6, <1>7

(* find_host finds the first host the line has for the client.               *)
LEMMA FindHost ==
  ASSUME NEW remote \in Remotes, NEW line, IsLine(line)
  PROVE  HostsFor(line, remote) = {add_item(line).hosts[i] : i \in find_host(remote, add_item(line))}
<1> DEFINE hosts == add_item(line).hosts
<1>1. remote \subseteq AllOnes
  BY RequestsAssumption
<1>2. find_host(remote, add_item(line)) =
        {i \in DOMAIN hosts : /\ host_matches(remote, hosts[i])
                              /\ \A j \in 1..(i - 1) : ~host_matches(remote, hosts[j])}
  BY DEF find_host
<1>3. CASE line.hosts = <<>>
  <2>1. hosts = <<AnonHost>> /\ HostsFor(line, remote) = {AnonHost}
    BY <1>3 DEF add_item, HostsFor
  <2>2. DOMAIN hosts = {1} /\ hosts[1] = AnonHost
    BY <2>1
  <2>3. host_matches(remote, AnonHost)
    BY DEF host_matches, AnonHost
  <2> HIDE DEF hosts
  <2>4. {i \in DOMAIN hosts : /\ host_matches(remote, hosts[i])
                              /\ \A j \in 1..(i - 1) : ~host_matches(remote, hosts[j])} = {1}
    BY <2>2, <2>3
  <2>5. {hosts[i] : i \in {1}} = {AnonHost}
    BY <2>2
  <2> QED
    BY <1>2, <2>1, <2>4, <2>5 DEF hosts
<1>4. CASE line.hosts # <<>>
  <2> DEFINE S == {k \in DOMAIN line.hosts : Concerns(line.hosts[k].name, remote)}
             n == Len(line.hosts)
  <2>1. hosts = [i \in DOMAIN line.hosts |-> add_host(line.hosts[i])]
    BY <1>4 DEF add_item
  <2>2. HostsFor(line, remote) = {add_host(line.hosts[i]) : i \in First(S)}
    BY <1>4 DEF HostsFor
  <2>3. DOMAIN line.hosts = 1..n /\ n \in Nat
    BY SeqLength DEF IsLine
  <2>4. \A i \in 1..n : hosts[i] = add_host(line.hosts[i])
    BY <2>1, <2>3
  <2>5. \A i \in 1..n : host_matches(remote, hosts[i]) <=> i \in S
    BY <1>1, <2>3, <2>4, HostMatch DEF IsLine
  <2>6. DOMAIN hosts = 1..n /\ S \subseteq 1..n
    BY <2>1, <2>3
  <2> HIDE DEF hosts, S, n
  <2>7. First(S) = {i \in DOMAIN hosts : /\ host_matches(remote, hosts[i])
                                         /\ \A j \in 1..(i - 1) : ~host_matches(remote, hosts[j])}
    <3>1. ASSUME NEW i \in 1..n
          PROVE  i \in First(S) <=> i \in S /\ \A j \in 1..(i - 1) : j \notin S
      BY <2>3, <2>6 DEF First
    <3>2. ASSUME NEW i \in 1..n
          PROVE  (\A j \in 1..(i - 1) : j \notin S) <=> (\A j \in 1..(i - 1) : ~host_matches(remote, hosts[j]))
      BY <2>3, <2>5
    <3>3. First(S) \subseteq 1..n
      BY <2>6 DEF First
    <3> QED
      BY <2>5, <2>6, <3>1, <3>2, <3>3
  <2>8. \A i \in First(S) : hosts[i] = add_host(line.hosts[i])
    BY <2>4, <2>6 DEF First
  <2> QED
    BY <1>2, <2>2, <2>7, <2>8 DEF hosts
<1> QED
  BY <1>3, <1>4

LEMMA OneHost ==
  ASSUME NEW remote \in Remotes, NEW line, IsLine(line), NEW g \in HostsFor(line, remote), NEW h \in HostsFor(line, remote)
  PROVE  g = h
<1>1. CASE line.hosts = <<>>
  BY <1>1 DEF HostsFor
<1>2. CASE line.hosts # <<>>
  <2> DEFINE S == {k \in DOMAIN line.hosts : Concerns(line.hosts[k].name, remote)}
  <2>1. HostsFor(line, remote) = {add_host(line.hosts[i]) : i \in First(S)}
    BY <1>2 DEF HostsFor
  <2>2. S \subseteq Nat
    BY SeqLength DEF IsLine
  <2> HIDE DEF S
  <2>3. \A i, j \in First(S) : i = j
    BY <2>2 DEF First
  <2> QED
    BY <2>1, <2>3
<1> QED
  BY <1>1, <1>2

(* The list that is searched, item by item.                                  *)
LEMMA ListOf ==
  ASSUME NEW file, Sound(file)
  PROVE  LET lines == Lines(file) IN
         /\ Len(lines) \in Nat /\ DOMAIN lines = 1..Len(lines)
         /\ Len(parsed(file)) = Len(lines) /\ DOMAIN parsed(file) = 1..Len(lines)
         /\ \A i \in 1..Len(lines) : /\ parsed(file)[i] = add_item(lines[i])
                                     /\ IsLine(lines[i]) /\ ~e_error(lines[i])
                                     /\ Len(item_path(lines[i])) \in Nat \ {0}
<1> DEFINE lines == Lines(file)
           n == Len(lines)
           list == parsed(file)
<1>1. good_lines(file) = lines
  BY DEF good_lines, Lines, parses
<1>2. /\ lines = <<>> \/ (lines = file.lines /\ \A i \in DOMAIN file.lines : ~e_error(file.lines[i]))
  BY DEF Lines
<1>3. n \in Nat /\ DOMAIN lines = 1..n
  <2>1. CASE lines = <<>>
    BY <2>1
  <2>2. CASE lines = file.lines
    BY <2>2, SeqLength DEF Sound
  <2> QED
    BY <1>2, <2>1, <2>2
<1>4. \A i \in 1..n : IsLine(lines[i]) /\ ~e_error(lines[i])
  <2>1. CASE lines = <<>>
    BY <2>1
  <2>2. CASE lines = file.lines /\ \A i \in DOMAIN file.lines : ~e_error(file.lines[i])
    BY <1>3, <2>2 DEF Sound
  <2> QED
    BY <1>2, <2>1, <2>2
<1>5. list = [i \in DOMAIN lines |-> add_item(lines[i])]
  BY <1>1 DEF parsed
<1> HIDE DEF lines, list
<1>6. Len(list) = n /\ DOMAIN list = 1..n
  <2> DEFINE T == {add_item(lines[i]) : i \in 1..n}
  <2>1. list \in [1..n -> T]
    BY <1>3, <1>5
  <2>2. list \in Seq(T)
    BY <1>3, <2>1
  <2>3. DOMAIN list = 1..Len(list) /\ Len(list) \in Nat
    BY <2>2, LenProperties
  <2>4. DOMAIN list = 1..n
    BY <2>1
  <2> HIDE DEF n
  <2>5. ASSUME NEW m \in Nat, NEW k \in Nat, 1..m = 1..k PROVE m = k
    <3>1. m > 0 => m \in 1..k
      BY <2>5
    <3>2. k > 0 => k \in 1..m
      BY <2>5
    <3> QED
      BY <3>1, <3>2
  <2>6. Len(list) = n
    BY <1>3, <2>3, <2>4, <2>5
  <2> QED
    BY <2>4, <2>6
<1>7. \A i \in 1..n : list[i] = add_item(lines[i])
  BY <1>3, <1>5
<1>8. \A i \in 1..n : Len(item_path(lines[i])) \in Nat \ {0}
  <2> SUFFICES ASSUME NEW i \in 1..n PROVE Len(item_path(lines[i])) \in Nat \ {0}
    OBVIOUS
  <2>1. IsSeq(item_path(lines[i])) /\ item_path(lines[i]) # <<>>
    BY <1>4 DEF IsLine
  <2> QED
    BY <2>1, SeqLength
<1> QED
  BY <1>3, <1>4, <1>6, <1>7, <1>8 DEF lines, list

----------------------------------------------------------------------------
(* The search *)

LEMMA ItemMatches ==
  ASSUME NEW remote \in Remotes, NEW line, IsLine(line)
  PROVE  LET item == add_item(line) IN
         /\ item.path = item_path(line)
         /\ find_host(remote, item) # {} <=> HostsFor(line, remote) # {}
<1>1. HostsFor(line, remote) = {add_item(line).hosts[i] : i \in find_host(remote, add_item(line))}
  BY FindHost
<1>2. add_item(line).path = item_path(line)
  BY DEF add_item
<1> QED
  BY <1>1, <1>2

(* A round of the loop takes one more line into account.                     *)
LEMMA Round ==
  ASSUME NEW file, Sound(file), NEW path, NEW remote \in Remotes,
         NEW pos \in 1..Len(Lines(file)), NEW g, NEW len, NEW g1, NEW len1,
         SearchedTo(Lines(file), pos - 1, path, remote, g, len),
         NEW item, item = add_item(Lines(file)[pos]),
         IF Len(item.path) > len /\ begins_with(path, item.path) /\ find_host(remote, item) # {}
         THEN \E k \in find_host(remote, item) : g1 = FoundOf(item.path, item.hosts[k]) /\ len1 = Len(item.path)
         ELSE g1 = g /\ len1 = len
  PROVE  SearchedTo(Lines(file), pos, path, remote, g1, len1)
<1> DEFINE lines == Lines(file)
           n == Len(lines)
           M == Prefixed(lines, path, remote)
           S0 == {i \in M : i <= pos - 1}
           S1 == {i \in M : i <= pos}
           L(i) == Len(item_path(lines[i]))
           Is(S, h, l) == \E i \in S : /\ Longest(lines, S, i) /\ l = L(i)
                                      /\ \E host \in HostsFor(lines[i], remote) : h = FoundOf(item_path(lines[i]), host)
<1>1. /\ n \in Nat /\ DOMAIN lines = 1..n /\ pos \in 1..n
      /\ \A i \in 1..n : IsLine(lines[i]) /\ L(i) \in Nat \ {0}
  BY ListOf
<1>2. item.path = item_path(lines[pos]) /\ (find_host(remote, item) # {} <=> HostsFor(lines[pos], remote) # {})
  BY <1>1, ItemMatches
<1>3. M \subseteq 1..n /\ (pos \in M <=> begins_with(path, item.path) /\ find_host(remote, item) # {})
  BY <1>1, <1>2 DEF Prefixed
<1>4. (S0 = {} /\ len = 0 /\ NothingFound(g)) \/ (S0 # {} /\ Is(S0, g, len))
  BY DEF SearchedTo
<1>5. (S1 = {} /\ len1 = 0 /\ NothingFound(g1)) \/ (S1 # {} /\ Is(S1, g1, len1))
      => SearchedTo(Lines(file), pos, path, remote, g1, len1)
  BY DEF SearchedTo
<1>6. \A i \in M : i \in 1..n /\ i \in Nat /\ L(i) \in Nat \ {0}
  BY <1>1, <1>3
<1>7. L(pos) \in Nat \ {0}
  BY <1>1
<1>8. \A j \in S1 : j \in S0 \/ (j = pos /\ pos \in M)
  BY <1>1, <1>6
<1>9. S0 \subseteq S1 /\ (pos \in M => pos \in S1)
  BY <1>1, <1>6
<1>10. CASE Len(item.path) > len /\ begins_with(path, item.path) /\ find_host(remote, item) # {}
  <2>1. PICK k \in find_host(remote, item) : g1 = FoundOf(item.path, item.hosts[k]) /\ len1 = Len(item.path)
    BY <1>10
  <2>2. item.hosts[k] \in HostsFor(lines[pos], remote)
    BY <1>1, FindHost
  <2>3. pos \in S1 /\ L(pos) > len /\ len1 = L(pos)
    BY <1>2, <1>3, <1>9, <1>10, <2>1
  <2>4. ASSUME NEW j \in S0 PROVE L(j) < L(pos)
    <3>1. PICK i \in S0 : Longest(lines, S0, i) /\ len = L(i)
      BY <1>4
    <3>2. L(j) <= L(i)
      BY <3>1 DEF Longest
    <3>3. L(i) \in Nat /\ L(j) \in Nat /\ L(pos) \in Nat /\ L(i) < L(pos)
      BY <1>6, <1>7, <2>3, <3>1
    <3> HIDE DEF L
    <3> QED
      BY <3>2, <3>3
  <2>5. \A j \in S1 : j = pos \/ (L(j) < L(pos) /\ L(j) \in Nat)
    BY <1>6, <1>8, <2>4
  <2>6. Longest(lines, S1, pos)
    BY <1>7, <2>3, <2>5 DEF Longest
  <2>7. \E host \in HostsFor(lines[pos], remote) : g1 = FoundOf(item_path(lines[pos]), host)
    BY <1>2, <2>1, <2>2
  <2>8. Is(S1, g1, len1)
    BY <2>3, <2>6, <2>7
  <2> QED
    BY <1>5, <2>3, <2>8
<1>11. CASE ~(Len(item.path) > len /\ begins_with(path, item.path) /\ find_host(remote, item) # {})
  <2>1. g1 = g /\ len1 = len
    BY <1>11
  <2>2. len \in Nat
    <3>1. CASE Is(S0, g, len)
      BY <1>6, <3>1
    <3> QED
      BY <1>4, <3>1
  <2>3. pos \in M => L(pos) <= len
    BY <1>2, <1>3, <1>7, <1>11, <2>2
  <2>4. CASE S0 = {} /\ len = 0 /\ NothingFound(g)
    <3>1. pos \notin M
      BY <1>7, <2>3, <2>4
    <3>2. S1 = {}
      BY <1>8, <2>4, <3>1
    <3> QED
      BY <1>5, <2>1, <2>4, <3>2
  <2>5. CASE Is(S0, g, len)
    <3>1. PICK i \in S0 : /\ Longest(lines, S0, i) /\ len = L(i)
                          /\ \E host \in HostsFor(lines[i], remote) : g = FoundOf(item_path(lines[i]), host)
      BY <2>5
    <3>2. i <= pos /\ i \in Nat /\ L(i) \in Nat
      BY <1>1, <1>6
    <3>3. ASSUME NEW j \in S1 PROVE L(j) <= L(i) /\ (L(j) = L(i) => i <= j)
      <4>1. CASE j \in S0
        BY <3>1, <4>1 DEF Longest
      <4>2. CASE j = pos /\ pos \in M
        BY <2>3, <3>1, <3>2, <4>2
      <4> QED
        BY <1>8, <4>1, <4>2
    <3>4. i \in S1 /\ Longest(lines, S1, i)
      BY <1>9, <3>3 DEF Longest
    <3>5. Is(S1, g1, len1)
      BY <2>1, <3>1, <3>4
    <3> QED
      BY <1>5, <3>4, <3>5
  <2> QED
    BY <1>4, <2>4, <2>5
<1> QED
  BY <1>10, <1>11

(* A search begins with no line seen.                                        *)
LEMMA Start ==
  ASSUME NEW file, Sound(file), NEW path, NEW remote, NEW g, NothingFound(g)
  PROVE  SearchedTo(Lines(file), 0, path, remote, g, 0)
<1>1. Prefixed(Lines(file), path, remote) \subseteq 1..Len(Lines(file)) /\ Len(Lines(file)) \in Nat
  BY ListOf DEF Prefixed
<1>2. {i \in Prefixed(Lines(file), path, remote) : i <= 0} = {}
  BY <1>1
<1> QED
  BY <1>2 DEF SearchedTo

LEMMA GrantsAre ==
  ASSUME NEW file, NEW path, NEW remote \in Remotes
  PROVE  GrantsFor(file, path, remote) = IF path = NoPath THEN {} ELSE Grants(file, path, remote)
<1>1. ASSUME file \in ExportFiles, path \in MountPaths
      PROVE  GrantTable[file][path][remote] = Grants(file, path, remote)
  BY <1>1 DEF GrantTable
<1> QED
  BY <1>1 DEF GrantsFor

(* Where no exported directory is a prefix of the path without the path      *)
(* being in it, the longest prefix is the innermost directory.               *)
LEMMA ApartGrants ==
  ASSUME NEW file, NEW path, NEW remote \in Remotes, IsApart(file, path)
  PROVE  GrantsFor(file, path, remote) = PrefixGrants(file, path, remote)
<1>1. CASE path = NoPath
  BY <1>1, GrantsAre DEF PrefixGrants
<1>2. CASE path # NoPath
  <2>1. Apart(file, path)
    <3>1. ASSUME file \in ExportFiles, path \in MountPaths
          PROVE  ApartTable[file][path] = Apart(file, path)
      BY <3>1 DEF ApartTable
    <3> QED
      BY <1>2, <3>1 DEF IsApart
  <2> DEFINE lines == Lines(file)
  <2>2. \A i \in DOMAIN lines : begins_with(path, item_path(lines[i])) <=> within(path, item_path(lines[i]))
    BY <2>1 DEF Apart, within
  <2>3. Matching(lines, path, remote) = Prefixed(lines, path, remote)
    <3> HIDE DEF lines
    <3> QED
      BY <2>2 DEF Matching, Prefixed
  <2>4. GrantsFor(file, path, remote) = Grants(file, path, remote)
    BY <1>2, GrantsAre
  <2> QED
    BY <1>2, <2>3, <2>4 DEF Grants, PrefixGrants
<1> QED
  BY <1>1, <1>2

(* At the end it has found what the file grants.                             *)
LEMMA End ==
  ASSUME NEW file, Sound(file), NEW path, path # NoPath, ~has_updir(path), NEW remote \in Remotes,
         NEW n, n = Len(Lines(file)), NEW g, NEW len, SearchedTo(Lines(file), n, path, remote, g, len)
  PROVE  Matches(file, path, remote, g)
<1> DEFINE lines == Lines(file)
           M == Prefixed(lines, path, remote)
           L(i) == Len(item_path(lines[i]))
           longest == {i \in M : \A j \in M : L(j) <= L(i)}
           grants == UNION {{[path |-> item_path(lines[i]), host |-> h] :
                                h \in HostsFor(lines[i], remote)} : i \in First(longest)}
<1>1. PrefixGrants(file, path, remote) = grants
  BY DEF PrefixGrants
<1>2. /\ n \in Nat /\ DOMAIN lines = 1..n
      /\ \A i \in 1..n : IsLine(lines[i]) /\ L(i) \in Nat \ {0}
  BY ListOf
<1>3. M \subseteq 1..n /\ \A i \in M : HostsFor(lines[i], remote) # {}
  BY <1>2 DEF Prefixed
<1>4. {i \in M : i <= n} = M
  BY <1>2, <1>3
<1>5. CASE M = {}
  <2>1. NothingFound(g)
    BY <1>4, <1>5 DEF SearchedTo
  <2>2. longest = {}
    BY <1>5
  <2>3. First(longest) = {}
    BY <2>2 DEF First
  <2>4. grants = {}
    BY <2>3
  <2> QED
    BY <1>1, <2>1, <2>4 DEF Matches
<1>6. CASE M # {}
  <2>1. PICK i \in M : /\ Longest(lines, M, i)
                       /\ \E host \in HostsFor(lines[i], remote) : g = FoundOf(item_path(lines[i]), host)
    BY <1>4, <1>6 DEF SearchedTo
  <2>2. PICK host \in HostsFor(lines[i], remote) : g = FoundOf(item_path(lines[i]), host)
    BY <2>1
  <2>3. \A j \in M : L(j) <= L(i) /\ (L(j) = L(i) => i <= j) /\ L(j) \in Nat /\ j \in Nat
    BY <1>2, <1>3, <2>1 DEF Longest
  <2>4. i \in longest /\ \A j \in longest : j \in M /\ L(j) = L(i)
    BY <2>3
  <2>5. First(longest) = {i}
    <3> HIDE DEF longest, M, L
    <3> QED
      BY <2>3, <2>4 DEF First
  <2>6. grants = {[path |-> item_path(lines[i]), host |-> h] : h \in HostsFor(lines[i], remote)}
    BY <2>5
  <2>7. \A h \in HostsFor(lines[i], remote) : h = host
    BY <1>2, <1>3, OneHost
  <2> DEFINE p == item_path(lines[i])
             H == HostsFor(lines[i], remote)
  <2>8. grants = {[path |-> p, host |-> h] : h \in H} /\ \A h \in H : h = host
    BY <2>6, <2>7
  <2>9. host \in H /\ g = FoundOf(p, host)
    BY <2>2
  <2> HIDE DEF grants, p, H
  <2>10. grants = {[path |-> p, host |-> host]}
    BY <2>8, <2>9
  <2>11. \A grant \in grants : grant.path = p /\ grant.host = host
    BY <2>10
  <2> QED
    BY <1>1, <2>9, <2>10, <2>11 DEF Matches
<1> QED
  BY <1>5, <1>6

LEMMA Unfound ==
  ASSUME NEW file, NEW path, path = NoPath \/ has_updir(path), NEW remote \in Remotes, NEW g, NothingFound(g)
  PROVE  Matches(file, path, remote, g)
<1>1. PrefixGrants(file, path, remote) = {}
  BY DEF PrefixGrants
<1> QED
  BY <1>1 DEF Matches

(* The same, spelled out as OptionsMatch does.                               *)
LEMMA MatchesIs ==
  ASSUME NEW file, NEW path, NEW remote, NEW opts, NEW at, NEW hash, NEW uid, NEW gid
  PROVE  Matches(file, path, remote, [options |-> opts, path |-> at, hash |-> hash, uid |-> uid, gid |-> gid]) <=>
           LET grants == PrefixGrants(file, path, remote) IN
           IF grants = {} THEN opts = NotExported /\ at = NoPath
           ELSE \A g \in grants :
                   /\ opts = g.host.options
                   /\ at = g.path
                   /\ hash = g.host.password_hash
                   /\ <<uid, gid>> = <<g.host.anonuid, g.host.anongid>>
<1> DEFINE glob == [options |-> opts, path |-> at, hash |-> hash, uid |-> uid, gid |-> gid]
<1>1. NothingFound(glob) <=> opts = NotExported /\ at = NoPath
  BY DEF NothingFound
<1>2. ASSUME NEW p, NEW h
      PROVE  glob = FoundOf(p, h) <=> /\ opts = h.options /\ at = p
                                      /\ hash = h.password_hash
                                      /\ <<uid, gid>> = <<h.anonuid, h.anongid>>
  BY DEF FoundOf
<1> HIDE DEF glob
<1>3. Matches(file, path, remote, glob) <=>
           LET grants == PrefixGrants(file, path, remote) IN
           IF grants = {} THEN opts = NotExported /\ at = NoPath
           ELSE \A g \in grants :
                   /\ opts = g.host.options
                   /\ at = g.path
                   /\ hash = g.host.password_hash
                   /\ <<uid, gid>> = <<g.host.anonuid, g.host.anongid>>
  BY <1>1, <1>2 DEF Matches
<1> QED
  BY <1>3 DEF glob

----------------------------------------------------------------------------
(* The list, read and searched *)

LEMMA SeenSound ==
  ASSUME efile \in ExportFiles, NEW e
  PROVE  Sound(AsSeenBy(e))
<1> DEFINE f == AsSeenBy(e)
<1>1. efile \in [readable : BOOLEAN, public : BOOLEAN, lines : {efile.lines}]
  BY ExportFilesAssumption
<1>2. f.readable = (efile.readable /\ (efile.public \/ e.uid = ROOT)) /\ f.lines = efile.lines
  BY <1>1 DEF AsSeenBy
<1>3. IsSeq(efile.lines) /\ \A i \in DOMAIN efile.lines : IsLine(efile.lines[i])
  BY ExportFilesAssumption
<1> HIDE DEF f
<1>4. f.readable \in BOOLEAN
  BY <1>1, <1>2, Zenon
<1> QED
  BY <1>2, <1>3, <1>4 DEF Sound, f

(* Where a search begins.                                                    *)
LEMMA BeginLists ==
  ASSUME Listed, NEW path, NEW walk \in Walking, NEW check \in Checking, BeginSearch(path, walk, check)
  PROVE  /\ exports_access' \in BOOLEAN /\ (exports_access' <=> pc' \in Walking)
         /\ exports_access' => cursor' = [pos |-> 1, len |-> 0] /\ path # NoPath /\ ~has_updir(path)
         /\ ~exports_access' => path = NoPath \/ has_updir(path)
         /\ pc' \in {walk, check} /\ (pc' = walk <=> exports_access')
         /\ searched' = loaded /\ UNCHANGED <<efile, export_list, held>>
         /\ export_path' = [path |-> NoPath, live |-> TRUE]
         /\ NothingFound(Globals')
<1>1. walk \notin Checking /\ check \notin Walking /\ walk # check
  BY DEF Walking, Checking
<1>2. /\ exports_options_begin(path) /\ pc' = (IF exports_access' THEN walk ELSE check) /\ searched' = loaded
  BY DEF BeginSearch, Goto
<1>3. /\ export_path' = [path |-> NoPath, live |-> TRUE]
      /\ exports_opts' = NotExported /\ UNCHANGED <<efile, export_list, held>>
      /\ IF path = NoPath \/ has_updir(path) THEN exports_access' = FALSE
         ELSE exports_access' = TRUE /\ cursor' = [pos |-> 1, len |-> 0]
  BY <1>2 DEF exports_options_begin, listVars
<1>4. NothingFound(Globals')
  BY <1>3 DEF NothingFound, Globals
<1> QED
  BY <1>1, <1>2, <1>3, <1>4

LEMMA WalkedTo ==
  /\ DOMAIN Walked = Walking
  /\ Walked["auth_walk"] = "auth_check" /\ Walked["walk"] = "check" /\ Walked["compat_walk"] = "compat_check"
  /\ \A p \in Walking : Walked[p] \in Checking
BY DEF Walked, Walking, Checking

LEMMA ListedStep ==
  ASSUME Listed, Flow, Searching, [Next]_vars
  PROVE  Listed'
<1> USE DEF Listed
<1>1. ASSUME NEW path, NEW walk \in Walking, NEW check \in Checking, BeginSearch(path, walk, check), loaded' = loaded
      PROVE  Listed'
  <2>1. /\ exports_access' \in BOOLEAN /\ (exports_access' <=> pc' \in Walking)
        /\ exports_access' => cursor' = [pos |-> 1, len |-> 0]
        /\ searched' = loaded /\ UNCHANGED <<efile, export_list, held>>
        /\ export_path' = [path |-> NoPath, live |-> TRUE]
    BY <1>1, BeginLists
  <2> QED
    BY <1>1, <2>1
<1>2. ASSUME UNCHANGED <<exportVars, loaded, searched>>, pc \notin Walking, pc' \notin Walking
      PROVE  Listed'
  BY <1>2 DEF exportVars, listVars, foundVars
<1> DEFINE Rest == Places \ Walking
<1>3. {"idle", "prep", "rename", "compat", "translate", "elevate", "transfer", "access", "reply", "dead", "check",
       "compat_check", "auth_check"} \subseteq Rest
  BY DEF Places, Walking, Checking
<1> HIDE DEF Rest
<1>4. \A p \in Rest : p \notin Walking
  BY DEF Rest
<1>0. ASSUME UNCHANGED <<efile, export_list, exports_access, export_path, loaded, searched>>,
             held' \in {"own", "list", "freed"}, pc \in Rest, pc' \in Rest
      PROVE  Listed'
  BY <1>0, <1>4
<1>5. CASE ArriveNfs
  <2>1. held' \in {"own", "list", "freed"}
    BY <1>5 DEF ArriveNfs, Kept
  <2>2. pc \in Rest /\ pc' \in Rest
    BY <1>3, <1>5 DEF ArriveNfs, Goto
  <2> QED
    BY <1>0, <1>5, <2>1, <2>2 DEF ArriveNfs, listVars, foundVars, histVars
<1>25. CASE PrepSearch
  BY <1>1, <1>25 DEF PrepSearch, Walking, Checking
<1>26. CASE Crash
  <2>1. pc \in Rest /\ pc' \in Rest
    BY <1>3, <1>26 DEF Crash, Goto
  <2> QED
    BY <1>2, <1>4, <1>26, <2>1 DEF Crash, histVars
<1>6. CASE ArriveMnt
  BY <1>1, <1>6 DEF ArriveMnt, Walking, Checking
<1>7. CASE SearchStep
  <2>1. exports_access /\ UNCHANGED <<efile, export_list, exports_access, pc, loaded, searched, held>>
    BY <1>7 DEF SearchStep, exports_options_step, listVars, requestVars, histVars
  <2>2. \/ cursor' = [cursor EXCEPT !.pos = @ + 1] /\ export_path' = export_path
        \/ \E p, l : cursor' = [cursor EXCEPT !.pos = @ + 1, !.len = l] /\ export_path' = [path |-> p, live |-> TRUE]
    BY <1>7 DEF SearchStep, exports_options_step, foundVars
  <2>4. (export_path = [path |-> export_path.path, live |-> export_path.live])'
    BY <2>2
  <2> QED
    BY <2>1, <2>4
<1>8. CASE SearchEnd
  <2>1. pc \in Walking /\ pc' \in Checking
    BY <1>8, WalkedTo DEF SearchEnd, Goto
  <2>2. pc' \notin Walking
    BY <2>1 DEF Walking, Checking
  <2> QED
    BY <1>8, <2>2 DEF SearchEnd, exports_options_end, histVars, listVars, foundVars
<1>9. CASE MntAuth
  BY <1>1, <1>9 DEF MntAuth, Walking, Checking
<1>10. CASE MntCheck
  <2>1. pc \in Rest /\ pc' \in Rest
    BY <1>3, <1>10 DEF MntCheck, Reply, Goto
  <2> QED
    BY <1>2, <1>4, <1>10, <2>1 DEF MntCheck, histVars
<1>11. CASE PrepRefuses
  <2>1. pc \in Rest /\ pc' \in Rest
    BY <1>3, <1>11 DEF PrepRefuses, Reply
  <2> QED
    BY <1>2, <1>4, <1>11, <2>1 DEF PrepRefuses, histVars
<1>12. CASE PrepAdmits
  <2>1. pc \in Rest /\ pc' \in Rest
    BY <1>3, <1>12 DEF PrepAdmits, Goto
  <2> QED
    BY <1>2, <1>4, <1>12, <2>1 DEF PrepAdmits
<1>13. CASE SwitchFails
  <2>1. pc \in Rest /\ pc' \in Rest
    BY <1>3, <1>13 DEF SwitchFails, Goto
  <2> QED
    BY <1>2, <1>4, <1>13, <2>1 DEF SwitchFails, histVars
<1>14. CASE RenameCompat
  BY <1>1, <1>14 DEF RenameCompat, Walking, Checking
<1>27. CASE RenameDecomp
  <2>1. held' \in {"own", "list", "freed"}
    BY <1>27 DEF RenameDecomp, Kept
  <2>2. pc \in Rest /\ pc' \in Rest
    BY <1>3, <1>27 DEF RenameDecomp, Goto, Reply
  <2> QED
    BY <1>0, <1>27, <2>1, <2>2 DEF RenameDecomp, listVars, foundVars, histVars
<1>15. CASE RenameChecked
  <2>1. pc \in Rest /\ pc' \in Rest
    BY <1>3, <1>15 DEF RenameChecked, Goto
  <2> QED
    BY <1>2, <1>4, <1>15, <2>1 DEF RenameChecked, histVars
<1>16. CASE Translate
  <2>1. pc \in Rest /\ pc' \in Rest
    BY <1>3, <1>16 DEF Translate, Reply, Goto
  <2> QED
    BY <1>2, <1>4, <1>16, <2>1 DEF Translate, histVars
<1>17. CASE Elevate
  <2>1. pc \in Rest /\ pc' \in Rest
    BY <1>3, <1>17 DEF Elevate, Goto
  <2> QED
    BY <1>2, <1>4, <1>17, <2>1 DEF Elevate, histVars
<1>18. CASE Transfer
  <2>1. pc \in Rest /\ pc' \in Rest
    BY <1>3, <1>18 DEF Transfer, Reply
  <2> QED
    BY <1>2, <1>4, <1>18, <2>1 DEF Transfer, histVars
<1>19. CASE Access
  <2>1. pc \in Rest /\ pc' \in Rest
    BY <1>3, <1>19 DEF Access, Goto
  <2> QED
    BY <1>2, <1>4, <1>19, <2>1 DEF Access, histVars
<1>20. CASE Finish
  <2>1. pc \notin Walking /\ pc' \notin Walking
    BY <1>20 DEF Finish, Goto, Walking
  <2> QED
    BY <1>20, <2>1 DEF Finish, listVars, foundVars
<1>21. CASE SigHup
  <2>1. UNCHANGED <<efile, exports_access, pc, searched>> /\ exports_parse(AsSeenBy(effective))
        /\ loaded' = (IF exports_access THEN loaded ELSE AsSeenBy(effective))
    BY <1>21 DEF SigHup
  <2>2. Sound(AsSeenBy(effective))
    BY SeenSound
  <2>3. CASE exports_access
    BY <2>1, <2>3 DEF exports_parse, listVars
  <2>4. CASE ~exports_access
    <3>1. /\ export_list' = parsed(loaded') /\ export_path' = [export_path EXCEPT !.live = FALSE]
          /\ held' \in {"own", "list", "freed"}
      BY <2>1, <2>4 DEF exports_parse, free_list
    <3>2. (export_path = [path |-> export_path.path, live |-> export_path.live])'
      BY <3>1
    <3>3. Sound(loaded')
      BY <2>1, <2>2, <2>4
    <3> QED
      BY <2>1, <2>4, <3>1, <3>2, <3>3 DEF Sound
  <2> QED
    BY <2>3, <2>4
<1>22. CASE Edit
  BY <1>22 DEF Edit, EditExports, requestVars, histVars, listVars, foundVars
<1>23. CASE Restart
  <2>1. Sound(AsSeenBy(effective'))
    BY SeenSound
  <2>2. /\ efile' = efile /\ loaded' = AsSeenBy(effective') /\ searched' = loaded'
        /\ export_list' = parsed(loaded') /\ exports_access' = FALSE /\ pc' = "idle"
        /\ export_path' = [path |-> NoPath, live |-> TRUE] /\ held' = "own"
    BY <1>23 DEF Restart
  <2>3. Sound(loaded') /\ Sound(searched')
    BY <2>1, <2>2
  <2>4. pc' \notin Walking
    BY <2>2 DEF Walking
  <2> QED
    BY <2>2, <2>3, <2>4 DEF Sound
<1>24. CASE UNCHANGED vars
  BY <1>24 DEF vars, exportVars, listVars, foundVars, requestVars, histVars
<1> QED
  BY <1>5, <1>6, <1>7, <1>8, <1>9, <1>10, <1>11, <1>12, <1>13, <1>14, <1>15, <1>16, <1>17, <1>18, <1>19, <1>20,
     <1>21, <1>22, <1>23, <1>24, <1>25, <1>26, <1>27 DEF Next

----------------------------------------------------------------------------
(* A request and where it is *)

LEMMA IdleCall ==
  IsCall(Idle) /\ Idle.op = "NONE" /\ ~Idle.elevated /\ Idle.status = "none"
BY DEF Idle, IsCall

(* What the steps leave alone of a request.                                  *)
SameCall(c, d) ==
    /\ IsCall(d) /\ d.op = c.op /\ d.remote = c.remote /\ d.cred = c.cred
    /\ d.handle = c.handle /\ d.path = c.path

LEMMA Replied ==
  ASSUME NEW c, IsCall(c), NEW s
  PROVE  LET d == [c EXCEPT !.status = s] IN SameCall(c, d) /\ d.elevated = c.elevated /\ d.status = s
BY DEF SameCall, IsCall

LEMMA FlowStep ==
  ASSUME Flow, [Next]_vars
  PROVE  Flow'
<1> USE DEF Flow
<1>0. IsCall(cur) /\ pc \in Places
  OBVIOUS
<1>1. ASSUME SameCall(cur, cur'), cur'.elevated = cur.elevated, pc' \in {"reply", "dead"}
      PROVE  Flow'
  BY <1>1 DEF SameCall, AtWork, Places, Walking, Checking
<1>2. ASSUME NEW status, Reply(status)
      PROVE  Flow'
  BY <1>0, <1>1, <1>2, Replied DEF Reply
<1>3. SameCall(cur, cur)
  BY <1>0 DEF SameCall
<1>4. ASSUME cur' = cur, pc' \in {"reply", "dead"}
      PROVE  Flow'
  BY <1>1, <1>3, <1>4
<1>5. CASE ArriveNfs
  <2>1. PICK op \in Procedures, remote \in Remotes, cred \in Creds, h \in Handles : \E path \in fh_decomp(h) :
            /\ cur' = [Idle EXCEPT !.op = op, !.remote = remote, !.cred = cred, !.handle = h, !.path = path]
            /\ held' = Kept(h, path)
    BY <1>5, Zenon DEF ArriveNfs
  <2>2. pc' = "prep"
    BY <1>5 DEF ArriveNfs, Goto
  <2>3. PICK path : cur' = [Idle EXCEPT !.op = op, !.remote = remote, !.cred = cred, !.handle = h, !.path = path]
    BY <2>1, Zenon
  <2>4. cur'.op = op /\ cur'.remote = remote /\ cur'.cred = cred /\ cur'.elevated = FALSE
    BY <2>3 DEF Idle
  <2>5. IsCall(cur')
    BY <2>3 DEF IsCall, Idle
  <2> QED
    BY <2>2, <2>4, <2>5 DEF AtWork, Places, Walking, Checking, Procedures
<1>25. CASE PrepSearch
  <2>1. PICK path : cur' = [cur EXCEPT !.path = path] /\ BeginSearch(path, "walk", "check")
    BY <1>25 DEF PrepSearch
  <2>2. pc = "prep" /\ pc' \in {"walk", "check"}
    BY <1>25, <2>1 DEF PrepSearch, BeginSearch, Goto
  <2>3. /\ IsCall(cur') /\ cur'.op = cur.op /\ cur'.remote = cur.remote /\ cur'.cred = cur.cred
        /\ cur'.elevated = cur.elevated
    BY <1>0, <2>1 DEF IsCall
  <2> QED
    BY <2>2, <2>3 DEF AtWork, Places, Walking, Checking, Procedures
<1>6. CASE ArriveMnt
  <2>1. PICK remote \in Remotes, path \in MountPaths, given \in Passwords :
            /\ cur' = [Idle EXCEPT !.op = "MNT", !.remote = remote, !.path = path, !.given = given]
            /\ IF given = "" THEN BeginSearch(path, "walk", "check")
               ELSE BeginSearch(path, "auth_walk", "auth_check")
    BY <1>6 DEF ArriveMnt
  <2>2. pc' \in {"walk", "check", "auth_walk", "auth_check"}
    BY <2>1 DEF BeginSearch, Goto
  <2>3. cur'.op = "MNT" /\ cur'.remote = remote /\ cur'.elevated = FALSE
    BY <2>1 DEF Idle
  <2>4. IsCall(cur')
    BY <2>1 DEF IsCall, Idle
  <2> QED
    BY <2>2, <2>3, <2>4 DEF AtWork, Places, Walking, Checking, Procedures
<1>7. CASE SearchStep
  BY <1>7 DEF SearchStep, requestVars, AtWork
<1>8. CASE SearchEnd
  <2>1. cur' = cur /\ pc' = Walked[pc] /\ pc \in Walking
    BY <1>8, WalkedTo DEF SearchEnd, Goto
  <2>2. \/ pc = "auth_walk" /\ pc' = "auth_check"
        \/ pc = "walk" /\ pc' = "check"
        \/ pc = "compat_walk" /\ pc' = "compat_check"
    BY <2>1, WalkedTo DEF Walking
  <2> QED
    BY <2>1, <2>2 DEF AtWork, Places, Walking, Checking
<1>9. CASE MntAuth
  <2>1. PICK b : cur' = [cur EXCEPT !.authenticated = b]
    BY <1>9 DEF MntAuth
  <2>2. SameCall(cur, cur') /\ cur'.elevated = cur.elevated
    BY <1>0, <2>1 DEF SameCall, IsCall
  <2>3. pc = "auth_check" /\ pc' \in {"walk", "check"}
    BY <1>9 DEF MntAuth, BeginSearch, Goto
  <2> QED
    BY <2>2, <2>3 DEF SameCall, AtWork, Places, Walking, Checking
<1>10. CASE MntCheck
  <2>1. CASE \E h \in fh_comp(cur.path) : cur' = [cur EXCEPT !.handle = h, !.status = "OK"] /\ Goto("reply")
    <3>1. PICK h : cur' = [cur EXCEPT !.handle = h, !.status = "OK"]
      BY <2>1
    <3>2. IsCall(cur') /\ cur'.elevated = cur.elevated /\ pc' = "reply"
      BY <1>0, <2>1, <3>1 DEF IsCall, Goto
    <3> QED
      BY <3>2 DEF AtWork, Places, Walking, Checking
  <2>2. CASE Reply("ACCES")
    BY <1>2, <2>2
  <2> QED
    BY <1>10, <2>1, <2>2 DEF MntCheck
<1>11. CASE PrepRefuses
  BY <1>2, <1>11 DEF PrepRefuses
<1>12. CASE PrepAdmits
  <2>1. cur' = cur /\ pc = "check" /\ cur.op # "MNT"
        /\ pc' = (CASE cur.op = "READ" -> "elevate" [] cur.op = "RENAME" -> "rename" [] OTHER -> "translate")
    BY <1>12 DEF PrepAdmits, Goto
  <2>2. cur.op \in Procedures /\ cur.cred \in Creds /\ ~cur.elevated
    BY <2>1
  <2>3. \/ cur.op = "READ" /\ pc' = "elevate"
        \/ cur.op = "RENAME" /\ pc' = "rename"
        \/ pc' = "translate"
    BY <2>1, <2>2 DEF Procedures
  <2> QED
    BY <1>0, <2>1, <2>2, <2>3 DEF AtWork, Places, Walking, Checking
<1>13. CASE SwitchFails
  BY <1>4, <1>13 DEF SwitchFails, Goto
<1>14. CASE RenameCompat
  <2>1. PICK path, prev : /\ cur' = [cur EXCEPT !.to = path, !.prev = prev]
                          /\ BeginSearch(path, "compat_walk", "compat_check")
    BY <1>14 DEF RenameCompat
  <2>2. SameCall(cur, cur') /\ cur'.elevated = cur.elevated
    BY <1>0, <2>1 DEF SameCall, IsCall
  <2>3. pc = "compat" /\ pc' \in {"compat_walk", "compat_check"}
    BY <1>14, <2>1 DEF RenameCompat, BeginSearch, Goto
  <2>4. cur.op = "RENAME" /\ cur.cred \in Creds /\ ~cur.elevated /\ cur.remote \in Remotes
    BY <2>3 DEF AtWork
  <2> QED
    BY <2>2, <2>3, <2>4 DEF SameCall, AtWork, Places, Walking, Checking, Procedures
<1>26. CASE RenameDecomp
  <2>1. CASE exports_rw
    <3>1. PICK h, path : cur' = [cur EXCEPT !.tofh = h, !.to = path]
      BY <1>26, <2>1 DEF RenameDecomp
    <3>2. SameCall(cur, cur') /\ cur'.elevated = cur.elevated
      BY <1>0, <3>1 DEF SameCall, IsCall
    <3>3. pc = "rename" /\ pc' = "compat"
      BY <1>26, <2>1 DEF RenameDecomp, Goto
    <3>4. cur.op = "RENAME" /\ cur.cred \in Creds /\ ~cur.elevated /\ cur.remote \in Remotes
      BY <3>3 DEF AtWork
    <3> QED
      BY <3>2, <3>3, <3>4 DEF SameCall, AtWork, Places, Walking, Checking, Procedures
  <2>2. CASE ~exports_rw
    BY <1>2, <1>26, <2>2 DEF RenameDecomp
  <2> QED
    BY <2>1, <2>2
<1>27. CASE Crash
  BY <1>4, <1>27 DEF Crash, Goto
<1>15. CASE RenameChecked
  <2>1. pc = "compat_check" /\ pc' = "translate"
    BY <1>15 DEF RenameChecked, Goto
  <2>2. SameCall(cur, cur') /\ cur'.elevated = cur.elevated
    <3>1. PICK status : cur' = [cur EXCEPT !.status = status]
      BY <1>15 DEF RenameChecked
    <3> QED
      BY <1>0, <3>1, Replied
  <2>3. cur.op = "RENAME" /\ cur.cred \in Creds /\ ~cur.elevated
    BY <2>1 DEF AtWork
  <2> QED
    BY <2>1, <2>2, <2>3 DEF SameCall, AtWork, Places, Walking, Checking, Procedures
<1>16. CASE Translate
  <2>1. \/ pc' = "elevate" /\ cur' = cur /\ cur.op = "WRITE"
        \/ pc' = "access" /\ cur' = cur /\ cur.op = "ACCESS"
        \/ \E status : Reply(status)
    BY <1>16 DEF Translate, Goto
  <2>2. pc = "translate" /\ cur.op \in Procedures /\ cur.cred \in Creds /\ (cur.elevated => cur.op = "READ")
    BY <1>16 DEF Translate, AtWork
  <2>3. CASE cur' = cur /\ pc' \in {"elevate", "access"}
    BY <1>0, <2>1, <2>2, <2>3 DEF AtWork, Places, Walking, Checking, Procedures, Reply
  <2> QED
    BY <1>2, <1>4, <2>1, <2>3
<1>17. CASE Elevate
  <2> DEFINE Root(file) == IF cur.op = "READ"
                           THEN read_executable(file, cur.cred) \/ read_by_owner(file, cur.cred)
                           ELSE write_by_owner(file, cur.cred)
  <2>0. \A file : Root(file) \in BOOLEAN
    BY DEF read_executable, read_by_owner, write_by_owner, owner_denied, exec_only
  <2>1. PICK file, status : cur' = [cur EXCEPT !.file = file, !.elevated = Root(file), !.status = status]
    BY <1>17 DEF Elevate
  <2> HIDE DEF Root
  <2>2. SameCall(cur, cur') /\ cur'.elevated \in BOOLEAN
    BY <1>0, <2>0, <2>1 DEF SameCall, IsCall
  <2>3. pc = "elevate" /\ pc' = (IF cur.op = "READ" THEN "translate" ELSE "transfer")
    BY <1>17 DEF Elevate, Goto
  <2>4. cur.op \in {"READ", "WRITE"} /\ cur.cred \in Creds
    BY <2>3 DEF AtWork
  <2> QED
    BY <2>2, <2>3, <2>4 DEF SameCall, AtWork, Places, Walking, Checking, Procedures
<1>18. CASE Transfer
  BY <1>2, <1>18 DEF Transfer
<1>19. CASE Access
  <2>1. PICK file, bits : cur' = [cur EXCEPT !.file = file, !.access = bits, !.status = "OK"]
    BY <1>19 DEF Access
  <2>2. SameCall(cur, cur') /\ cur'.elevated = cur.elevated
    BY <1>0, <2>1 DEF SameCall, IsCall
  <2> QED
    BY <1>1, <1>19, <2>2 DEF Access, Goto
<1>20. ASSUME pc' = "idle", cur' = Idle
       PROVE  Flow'
  BY <1>20, IdleCall DEF AtWork, Places, Walking, Checking
<1>21. CASE Finish
  BY <1>20, <1>21 DEF Finish, Goto
<1>22. CASE Restart
  BY <1>20, <1>22 DEF Restart
<1>23. ASSUME UNCHANGED <<pc, cur>>
       PROVE  Flow'
  BY <1>23 DEF AtWork
<1>24. CASE SigHup \/ Edit \/ UNCHANGED vars
  BY <1>23, <1>24 DEF SigHup, Edit, vars, requestVars
<1> QED
  BY <1>5, <1>6, <1>7, <1>8, <1>9, <1>10, <1>11, <1>12, <1>13, <1>14, <1>15, <1>16, <1>17, <1>18, <1>19, <1>21,
     <1>22, <1>24, <1>25, <1>26, <1>27 DEF Next

----------------------------------------------------------------------------
(* The search under way *)

LEMMA SearchBegins ==
  ASSUME Listed, NEW path, NEW walk \in Walking, NEW check \in Checking, BeginSearch(path, walk, check),
         pc' = walk => SearchPath' = path
  PROVE  Searching'
<1>1. /\ exports_access' => cursor' = [pos |-> 1, len |-> 0] /\ path # NoPath /\ ~has_updir(path)
      /\ exports_access' => SearchPath' = path
      /\ searched' = loaded /\ export_list' = export_list
      /\ NothingFound(Globals')
  BY BeginLists
<1>2. Len(export_list) \in Nat
  BY ListOf DEF Listed
<1>3. SearchedTo(Lines(searched'), 0, path, (cur').remote, Globals', 0)
  <2>1. Sound(searched')
    BY <1>1 DEF Listed
  <2> QED
    BY <1>1, <2>1, Start
<1> SUFFICES ASSUME exports_access' PROVE Searching'
  BY DEF Searching
<1>4. cursor' = [pos |-> 1, len |-> 0] /\ SearchPath' = path
  BY <1>1
<1>5. cursor'.pos = 1 /\ cursor'.len = 0 /\ cursor'.pos - 1 = 0
  BY <1>4
<1>6. 1 \in 1..(Len(export_list) + 1)
  BY <1>2
<1> QED
  BY <1>1, <1>3, <1>4, <1>5, <1>6 DEF Searching

(* One round of the loop.                                                    *)
LEMMA SearchGoesOn ==
  ASSUME Listed, Flow, Searching, SearchStep
  PROVE  Searching'
<1> DEFINE n == Len(Lines(searched))
           pos == cursor.pos
           item == export_list[pos]
           wins == prefix_wins(item, SearchPath) /\ find_host(cur.remote, item) # {}
<1>1. exports_access /\ pos <= Len(export_list) /\ UNCHANGED <<export_list, pc, cur, searched, exports_access>>
  BY DEF SearchStep, exports_options_step, listVars, requestVars, histVars
<1>2. /\ cursor = [pos |-> pos, len |-> cursor.len]
      /\ pos \in 1..(Len(export_list) + 1)
      /\ SearchPath # NoPath /\ ~has_updir(SearchPath)
      /\ SearchedTo(Lines(searched), pos - 1, SearchPath, cur.remote, Globals, cursor.len)
  BY <1>1 DEF Searching
<1>3. Sound(searched) /\ export_list = parsed(searched)
  BY <1>1 DEF Listed
<1>4. n \in Nat /\ Len(export_list) = n /\ \A i \in 1..n : export_list[i] = add_item(Lines(searched)[i])
  BY <1>3, ListOf
<1>5. pos \in 1..n /\ item = add_item(Lines(searched)[pos])
  BY <1>1, <1>2, <1>4
<1>6. cur.remote \in Remotes
  <2>1. pc \in Walking
    BY <1>1 DEF Listed
  <2> QED
    BY <2>1 DEF Flow
<1>7. CASE wins
  <2>1. PICK k \in find_host(cur.remote, item) :
              /\ exports_opts' = item.hosts[k].options
              /\ export_path' = [path |-> item.path, live |-> TRUE]
              /\ export_password_hash' = item.hosts[k].password_hash
              /\ last_anonuid' = item.hosts[k].anonuid
              /\ last_anongid' = item.hosts[k].anongid
              /\ cursor' = [cursor EXCEPT !.pos = @ + 1, !.len = Len(item.path)]
    BY <1>7 DEF SearchStep, exports_options_step
  <2>2. Globals' = FoundOf(item.path, item.hosts[k])
    BY <2>1 DEF Globals, FoundOf
  <2>3. cursor' = [pos |-> pos + 1, len |-> Len(item.path)]
    <3> DEFINE l == cursor.len
               l1 == Len(item.path)
    <3>1. cursor = [pos |-> pos, len |-> l] /\ cursor' = [cursor EXCEPT !.pos = @ + 1, !.len = l1]
      BY <1>2, <2>1
    <3> HIDE DEF l, l1, pos
    <3>2. cursor' = [pos |-> pos + 1, len |-> l1]
      BY <3>1
    <3> QED
      BY <3>2 DEF l1
  <2>4. Len(item.path) > cursor.len /\ begins_with(SearchPath, item.path) /\ find_host(cur.remote, item) # {}
    BY <1>7 DEF prefix_wins
  <2> DEFINE g == Globals
             g1 == Globals'
             path == SearchPath
             len == cursor.len
             len1 == Len(item.path)
  <2>5. SearchedTo(Lines(searched), pos - 1, path, cur.remote, g, len)
    BY <1>2
  <2>6. \E j \in find_host(cur.remote, item) : g1 = FoundOf(item.path, item.hosts[j]) /\ len1 = Len(item.path)
    BY <2>2
  <2>7. Len(item.path) > len /\ begins_with(path, item.path) /\ find_host(cur.remote, item) # {}
    BY <2>4
  <2> HIDE DEF g, g1, path, len, len1, item, pos, n
  <2>8. SearchedTo(Lines(searched), pos, path, cur.remote, g1, len1)
    BY <1>3, <1>5, <1>6, <2>5, <2>6, <2>7, Round DEF n
  <2>9. cursor'.pos - 1 = pos /\ cursor'.len = len1 /\ cursor'.pos \in 1..(Len(export_list) + 1)
    BY <1>4, <1>5, <2>3 DEF len1
  <2>10. SearchPath' = path /\ cur'.remote = cur.remote /\ searched' = searched /\ export_list' = export_list
    BY <1>1 DEF SearchPath, path
  <2>11. (cursor = [pos |-> cursor.pos, len |-> cursor.len])'
    BY <2>3
  <2>12. SearchPath' # NoPath /\ ~has_updir(SearchPath')
    BY <1>2, <2>10 DEF path
  <2>13. SearchedTo(Lines(searched'), cursor'.pos - 1, SearchPath', cur'.remote, Globals', cursor'.len)
    BY <2>8, <2>9, <2>10 DEF g1
  <2> QED
    BY <2>9, <2>10, <2>11, <2>12, <2>13 DEF Searching
<1>8. CASE ~wins
  <2>1. cursor' = [cursor EXCEPT !.pos = @ + 1] /\ UNCHANGED foundVars
    BY <1>8 DEF SearchStep, exports_options_step
  <2>2. Globals' = Globals
    BY <2>1 DEF Globals, foundVars
  <2>3. cursor' = [pos |-> pos + 1, len |-> cursor.len]
    <3> DEFINE l == cursor.len
    <3>1. cursor = [pos |-> pos, len |-> l] /\ cursor' = [cursor EXCEPT !.pos = @ + 1]
      BY <1>2, <2>1
    <3> HIDE DEF l, pos
    <3>2. cursor' = [pos |-> pos + 1, len |-> l]
      BY <3>1
    <3> QED
      BY <3>2 DEF l
  <2>4. ~(Len(item.path) > cursor.len /\ begins_with(SearchPath, item.path) /\ find_host(cur.remote, item) # {})
    BY <1>8 DEF prefix_wins
  <2> DEFINE g == Globals
             path == SearchPath
             len == cursor.len
  <2>5. SearchedTo(Lines(searched), pos - 1, path, cur.remote, g, len)
    BY <1>2
  <2>6. ~(Len(item.path) > len /\ begins_with(path, item.path) /\ find_host(cur.remote, item) # {})
    BY <2>4
  <2> HIDE DEF g, path, len, item, pos, n
  <2>8. SearchedTo(Lines(searched), pos, path, cur.remote, g, len)
    BY <1>3, <1>5, <1>6, <2>5, <2>6, Round DEF n
  <2>9. cursor'.pos - 1 = pos /\ cursor'.len = len /\ cursor'.pos \in 1..(Len(export_list) + 1)
    BY <1>4, <1>5, <2>3 DEF len
  <2>10. SearchPath' = path /\ cur'.remote = cur.remote /\ searched' = searched /\ export_list' = export_list
    BY <1>1 DEF SearchPath, path
  <2>11. (cursor = [pos |-> cursor.pos, len |-> cursor.len])'
    BY <2>3
  <2>12. SearchPath' # NoPath /\ ~has_updir(SearchPath')
    BY <1>2, <2>10 DEF path
  <2>13. SearchedTo(Lines(searched'), cursor'.pos - 1, SearchPath', cur'.remote, Globals', cursor'.len)
    BY <2>2, <2>8, <2>9, <2>10 DEF g
  <2> QED
    BY <2>9, <2>10, <2>11, <2>12, <2>13 DEF Searching
<1> QED
  BY <1>7, <1>8

LEMMA SearchingStep ==
  ASSUME Listed, Flow, Searching, [Next]_vars
  PROVE  Searching'
<1>1. ASSUME ~exports_access' PROVE Searching'
  BY <1>1 DEF Searching
<1>2. ASSUME pc \notin Walking, exports_access' = exports_access PROVE Searching'
  BY <1>1, <1>2 DEF Listed
<1>3. IsCall(cur)
  BY DEF Flow
<1>4. CASE ArriveNfs
  BY <1>2, <1>4 DEF ArriveNfs, Walking
<1>18. CASE PrepSearch
  <2>1. PICK path : cur' = [cur EXCEPT !.path = path] /\ BeginSearch(path, "walk", "check")
    BY <1>18 DEF PrepSearch
  <2>2. pc' = "walk" => SearchPath' = path
    BY <1>3, <2>1 DEF SearchPath, IsCall
  <2> QED
    BY <2>1, <2>2, SearchBegins DEF Walking, Checking
<1>19. CASE RenameDecomp \/ Crash
  BY <1>2, <1>19 DEF RenameDecomp, Crash, Walking, exportVars
<1>5. CASE ArriveMnt
  <2>1. PICK remote, path, given :
            /\ cur' = [Idle EXCEPT !.op = "MNT", !.remote = remote, !.path = path, !.given = given]
            /\ IF given = "" THEN BeginSearch(path, "walk", "check")
               ELSE BeginSearch(path, "auth_walk", "auth_check")
    BY <1>5 DEF ArriveMnt
  <2>2. pc' \in {"walk", "auth_walk"} => SearchPath' = path
    BY <2>1 DEF SearchPath, Idle
  <2> QED
    BY <2>1, <2>2, SearchBegins DEF Walking, Checking
<1>6. CASE SearchStep
  BY <1>6, SearchGoesOn
<1>7. CASE SearchEnd
  BY <1>1, <1>7 DEF SearchEnd, exports_options_end
<1>8. CASE MntAuth
  <2>1. PICK b : cur' = [cur EXCEPT !.authenticated = b]
    BY <1>8 DEF MntAuth
  <2>2. BeginSearch(cur.path, "walk", "check")
    BY <1>8 DEF MntAuth
  <2>3. pc' = "walk" => SearchPath' = cur.path
    BY <1>3, <2>1 DEF SearchPath, IsCall
  <2> QED
    BY <2>2, <2>3, SearchBegins DEF Walking, Checking
<1>9. CASE RenameCompat
  <2>1. PICK path, prev : /\ cur' = [cur EXCEPT !.to = path, !.prev = prev]
                          /\ BeginSearch(path, "compat_walk", "compat_check")
    BY <1>9 DEF RenameCompat
  <2>2. pc' = "compat_walk" => SearchPath' = path
    BY <1>3, <2>1 DEF SearchPath, IsCall
  <2> QED
    BY <2>1, <2>2, SearchBegins DEF Walking, Checking
<1>10. CASE MntCheck \/ PrepRefuses \/ PrepAdmits \/ SwitchFails
  BY <1>2, <1>10 DEF MntCheck, PrepRefuses, PrepAdmits, SwitchFails, Walking, exportVars
<1>11. CASE RenameChecked \/ Translate \/ Elevate \/ Transfer
  BY <1>2, <1>11 DEF RenameChecked, Translate, Elevate, Transfer, Walking, exportVars
<1>12. CASE Access \/ Finish
  BY <1>2, <1>12 DEF Access, Finish, Walking, exportVars
<1>13. ASSUME UNCHANGED <<exports_access, cursor, export_list, pc, cur, searched, exports_opts, export_path,
                          export_password_hash, last_anonuid, last_anongid>>
       PROVE  Searching'
  <2>1. Globals' = Globals /\ SearchPath' = SearchPath
    BY <1>13 DEF Globals, SearchPath
  <2> QED
    BY <1>13, <2>1 DEF Searching
<1>14. CASE SigHup
  <2>1. CASE exports_access
    <3>1. UNCHANGED <<listVars, export_path>>
      BY <1>14, <2>1 DEF SigHup, exports_parse
    <3> QED
      BY <1>13, <1>14, <3>1 DEF SigHup, listVars
  <2>2. CASE ~exports_access
    BY <1>1, <1>14, <2>2 DEF SigHup
  <2> QED
    BY <2>1, <2>2
<1>15. CASE Edit
  BY <1>13, <1>15 DEF Edit, EditExports, requestVars, histVars, listVars, foundVars
<1>16. CASE Restart
  BY <1>1, <1>16 DEF Restart
<1>17. CASE UNCHANGED vars
  BY <1>13, <1>17 DEF vars, exportVars, listVars, foundVars, requestVars, histVars
<1> QED
  BY <1>4, <1>5, <1>6, <1>7, <1>8, <1>9, <1>10, <1>11, <1>12, <1>14, <1>15, <1>16, <1>17, <1>18, <1>19 DEF Next

----------------------------------------------------------------------------
(* What the search has found *)

LEMMA FoundMatches ==
  ASSUME Flow, Found
  PROVE  OptionsMatch
<1> DEFINE Says(file, path, remote, opts, at, hash, uid, gid) ==
             LET grants == PrefixGrants(file, path, remote) IN
             IF grants = {} THEN opts = NotExported /\ at = NoPath
             ELSE \A g \in grants :
                     /\ opts = g.host.options
                     /\ at = g.path
                     /\ hash = g.host.password_hash
                     /\ <<uid, gid>> = <<g.host.anonuid, g.host.anongid>>
<1>1. ASSUME NEW file, NEW path, NEW remote, NEW opts, NEW at, NEW hash, NEW uid, NEW gid
      PROVE  Matches(file, path, remote, [options |-> opts, path |-> at, hash |-> hash, uid |-> uid, gid |-> gid])
             <=> Says(file, path, remote, opts, at, hash, uid, gid)
  BY MatchesIs
<1> SUFFICES ASSUME pc \in Checking, IsApart(searched, SearchPath)
             PROVE  LET grants == GrantsFor(searched, SearchPath, cur.remote) IN
                    IF grants = {} THEN exports_opts = NotExported /\ export_path.path = NoPath
                    ELSE \A g \in grants :
                            /\ exports_opts = g.host.options
                            /\ export_path.path = g.path
                            /\ export_password_hash = g.host.password_hash
                            /\ <<last_anonuid, last_anongid>> = <<g.host.anonuid, g.host.anongid>>
  BY DEF OptionsMatch, Checking
<1>2. GrantsFor(searched, SearchPath, cur.remote) = PrefixGrants(searched, SearchPath, cur.remote)
  BY ApartGrants DEF Flow
<1>3. Says(searched, SearchPath, cur.remote, exports_opts, export_path.path,
           export_password_hash, last_anonuid, last_anongid)
  <2> HIDE DEF Says
  <2> QED
    BY <1>1 DEF Found, Globals
<1> QED
  BY <1>2, <1>3

LEMMA FoundStep ==
  ASSUME Listed, Flow, Searching, Found, [Next]_vars
  PROVE  Found'
<1>0. Found
  OBVIOUS
<1>1. ASSUME pc' \notin Checking PROVE Found'
  BY <1>1 DEF Found
<1>2. ASSUME NEW path, NEW walk \in Walking, NEW check \in Checking, BeginSearch(path, walk, check),
             pc' = check => SearchPath' = path /\ cur'.remote \in Remotes
      PROVE  Found'
  <2>1. /\ NothingFound(Globals') /\ pc' \in {walk, check}
        /\ pc' = check => ~exports_access'
        /\ ~exports_access' => path = NoPath \/ has_updir(path)
    BY <1>2, BeginLists DEF Walking, Checking
  <2>2. walk \notin Checking
    BY DEF Walking, Checking
  <2>3. CASE pc' = walk
    BY <1>1, <2>2, <2>3
  <2>4. CASE pc' = check
    <3>1. Matches(searched', SearchPath', cur'.remote, Globals')
      BY <1>2, <2>1, <2>4, Unfound
    <3> QED
      BY <3>1 DEF Found
  <2> QED
    BY <2>1, <2>3, <2>4
<1>3. IsCall(cur)
  BY DEF Flow
<1>4. CASE ArriveNfs
  BY <1>1, <1>4 DEF ArriveNfs, Goto, Checking
<1>18. CASE PrepSearch
  <2>1. PICK path : cur' = [cur EXCEPT !.path = path] /\ BeginSearch(path, "walk", "check")
    BY <1>18 DEF PrepSearch
  <2>2. cur.remote \in Remotes
    BY <1>18 DEF PrepSearch, Flow
  <2>3. pc' = "check" => SearchPath' = path /\ cur'.remote \in Remotes
    BY <1>3, <2>1, <2>2 DEF SearchPath, IsCall
  <2> QED
    BY <1>2, <2>1, <2>3 DEF Walking, Checking
<1>19. CASE RenameDecomp \/ Crash
  BY <1>1, <1>19 DEF RenameDecomp, Crash, Reply, Goto, Checking
<1>5. CASE ArriveMnt
  <2>1. PICK remote \in Remotes, path \in MountPaths, given \in Passwords :
            /\ cur' = [Idle EXCEPT !.op = "MNT", !.remote = remote, !.path = path, !.given = given]
            /\ IF given = "" THEN BeginSearch(path, "walk", "check")
               ELSE BeginSearch(path, "auth_walk", "auth_check")
    BY <1>5 DEF ArriveMnt
  <2>2. pc' \in {"check", "auth_check"} => SearchPath' = path /\ cur'.remote \in Remotes
    BY <2>1 DEF SearchPath, Idle
  <2> QED
    BY <1>2, <2>1, <2>2 DEF Walking, Checking
<1>6. CASE SearchStep
  <2>1. pc' = pc /\ pc \in Walking
    BY <1>6, WalkedTo DEF SearchStep, requestVars
  <2> QED
    BY <1>1, <2>1 DEF Walking, Checking
<1>7. CASE SearchEnd
  <2>1. /\ exports_access /\ cursor.pos > Len(export_list)
        /\ UNCHANGED <<cur, searched>> /\ UNCHANGED foundVars
        /\ pc \in Walking /\ pc' = Walked[pc]
    BY <1>7, WalkedTo DEF SearchEnd, exports_options_end, histVars, Goto
  <2>2. SearchPath' = SearchPath
    <3>1. pc = "compat_walk" <=> pc' = "compat_check"
      BY <2>1, WalkedTo DEF Walking
    <3>2. pc' # "compat_walk" /\ pc # "compat_check"
      BY <2>1, WalkedTo DEF Walking, Checking
    <3> QED
      BY <2>1, <3>1, <3>2 DEF SearchPath
  <2>3. Globals' = Globals
    BY <2>1 DEF Globals, foundVars
  <2>4. /\ cursor.pos \in 1..(Len(export_list) + 1)
        /\ SearchPath # NoPath /\ ~has_updir(SearchPath)
        /\ SearchedTo(Lines(searched), cursor.pos - 1, SearchPath, cur.remote, Globals, cursor.len)
    BY <2>1 DEF Searching
  <2>5. Sound(searched) /\ export_list = parsed(searched)
    BY <2>1 DEF Listed
  <2>6. Len(export_list) = Len(Lines(searched)) /\ Len(export_list) \in Nat
    BY <2>5, ListOf
  <2>7. cursor.pos - 1 = Len(Lines(searched))
    BY <2>1, <2>4, <2>6
  <2>8. cur.remote \in Remotes
    BY <2>1 DEF Flow
  <2>9. Matches(searched, SearchPath, cur.remote, Globals)
    BY <2>4, <2>5, <2>7, <2>8, End
  <2> QED
    BY <2>1, <2>2, <2>3, <2>9 DEF Found
<1>8. CASE MntAuth
  <2>1. PICK b : cur' = [cur EXCEPT !.authenticated = b]
    BY <1>8 DEF MntAuth
  <2>2. BeginSearch(cur.path, "walk", "check") /\ pc = "auth_check"
    BY <1>8 DEF MntAuth
  <2>3. cur'.remote = cur.remote /\ cur'.path = cur.path /\ cur.remote \in Remotes
    BY <1>3, <2>1, <2>2 DEF IsCall, Flow, Checking
  <2>4. pc' = "check" => SearchPath' = cur.path /\ cur'.remote \in Remotes
    BY <2>3 DEF SearchPath
  <2> QED
    BY <1>2, <2>2, <2>4 DEF Walking, Checking
<1>9. CASE RenameCompat
  <2>1. PICK path, prev : /\ cur' = [cur EXCEPT !.to = path, !.prev = prev]
                          /\ BeginSearch(path, "compat_walk", "compat_check")
    BY <1>9 DEF RenameCompat
  <2>2. cur.remote \in Remotes
    BY <1>9 DEF RenameCompat, Flow, AtWork
  <2>3. pc' = "compat_check" => SearchPath' = path /\ cur'.remote \in Remotes
    BY <1>3, <2>1, <2>2 DEF SearchPath, IsCall
  <2> QED
    BY <1>2, <2>1, <2>3 DEF Walking, Checking
<1>10. CASE MntCheck \/ PrepRefuses \/ SwitchFails \/ RenameChecked
  BY <1>1, <1>10 DEF MntCheck, PrepRefuses, SwitchFails, RenameChecked, Reply, Goto, Checking
<1>11. CASE PrepAdmits
  <2>1. pc' \in {"elevate", "rename", "translate"}
    BY <1>11 DEF PrepAdmits, Goto
  <2> QED
    BY <1>1, <2>1 DEF Checking
<1>12. CASE Translate \/ Elevate \/ Transfer \/ Access \/ Finish
  BY <1>1, <1>12 DEF Translate, Elevate, Transfer, Access, Finish, Reply, Goto, Checking
<1>13. ASSUME UNCHANGED <<pc, cur, searched, exports_opts, export_password_hash, last_anonuid, last_anongid>>,
              export_path'.path = export_path.path
       PROVE  Found'
  <2>1. Globals' = Globals /\ SearchPath' = SearchPath
    BY <1>13 DEF Globals, SearchPath
  <2> QED
    BY <1>0, <1>13, <2>1 DEF Found
<1>14. CASE SigHup
  <2>1. export_path'.path = export_path.path
    BY <1>14 DEF SigHup, exports_parse, free_list, Listed
  <2> QED
    BY <1>13, <1>14, <2>1 DEF SigHup
<1>15. CASE Edit
  BY <1>13, <1>15 DEF Edit, EditExports, requestVars, histVars, foundVars
<1>16. CASE Restart
  BY <1>1, <1>16 DEF Restart, Checking
<1>17. CASE UNCHANGED vars
  BY <1>13, <1>17 DEF vars, exportVars, foundVars, requestVars, histVars
<1> QED
  BY <1>4, <1>5, <1>6, <1>7, <1>8, <1>9, <1>10, <1>11, <1>12, <1>14, <1>15, <1>16, <1>17, <1>18, <1>19 DEF Next

----------------------------------------------------------------------------
(* Whom the server acts for *)

(* A procedure is at work since PREP admitted it; until its end nothing      *)
(* changes but what Elevate does.                                            *)
LEMMA AtWorkFrom ==
  ASSUME Flow, [Next]_vars, AtWork'
  PROVE  \/ PrepAdmits
         \/ /\ AtWork /\ UNCHANGED <<setup, can_switch, granted>> /\ SameCall(cur, cur')
            /\ Elevate \/ (effective' = effective /\ cur'.elevated = cur.elevated)
<1> DEFINE Works == {"rename", "compat", "compat_walk", "compat_check", "translate", "elevate", "transfer", "access"}
           Same == /\ AtWork /\ UNCHANGED <<setup, can_switch, granted>> /\ SameCall(cur, cur')
                   /\ Elevate \/ (effective' = effective /\ cur'.elevated = cur.elevated)
<1>0. IsCall(cur) /\ SameCall(cur, cur) /\ pc' \in Works /\ (pc \in Works <=> AtWork)
  BY DEF Flow, SameCall, AtWork
<1>1. CASE ArriveNfs
  BY <1>0, <1>1 DEF ArriveNfs, Goto
<1>13. CASE PrepSearch
  <2>1. pc' \in {"walk", "check"}
    BY <1>13 DEF PrepSearch, BeginSearch, Goto
  <2> QED
    BY <1>0, <2>1
<1>14. CASE Crash
  BY <1>0, <1>14 DEF Crash, Goto
<1>15. CASE RenameDecomp
  <2>1. CASE exports_rw
    <3>1. PICK h, path : cur' = [cur EXCEPT !.tofh = h, !.to = path]
      BY <1>15, <2>1 DEF RenameDecomp
    <3>2. SameCall(cur, cur') /\ cur'.elevated = cur.elevated
      BY <1>0, <3>1 DEF SameCall, IsCall
    <3> QED
      BY <1>0, <1>15, <3>2 DEF RenameDecomp, userVars, histVars
  <2>2. CASE ~exports_rw
    BY <1>0, <1>15, <2>2 DEF RenameDecomp, Reply
  <2> QED
    BY <2>1, <2>2
<1>2. CASE ArriveMnt
  <2>1. pc' \in {"walk", "check", "auth_walk", "auth_check"}
    BY <1>2 DEF ArriveMnt, BeginSearch, Goto
  <2> QED
    BY <1>0, <2>1
<1>3. ASSUME pc' = pc, cur' = cur, UNCHANGED <<setup, can_switch, effective>>, granted' = granted PROVE Same
  BY <1>0, <1>3
<1>4. CASE SearchStep \/ SigHup \/ Edit \/ UNCHANGED vars
  BY <1>3, <1>4 DEF SearchStep, SigHup, Edit, vars, requestVars, histVars, userVars
<1>5. CASE SearchEnd
  <2>1. pc \in Walking /\ pc' = Walked[pc] /\ cur' = cur /\ granted' = granted /\ UNCHANGED userVars
    BY <1>5, WalkedTo DEF SearchEnd, Goto, histVars
  <2>2. pc = "compat_walk"
    BY <1>0, <2>1, WalkedTo DEF Walking
  <2> QED
    BY <1>0, <2>1, <2>2 DEF userVars
<1>6. CASE MntAuth
  <2>1. pc' \in {"walk", "check"}
    BY <1>6 DEF MntAuth, BeginSearch, Goto
  <2> QED
    BY <1>0, <2>1
<1>7. CASE MntCheck \/ PrepRefuses \/ SwitchFails \/ Transfer \/ Access \/ Finish
  <2>1. pc' \in {"reply", "dead", "idle"}
    BY <1>7 DEF MntCheck, PrepRefuses, SwitchFails, Transfer, Access, Finish, Reply, Goto
  <2> QED
    BY <1>0, <2>1
<1>8. CASE RenameCompat
  <2>1. PICK path, prev : cur' = [cur EXCEPT !.to = path, !.prev = prev]
    BY <1>8 DEF RenameCompat
  <2>2. SameCall(cur, cur') /\ cur'.elevated = cur.elevated
    BY <1>0, <2>1 DEF SameCall, IsCall
  <2> QED
    BY <1>0, <1>8, <2>2 DEF RenameCompat, userVars
<1>9. CASE RenameChecked
  <2>1. SameCall(cur, cur') /\ cur'.elevated = cur.elevated
    <3>1. PICK status : cur' = [cur EXCEPT !.status = status]
      BY <1>9 DEF RenameChecked
    <3> QED
      BY <1>0, <3>1, Replied
  <2> QED
    BY <1>0, <1>9, <2>1 DEF RenameChecked, userVars, histVars
<1>10. CASE Translate
  <2>1. cur' = cur
    BY <1>0, <1>10 DEF Translate, Reply
  <2> QED
    BY <1>0, <1>10, <2>1 DEF Translate, userVars, histVars
<1>11. CASE Elevate
  <2> DEFINE Root(file) == IF cur.op = "READ"
                           THEN read_executable(file, cur.cred) \/ read_by_owner(file, cur.cred)
                           ELSE write_by_owner(file, cur.cred)
  <2>1. PICK file, status : cur' = [cur EXCEPT !.file = file, !.elevated = Root(file), !.status = status]
    BY <1>11 DEF Elevate
  <2> HIDE DEF Root
  <2>2. IsCall(cur')
    BY FlowStep, <1>11 DEF Flow
  <2>3. SameCall(cur, cur')
    BY <1>0, <2>1, <2>2 DEF SameCall, IsCall
  <2> QED
    BY <1>0, <1>11, <2>3 DEF Elevate, histVars
<1>12. CASE Restart
  BY <1>0, <1>12 DEF Restart
<1> QED
  BY <1>1, <1>2, <1>4, <1>5, <1>6, <1>7, <1>8, <1>9, <1>10, <1>11, <1>12, <1>13, <1>14, <1>15 DEF Next

LEMMA IdentityStep ==
  ASSUME Flow, Identity, [Next]_vars
  PROVE  Identity'
<1> DEFINE Shape(e) == e = [uid |-> e.uid, gid |-> e.gid, groups |-> e.groups]
           Stays(e) == ~Switches => /\ e.uid = setup.uid /\ e.groups = {}
                                    /\ setup.uid # ROOT => e.gid = setup.gid
<1>0. /\ can_switch \in BOOLEAN
      /\ can_switch => squash = NobodyIds
      /\ ~can_switch => squash = ServerIds /\ ~Switches
      /\ Shape(effective) /\ Stays(effective)
  BY DEF Identity
<1>1. ASSUME NEW e, Shape(e), Stays(e), NEW d, d = [e EXCEPT !.uid = ROOT, !.gid = ROOT], setup.uid = ROOT
      PROVE  Shape(d) /\ Stays(d)
  <2> DEFINE u == e.uid
             g == e.gid
             s == e.groups
  <2>1. e = [uid |-> u, gid |-> g, groups |-> s]
    BY <1>1
  <2> HIDE DEF u, g, s
  <2>2. d = [uid |-> ROOT, gid |-> ROOT, groups |-> s]
    BY <1>1, <2>1
  <2> QED
    BY <1>1, <2>2 DEF s
<1>2. ASSUME UNCHANGED <<setup, can_switch, squash>>, Shape(effective'), Stays(effective'), AtWork' => AtWork
      PROVE  Identity'
  BY <1>2 DEF Identity, Switches, ServerIds
<1>3. ASSUME UNCHANGED userVars, AtWork' => AtWork
      PROVE  Identity'
  BY <1>0, <1>2, <1>3 DEF userVars
<1>4. AtWork' => AtWork \/ PrepAdmits
  BY AtWorkFrom
<1> HIDE DEF Shape, Stays
<1>5. CASE ArriveNfs
  <2>1. effective' = (IF can_switch /\ setup.uid = ROOT THEN [effective EXCEPT !.uid = ROOT, !.gid = ROOT] ELSE effective)
        /\ UNCHANGED <<setup, can_switch, squash>>
    BY <1>5 DEF ArriveNfs, switch_to_root, SwitchedToRoot, CanBecomeRoot
  <2>2. Shape(effective') /\ Stays(effective')
    BY <1>0, <1>1, <2>1
  <2>3. ~AtWork'
    BY <1>5 DEF ArriveNfs, Goto, AtWork
  <2> QED
    BY <1>2, <2>1, <2>2, <2>3
<1>6. CASE PrepAdmits
  <2>1. CASE ~can_switch
    <3>1. UNCHANGED userVars
      BY <1>6, <2>1 DEF PrepAdmits, switch_user
    <3> QED
      BY <1>0, <2>1, <3>1 DEF Identity, userVars, Switches, ServerIds, Shape, Stays
  <2>2. CASE can_switch /\ ~Switches
    <3>1. squash' = ServerIds /\ can_switch' = FALSE /\ UNCHANGED <<setup, effective>>
      BY <1>6, <2>2 DEF PrepAdmits, switch_user, Switches, CanBecomeRoot
    <3> QED
      BY <1>0, <2>2, <3>1 DEF Identity, Switches, ServerIds, Shape, Stays
  <2>3. CASE can_switch /\ Switches
    <3>1. /\ effective' \in [uid : {get_uid(cur.cred)}, gid : {get_gid(cur.cred)},
                             groups : IF cur.cred.flavor = "AUTH_UNIX" THEN {switch_groups(cur.cred)}
                                      ELSE {{}, {mangle(ROOT, squash.gid)}}]
          /\ UNCHANGED <<setup, can_switch, squash>>
      BY <1>6, <2>3 DEF PrepAdmits, switch_user, Switches, CanBecomeRoot
    <3>2. (effective = [uid |-> effective.uid, gid |-> effective.gid, groups |-> effective.groups])'
      BY <3>1
    <3> QED
      BY <1>0, <2>3, <3>1, <3>2 DEF Identity, Switches, ServerIds
  <2> QED
    BY <1>0, <2>1, <2>2, <2>3
<1>7. CASE Elevate
  <2>1. \/ effective' = effective
        \/ setup.uid = ROOT /\ effective' = [effective EXCEPT !.uid = ROOT, !.gid = ROOT]
    BY <1>7 DEF Elevate, Elevated, CanBecomeRoot
  <2>2. Shape(effective') /\ Stays(effective')
    BY <1>0, <1>1, <2>1
  <2>3. UNCHANGED <<setup, can_switch, squash>> /\ AtWork
    BY <1>7 DEF Elevate, AtWork
  <2> QED
    BY <1>2, <2>2, <2>3
<1>8. CASE SigHup
  <2>1. UNCHANGED <<setup, can_switch, effective, pc>> /\ squash' = (IF can_switch THEN NobodyIds ELSE squash)
    BY <1>8 DEF SigHup, get_squash_ids
  <2>2. squash' = squash
    BY <1>0, <2>1
  <2> QED
    BY <1>3, <2>1, <2>2 DEF userVars, AtWork
<1>9. CASE Restart
  <2>1. effective' = [uid |-> setup'.uid, gid |-> setup'.gid, groups |-> {}] /\ can_switch' = TRUE
        /\ squash' = NobodyIds /\ pc' = "idle"
    BY <1>9 DEF Restart, StartedAs
  <2> QED
    BY <2>1 DEF Identity, Switches, AtWork
<1>10. CASE ~PrepAdmits /\ UNCHANGED userVars
  BY <1>3, <1>4, <1>10
<1>11. CASE ArriveMnt \/ PrepSearch \/ SearchStep \/ SearchEnd \/ MntAuth \/ MntCheck \/ PrepRefuses \/ SwitchFails
  BY <1>6, <1>10, <1>11 DEF ArriveMnt, PrepSearch, SearchStep, SearchEnd, MntAuth, MntCheck, PrepRefuses, SwitchFails
<1>13. CASE RenameDecomp \/ Crash
  BY <1>6, <1>10, <1>13 DEF RenameDecomp, Crash
<1>12. CASE RenameCompat \/ RenameChecked \/ Translate \/ Transfer \/ Access \/ Finish \/ Edit \/ UNCHANGED vars
  BY <1>6, <1>10, <1>12 DEF RenameCompat, RenameChecked, Translate, Transfer, Access, Finish, Edit, vars
<1> QED
  BY <1>5, <1>6, <1>7, <1>8, <1>9, <1>11, <1>12, <1>13 DEF Next

----------------------------------------------------------------------------
(* What PREP admits a request by *)

LEMMA GrantHost ==
  ASSUME NEW file, NEW path, NEW remote \in Remotes, NEW g \in GrantsFor(file, path, remote)
  PROVE  g.host.password_hash = fnv1a_32[g.host.password]
<1>1. g \in Grants(file, path, remote)
  <2>1. GrantsFor(file, path, remote) \subseteq Grants(file, path, remote)
    BY GrantsAre
  <2> QED
    BY <2>1
<1>2. \E line : g.host \in HostsFor(line, remote)
  <2> DEFINE lines == Lines(file)
             all == Matching(lines, path, remote)
             longest == {i \in all : \A j \in all : Len(item_path(lines[j])) <= Len(item_path(lines[i]))}
  <2>1. g \in UNION {{[path |-> item_path(lines[i]), host |-> h] :
                         h \in HostsFor(lines[i], remote)} : i \in First(longest)}
    BY <1>1 DEF Grants
  <2> HIDE DEF longest, lines
  <2>2. \E i \in First(longest) : \E h \in HostsFor(lines[i], remote) : g = [path |-> item_path(lines[i]), host |-> h]
    BY <2>1
  <2> QED
    BY <2>2
<1>3. g.host = AnonHost \/ \E spec : g.host = add_host(spec)
  <2>1. PICK line : g.host \in HostsFor(line, remote)
    BY <1>2
  <2> QED
    BY <2>1 DEF HostsFor
<1>4. CASE g.host = AnonHost
  <2>1. fnv1a_32[""] = 0
    BY ExportsAssumption
  <2>2. AnonHost.password = "" /\ AnonHost.password_hash = 0
    BY DEF AnonHost
  <2> QED
    BY <1>4, <2>1, <2>2, Zenon
<1>5. CASE \E spec : g.host = add_host(spec)
  BY <1>5 DEF add_host
<1> QED
  BY <1>3, <1>4, <1>5

LEMMA Admitted ==
  ASSUME Flow, OptionsMatch, PrepAdmits, granted'.apart
  PROVE  LET host == granted'.host IN
         /\ exports_opts = host.options
         /\ last_anonuid = host.anonuid /\ last_anongid = host.anongid
         /\ cur.handle.pwhash = fnv1a_32[host.password]
<1> DEFINE grants == GrantsFor(searched, cur.path, cur.remote)
<1>1. /\ pc = "check" /\ exports_opts # NotExported /\ cur.handle.pwhash = export_password_hash
      /\ granted' \in (IF grants = {} THEN {NoHost}
                       ELSE {[path |-> g.path, host |-> g.host, apart |-> IsApart(searched, cur.path)] : g \in grants})
  BY DEF PrepAdmits, Refused
<1>6. grants # {} /\ IsApart(searched, cur.path) /\ \E g \in grants : granted'.host = g.host
  <2> DEFINE b == IsApart(searched, cur.path)
  <2> HIDE DEF grants, b
  <2>1. CASE grants = {}
    BY <1>1, <2>1 DEF NoHost
  <2>2. CASE grants # {}
    <3>1. granted' \in {[path |-> g.path, host |-> g.host, apart |-> b] : g \in grants}
      BY <1>1, <2>2 DEF b
    <3>2. PICK g \in grants : granted' = [path |-> g.path, host |-> g.host, apart |-> b]
      BY <3>1
    <3> QED
      BY <2>2, <3>2 DEF b
  <2> QED
    BY <2>1, <2>2
<1>2. SearchPath = cur.path /\ cur.remote \in Remotes
  BY <1>1 DEF SearchPath, Flow, Checking
<1>3. IF grants = {} THEN exports_opts = NotExported /\ export_path.path = NoPath
      ELSE \A g \in grants :
              /\ exports_opts = g.host.options
              /\ export_path.path = g.path
              /\ export_password_hash = g.host.password_hash
              /\ <<last_anonuid, last_anongid>> = <<g.host.anonuid, g.host.anongid>>
  BY <1>1, <1>2, <1>6 DEF OptionsMatch
<1> HIDE DEF grants
<1>4. PICK g \in grants : granted'.host = g.host
  BY <1>6
<1>5. granted'.host.password_hash = fnv1a_32[granted'.host.password]
  BY <1>2, <1>4, GrantHost DEF grants
<1> QED
  BY <1>1, <1>3, <1>4, <1>5, <1>6

LEMMA OldPasswordStep ==
  ASSUME Flow, OptionsMatch, OldPasswordRefused, [Next]_vars
  PROVE  OldPasswordRefused'
<1> SUFFICES ASSUME AtWork', granted'.apart PROVE cur'.handle.pwhash = fnv1a_32[granted'.host.password]
  BY DEF OldPasswordRefused
<1>1. CASE PrepAdmits
  <2>1. cur' = cur
    BY <1>1 DEF PrepAdmits
  <2> QED
    BY <1>1, <2>1, Admitted
<1>2. CASE ~PrepAdmits
  <2>1. AtWork /\ granted' = granted /\ SameCall(cur, cur')
    BY <1>2, AtWorkFrom
  <2> QED
    BY <2>1 DEF SameCall, OldPasswordRefused
<1> QED
  BY <1>1, <1>2

LEMMA ActsAsCallerStep ==
  ASSUME Flow, Identity, Identity', OptionsMatch, ActsAsCaller, [Next]_vars
  PROVE  ActsAsCaller'
<1> DEFINE Acts(e, host, cred, elevated) ==
             /\ elevated \/ e.uid = CallerUid(host, cred)
             /\ elevated \/ e.gid = CallerGid(host, cred)
             /\ elevated => e.uid = ROOT
<1> SUFFICES ASSUME AtWork', granted'.apart
             PROVE  IF (setup'.uid # ROOT \/ setup'.opt_singleuser) THEN effective'.uid = setup'.uid
                    ELSE Acts(effective', granted'.host, cur'.cred, cur'.elevated)
  BY DEF ActsAsCaller
<1>1. (setup'.uid # ROOT \/ setup'.opt_singleuser) => effective'.uid = setup'.uid
  BY DEF Identity, Switches
<1> SUFFICES ASSUME setup'.uid = ROOT, ~setup'.opt_singleuser
             PROVE  Acts(effective', granted'.host, cur'.cred, cur'.elevated)
  BY <1>1
<1>2. CASE PrepAdmits
  <2> DEFINE host == granted'.host
             cred == cur.cred
  <2>1. cur' = cur /\ ~cur.elevated /\ pc = "check" /\ setup' = setup
    BY <1>2 DEF PrepAdmits, Flow, switch_user, userVars
  <2>2. exports_opts = host.options /\ last_anonuid = host.anonuid /\ last_anongid = host.anongid
    BY <1>2, Admitted
  <2>3. can_switch /\ squash = NobodyIds
    BY <2>1 DEF Identity, Switches
  <2>4. effective'.uid = get_uid(cred) /\ effective'.gid = get_gid(cred)
    <3> DEFINE G == IF cred.flavor = "AUTH_UNIX" THEN {switch_groups(cred)} ELSE {{}, {mangle(ROOT, squash.gid)}}
    <3>1. effective' \in [uid : {get_uid(cred)}, gid : {get_gid(cred)}, groups : G]
      BY <1>2, <2>1, <2>3 DEF PrepAdmits, switch_user, CanBecomeRoot
    <3> HIDE DEF G
    <3> QED
      BY <3>1
  <2> HIDE DEF host, cred
  <2>5. get_uid(cred) = CallerUid(host, cred)
    BY <2>2, <2>3 DEF get_uid, mangle_uid, mangle, squash_uid, CallerUid, Squashed, Anon
  <2>6. get_gid(cred) = CallerGid(host, cred)
    BY <2>2, <2>3 DEF get_gid, mangle_gid, mangle, squash_gid, CallerGid, Squashed, Anon
  <2>7. cur'.elevated = FALSE
    BY <2>1 DEF Flow, IsCall
  <2> QED
    BY <2>1, <2>4, <2>5, <2>6, <2>7 DEF host, cred
<1>3. CASE ~PrepAdmits
  <2>1. /\ AtWork /\ UNCHANGED <<setup, granted>> /\ SameCall(cur, cur')
        /\ Elevate \/ (effective' = effective /\ cur'.elevated = cur.elevated)
    BY <1>3, AtWorkFrom
  <2>2. Acts(effective, granted.host, cur.cred, cur.elevated) /\ cur'.cred = cur.cred
    BY <2>1 DEF ActsAsCaller, SameCall
  <2>3. CASE effective' = effective /\ cur'.elevated = cur.elevated
    BY <2>1, <2>2, <2>3
  <2>4. CASE Elevate
    <3> DEFINE Root(file) == IF cur.op = "READ"
                             THEN read_executable(file, cur.cred) \/ read_by_owner(file, cur.cred)
                             ELSE write_by_owner(file, cur.cred)
    <3>1. PICK file, status : /\ cur' = [cur EXCEPT !.file = file, !.elevated = Root(file), !.status = status]
                              /\ effective' = (IF Root(file) THEN Elevated(effective) ELSE effective)
      BY <2>4 DEF Elevate
    <3> HIDE DEF Root
    <3>2. cur'.elevated = Root(file)
      BY <3>1 DEF Flow, IsCall
    <3>3. pc = "elevate" /\ ~cur.elevated
      BY <2>4 DEF Elevate, Flow
    <3>4. Elevated(effective) = [effective EXCEPT !.uid = ROOT, !.gid = ROOT]
      BY <2>1 DEF Elevated, CanBecomeRoot
    <3>5. Elevated(effective).uid = ROOT
      BY <3>4 DEF Identity
    <3>6. CASE Root(file)
      <4>1. cur'.elevated /\ effective'.uid = ROOT
        BY <3>1, <3>2, <3>5, <3>6
      <4> QED
        BY <4>1
    <3>7. CASE ~Root(file)
      <4>1. ~cur'.elevated /\ effective' = effective
        BY <3>1, <3>2, <3>7
      <4> QED
        BY <2>1, <2>2, <3>3, <4>1
    <3> QED
      BY <3>6, <3>7
  <2> QED
    BY <2>1, <2>3, <2>4
<1> QED
  BY <1>2, <1>3

----------------------------------------------------------------------------
(* ACCESS *)

LEMMA SameIds ==
  ASSUME UNCHANGED <<can_switch, squash, exports_opts, last_anonuid, last_anongid, cur>>
  PROVE  /\ get_uid(cur.cred)' = get_uid(cur.cred) /\ get_gid(cur.cred)' = get_gid(cur.cred)
         /\ switch_groups(cur.cred)' = switch_groups(cur.cred)
<1>1. ASSUME NEW id, NEW to
      PROVE  mangle(id, to)' = mangle(id, to)
  BY DEF mangle
<1>2. squash_uid' = squash_uid /\ squash_gid' = squash_gid
  BY DEF squash_uid, squash_gid
<1>3. cur.cred' = cur.cred /\ squash' = squash
  OBVIOUS
<1>4. get_uid(cur.cred)' = get_uid(cur.cred)
  BY <1>2 DEF get_uid, mangle_uid, mangle
<1>5. get_gid(cur.cred)' = get_gid(cur.cred)
  BY <1>2 DEF get_gid, mangle_gid, mangle
<1>6. switch_groups(cur.cred)' = switch_groups(cur.cred)
  BY DEF switch_groups, mangle
<1> QED
  BY <1>4, <1>5, <1>6

LEMMA BeforeAccessStep ==
  ASSUME Listed, Flow, Identity, BeforeAccess, [Next]_vars
  PROVE  BeforeAccess'
<1> DEFINE At == cur.op = "ACCESS" /\ pc \in {"translate", "access"}
<1>1. ASSUME UNCHANGED <<can_switch, squash, exports_opts, last_anonuid, last_anongid, cur, granted, setup, effective>>,
             At
      PROVE  BeforeAccess'
  <2>1. /\ get_uid(cur.cred)' = get_uid(cur.cred) /\ get_gid(cur.cred)' = get_gid(cur.cred)
        /\ switch_groups(cur.cred)' = switch_groups(cur.cred)
    BY <1>1, SameIds
  <2>2. Switches' = Switches
    BY <1>1 DEF Switches
  <2>3. Switches => /\ effective.uid = get_uid(cur.cred) /\ effective.gid = get_gid(cur.cred)
                    /\ cur.cred.flavor = "AUTH_UNIX" => effective.groups = switch_groups(cur.cred)
    BY <1>1 DEF BeforeAccess
  <2> QED
    BY <1>1, <2>1, <2>2, <2>3 DEF BeforeAccess
<1> SUFFICES ASSUME At' PROVE BeforeAccess'
  BY DEF BeforeAccess
<1>2. AtWork'
  BY DEF AtWork
<1>3. CASE PrepAdmits
  <2>1. UNCHANGED <<exports_opts, last_anonuid, last_anongid, cur, setup>> /\ switch_user(cur.cred)
    BY <1>3 DEF PrepAdmits, exportVars, foundVars, switch_user, userVars
  <2>3. Switches' = Switches
    BY <2>1 DEF Switches
  <2>4. ASSUME Switches
        PROVE  /\ effective'.uid = get_uid(cur.cred)' /\ effective'.gid = get_gid(cur.cred)'
               /\ cur'.cred.flavor = "AUTH_UNIX" => effective'.groups = switch_groups(cur.cred)'
    <3> DEFINE cred == cur.cred
               G == IF cred.flavor = "AUTH_UNIX" THEN {switch_groups(cred)} ELSE {{}, {mangle(ROOT, squash.gid)}}
    <3>1. can_switch /\ setup.uid = ROOT /\ ~setup.opt_singleuser
      BY <2>4 DEF Identity, Switches
    <3>2. effective' \in [uid : {get_uid(cred)}, gid : {get_gid(cred)}, groups : G] /\ UNCHANGED <<can_switch, squash>>
      BY <2>1, <3>1 DEF switch_user, CanBecomeRoot
    <3>3. cred.flavor = "AUTH_UNIX" => G = {switch_groups(cred)}
      OBVIOUS
    <3>4. /\ get_uid(cur.cred)' = get_uid(cur.cred) /\ get_gid(cur.cred)' = get_gid(cur.cred)
          /\ switch_groups(cur.cred)' = switch_groups(cur.cred)
      BY <2>1, <3>2, SameIds
    <3> HIDE DEF G
    <3>5. effective'.uid = get_uid(cred) /\ effective'.gid = get_gid(cred) /\ effective'.groups \in G
      BY <3>2
    <3> QED
      BY <2>1, <3>3, <3>4, <3>5
  <2> QED
    BY <2>1, <2>3, <2>4 DEF BeforeAccess
<1>4. CASE ~PrepAdmits
  <2>1. AtWork /\ UNCHANGED <<setup, can_switch, granted>> /\ SameCall(cur, cur')
    BY <1>2, <1>4, AtWorkFrom
  <2>2. cur.op = "ACCESS" /\ pc' \in {"translate", "access"}
    BY <2>1 DEF SameCall
  <2>3. pc \in {"translate", "access"}
    BY <2>1, <2>2 DEF AtWork, Flow
  <2>4. CASE Translate
    <3>1. cur' = cur
      BY <2>2, <2>4 DEF Translate, Reply
    <3> QED
      BY <1>1, <2>2, <2>3, <2>4, <3>1 DEF Translate, exportVars, foundVars, userVars, histVars
  <2>5. CASE SigHup
    <3>1. squash' = squash
      BY <2>5 DEF SigHup, get_squash_ids, Identity
    <3> QED
      BY <1>1, <2>2, <2>3, <2>5, <3>1 DEF SigHup
  <2>6. CASE UNCHANGED vars
    BY <1>1, <2>2, <2>3, <2>6 DEF vars, exportVars, foundVars, userVars, requestVars, histVars
  <2>7. ~(ArriveNfs \/ ArriveMnt \/ Finish \/ Edit \/ Restart \/ MntAuth \/ MntCheck \/ PrepRefuses \/ SwitchFails)
    BY <2>3 DEF ArriveNfs, ArriveMnt, Finish, Edit, Restart, MntAuth, MntCheck, PrepRefuses, SwitchFails
  <2>8. ~(SearchStep \/ SearchEnd)
    BY <2>3, WalkedTo DEF SearchStep, SearchEnd, Walking
  <2>9. ~(RenameDecomp \/ RenameCompat \/ RenameChecked \/ Elevate \/ Transfer \/ PrepSearch)
    BY <2>3 DEF RenameDecomp, RenameCompat, RenameChecked, Elevate, Transfer, PrepSearch
  <2>11. ~Crash
    BY <2>2 DEF Crash, Goto
  <2>10. ~Access
    BY <2>2 DEF Access, Goto
  <2> QED
    BY <1>4, <2>4, <2>5, <2>6, <2>7, <2>8, <2>9, <2>10, <2>11 DEF Next
<1> QED
  BY <1>3, <1>4

(* The bits of a class, and what is put on top of them.                      *)
LEMMA ClassBits ==
  ASSUME NEW mode, NEW r, NEW w, NEW x
  PROVE  LET bits == class_bits(mode, r, w, x) IN
         /\ "EXECUTE" \in bits <=> x \in mode
         /\ "MODIFY" \in bits <=> w \in mode
         /\ "DELETE" \notin bits
BY DEF class_bits

LEMMA AccessBits ==
  ASSUME NEW file, NEW cred
  PROVE  LET bits == access_bits(file, cred)
             own == mode_bits(file, cred) IN
         /\ "EXECUTE" \in bits => "EXECUTE" \in own
         /\ "DELETE" \in bits => "MODIFY" \in own \/ get_uid(cred) = ROOT
<1> DEFINE own == mode_bits(file, cred)
           more == IF get_uid(cred) = ROOT THEN {"READ", "MODIFY", "EXTEND"} ELSE {}
<1>1. "DELETE" \notin own
  BY ClassBits DEF mode_bits
<1> HIDE DEF own
<1>2. /\ "EXECUTE" \in own \cup more => "EXECUTE" \in own
      /\ "MODIFY" \in own \cup more => "MODIFY" \in own \/ get_uid(cred) = ROOT
      /\ "DELETE" \notin own \cup more
  BY <1>1
<1> DEFINE all == own \cup more
           dir == (all \ {"EXECUTE"})
                  \cup (IF all \cap {"READ", "EXECUTE"} # {} THEN {"LOOKUP"} ELSE {})
                  \cup (IF "MODIFY" \in all THEN {"DELETE"} ELSE {})
<1>3. access_bits(file, cred) = (IF file.dir THEN dir ELSE all) \cup {"READ", "MODIFY", "EXTEND"}
  BY DEF access_bits, own
<1> HIDE DEF all
<1>4. "EXECUTE" \notin dir /\ ("DELETE" \in dir => "MODIFY" \in all \/ "DELETE" \in all)
  OBVIOUS
<1> HIDE DEF dir
<1>5. /\ "EXECUTE" \in access_bits(file, cred) => "EXECUTE" \in all
      /\ "DELETE" \in access_bits(file, cred) => "MODIFY" \in all \/ "DELETE" \in all
  BY <1>3, <1>4
<1> QED
  BY <1>2, <1>5 DEF all, own

(* The process has the user of the caller, and unless that is root it has a  *)
(* group exactly where has_group finds it.                                   *)
LEMMA CallersClass ==
  ASSUME Flow, Identity, BeforeAccess, pc = "access", cur.cred.flavor = "AUTH_UNIX",
         last_anonuid = ANON_NOTSPECIAL, last_anongid = ANON_NOTSPECIAL, NEW group
  PROVE  /\ effective.uid = get_uid(cur.cred)
         /\ \/ effective.uid = ROOT
            \/ has_group(group, cur.cred) <=> effective.gid = group \/ group \in effective.groups
<1> DEFINE cred == cur.cred
<1>1. cur.op = "ACCESS" /\ AtWork /\ cred \in Creds
  BY DEF Flow, AtWork
<1>2. last_anonuid = ANON_NOTSPECIAL /\ last_anongid = ANON_NOTSPECIAL
  OBVIOUS
<1>3. squash_uid = squash.uid /\ squash_gid = squash.gid
  BY <1>2 DEF squash_uid, squash_gid
<1>4. /\ get_uid(cred) = mangle(cred.uid, squash.uid)
      /\ get_gid(cred) = mangle(cred.gid, squash.gid)
  BY <1>3 DEF get_uid, get_gid, mangle_uid, mangle_gid
<1>5. has_group(group, cred) <=> \/ mangle(cred.gid, squash.gid) = group
                                 \/ \E i \in DOMAIN cred.gids : mangle(cred.gids[i], squash.gid) = group
  BY DEF has_group
<1>6. CASE Switches
  <2>1. /\ effective.uid = get_uid(cred) /\ effective.gid = get_gid(cred)
        /\ effective.groups = switch_groups(cred)
    BY <1>1, <1>6 DEF BeforeAccess
  <2>2. DOMAIN cred.gids \subseteq 1..MaxGroups
    BY <1>1, RequestsAssumption
  <2>3. {k \in DOMAIN cred.gids : k <= MaxGroups} = DOMAIN cred.gids
    BY <2>2 DEF MaxGroups
  <2>4. group \in switch_groups(cred) <=> \E i \in DOMAIN cred.gids : mangle(cred.gids[i], squash.gid) = group
    BY <2>3 DEF switch_groups
  <2> QED
    BY <1>4, <1>5, <2>1, <2>4
<1>7. CASE ~Switches
  <2>1. ~can_switch /\ squash = [uid |-> setup.uid, gid |-> setup.gid]
    BY <1>1, <1>7 DEF Identity, ServerIds
  <2>2. \A id, to : mangle(id, to) = to
    BY <2>1 DEF mangle
  <2>3. squash.uid = setup.uid /\ squash.gid = setup.gid
    BY <2>1
  <2>4. /\ effective.uid = setup.uid /\ effective.groups = {}
        /\ setup.uid # ROOT => effective.gid = setup.gid
    BY <1>7 DEF Identity
  <2>5. get_uid(cred) = setup.uid /\ (has_group(group, cred) <=> setup.gid = group)
    BY <1>4, <1>5, <2>2, <2>3
  <2> QED
    BY <2>4, <2>5
<1> QED
  BY <1>6, <1>7

LEMMA AccessClassStep ==
  ASSUME Flow, Identity, BeforeAccess, AccessClass, [Next]_vars
  PROVE  AccessClass'
<1>1. ASSUME UNCHANGED <<pc, cur, effective, last_anonuid, last_anongid>> PROVE AccessClass'
  BY <1>1 DEF AccessClass, KernelMay
<1>2. ASSUME pc' # "reply" \/ cur'.op # "ACCESS" \/ cur'.status # "OK" PROVE AccessClass'
  BY <1>2 DEF AccessClass
<1>3. IsCall(cur)
  BY DEF Flow
<1>4. ASSUME NEW status, Reply(status), cur.op # "ACCESS" PROVE AccessClass'
  <2>1. cur'.op = cur.op
    BY <1>3, <1>4, Replied DEF Reply, SameCall
  <2> QED
    BY <1>2, <1>4, <2>1
<1>5. CASE ArriveNfs \/ PrepSearch \/ ArriveMnt \/ MntAuth
  <2>1. pc' \in {"prep", "walk", "check", "auth_walk", "auth_check"}
    BY <1>5 DEF ArriveNfs, PrepSearch, ArriveMnt, MntAuth, BeginSearch, Goto
  <2> QED
    BY <1>2, <2>1
<1>6. CASE SigHup \/ Edit \/ UNCHANGED vars
  BY <1>1, <1>6 DEF SigHup, Edit, EditExports, vars, exportVars, foundVars, requestVars, userVars
<1>15. CASE SearchStep
  <2>1. pc' # "reply"
    BY <1>15, WalkedTo DEF SearchStep, requestVars, Walking
  <2> QED
    BY <1>2, <2>1
<1>16. CASE RenameDecomp
  <2>1. CASE exports_rw
    BY <1>2, <1>16, <2>1 DEF RenameDecomp, Goto
  <2>2. CASE ~exports_rw
    BY <1>4, <1>16, <2>2 DEF RenameDecomp, Flow
  <2> QED
    BY <2>1, <2>2
<1>17. CASE Crash
  BY <1>2, <1>17 DEF Crash, Goto
<1>7. CASE SearchEnd
  <2>1. pc' \in Checking
    BY <1>7, WalkedTo DEF SearchEnd, Goto
  <2> QED
    BY <1>2, <2>1 DEF Checking
<1>8. CASE MntCheck
  <2>1. CASE \E h \in fh_comp(cur.path) : cur' = [cur EXCEPT !.handle = h, !.status = "OK"] /\ Goto("reply")
    <3>1. PICK h : cur' = [cur EXCEPT !.handle = h, !.status = "OK"]
      BY <2>1
    <3>2. cur'.op = "MNT"
      BY <1>3, <1>8, <3>1 DEF MntCheck, IsCall
    <3> QED
      BY <1>2, <3>2
  <2>2. CASE Reply("ACCES")
    BY <1>4, <1>8, <2>2 DEF MntCheck
  <2> QED
    BY <1>8, <2>1, <2>2 DEF MntCheck
<1>9. CASE PrepRefuses
  <2> DEFINE status == IF exports_opts = NotExported /\ cur.path # NoPath THEN "ACCES" ELSE "STALE"
  <2>1. cur' = [cur EXCEPT !.status = status]
    BY <1>9 DEF PrepRefuses, Reply
  <2>2. status # "OK"
    OBVIOUS
  <2> HIDE DEF status
  <2>3. cur'.status = status
    BY <1>3, <2>1, Replied
  <2> QED
    BY <1>2, <2>2, <2>3
<1>10. CASE PrepAdmits \/ SwitchFails \/ RenameChecked \/ Elevate \/ Finish \/ Restart
  <2>1. pc' # "reply"
    BY <1>10 DEF PrepAdmits, SwitchFails, RenameChecked, Elevate, Finish, Restart, Goto
  <2> QED
    BY <1>2, <2>1
<1>11. CASE RenameCompat
  <2>1. pc' \in {"compat_walk", "compat_check"}
    BY <1>11 DEF RenameCompat, BeginSearch, Goto
  <2> QED
    BY <1>2, <2>1
<1>12. CASE Translate
  <2>1. pc' # "reply" \/ (cur.op # "ACCESS" /\ \E status : Reply(status))
    BY <1>12 DEF Translate, Goto
  <2> QED
    BY <1>2, <1>4, <2>1
<1>13. CASE Transfer
  BY <1>4, <1>13 DEF Transfer, Flow
<1>14. CASE Access
  <2>1. PICK file : cur' = [cur EXCEPT !.file = file, !.access = access_bits(file, cur.cred), !.status = "OK"]
    BY <1>14 DEF Access
  <2> DEFINE cred == cur.cred
             bits == access_bits(file, cred)
             own == mode_bits(file, cred)
  <2>2. cur'.file = file /\ cur'.access = bits /\ cur'.cred = cred
    BY <1>3, <2>1 DEF IsCall
  <2>3. UNCHANGED <<effective, last_anonuid, last_anongid>> /\ pc = "access"
    BY <1>14 DEF Access, userVars, exportVars, foundVars
  <2> SUFFICES ASSUME cred.flavor = "AUTH_UNIX", last_anonuid = ANON_NOTSPECIAL,
                      last_anongid = ANON_NOTSPECIAL
               PROVE  /\ "EXECUTE" \in bits => KernelMay(effective, file, "XUSR", "XGRP", "XOTH")
                      /\ "DELETE" \in bits => KernelMay(effective, file, "WUSR", "WGRP", "WOTH")
    BY <2>2, <2>3 DEF AccessClass, KernelMay
  <2>4. /\ effective.uid = get_uid(cred)
        /\ \/ effective.uid = ROOT
           \/ has_group(file.gid, cred) <=> effective.gid = file.gid \/ file.gid \in effective.groups
    BY <2>3, CallersClass
  <2>5. /\ "EXECUTE" \in bits => "EXECUTE" \in own
        /\ "DELETE" \in bits => "MODIFY" \in own \/ get_uid(cred) = ROOT
    BY AccessBits
  <2>6. "EXECUTE" \in own <=> IF file.uid = get_uid(cred) THEN "XUSR" \in file.mode
                              ELSE IF has_group(file.gid, cred) THEN "XGRP" \in file.mode ELSE "XOTH" \in file.mode
    BY ClassBits DEF mode_bits, is_owner
  <2>7. "MODIFY" \in own <=> IF file.uid = get_uid(cred) THEN "WUSR" \in file.mode
                             ELSE IF has_group(file.gid, cred) THEN "WGRP" \in file.mode ELSE "WOTH" \in file.mode
    BY ClassBits DEF mode_bits, is_owner
  <2> HIDE DEF bits, own, cred
  <2>8. ASSUME NEW u, NEW g, NEW o,
               IF file.uid = get_uid(cred) THEN u \in file.mode
               ELSE IF has_group(file.gid, cred) THEN g \in file.mode ELSE o \in file.mode
        PROVE  KernelMay(effective, file, u, g, o)
    BY <2>4, <2>8 DEF KernelMay
  <2>9. ASSUME get_uid(cred) = ROOT, NEW u, NEW g, NEW o PROVE KernelMay(effective, file, u, g, o)
    BY <2>4, <2>9 DEF KernelMay
  <2> QED
    BY <2>5, <2>6, <2>7, <2>8, <2>9
<1> QED
  BY <1>5, <1>6, <1>7, <1>8, <1>9, <1>10, <1>11, <1>12, <1>13, <1>14, <1>15, <1>16, <1>17 DEF Next

----------------------------------------------------------------------------
(* The invariant *)

LEMMA InitInv ==
  ASSUME Init
  PROVE  Inv
<1>1. /\ efile \in ExportFiles /\ loaded = AsSeenBy(effective) /\ searched = loaded
      /\ export_list = parsed(loaded) /\ exports_access = FALSE /\ pc = "idle" /\ cur = Idle
      /\ export_path = [path |-> NoPath, live |-> TRUE] /\ held = "own"
  BY DEF Init, ExportsInit
<1>2. Sound(loaded)
  BY <1>1, SeenSound
<1>3. Listed
  BY <1>1, <1>2 DEF Listed, Walking
<1>4. Flow
  BY <1>1, IdleCall DEF Flow, AtWork, Places, Walking, Checking
<1>5. Searching
  BY <1>1 DEF Searching
<1>6. ~AtWork /\ pc \notin {"check", "auth_check", "compat_check", "translate", "access", "reply"}
  BY <1>1 DEF AtWork
<1>7. Identity
  <2>1. can_switch = TRUE /\ squash = NobodyIds /\ effective = [uid |-> setup.uid, gid |-> setup.gid, groups |-> {}]
    BY DEF Init, UsersInit, StartedAs
  <2> QED
    BY <1>6, <2>1 DEF Identity
<1>8. BeforeAccess /\ Found /\ ActsAsCaller /\ OldPasswordRefused /\ AccessClass
  BY <1>6 DEF BeforeAccess, Found, Checking, ActsAsCaller, OldPasswordRefused, AccessClass
<1> QED
  BY <1>3, <1>4, <1>5, <1>7, <1>8 DEF Inv

LEMMA InvStep ==
  ASSUME Inv, [Next]_vars
  PROVE  Inv'
<1> USE DEF Inv
<1>1. Listed' /\ Flow' /\ Searching'
  BY ListedStep, FlowStep, SearchingStep
<1>2. Identity'
  BY IdentityStep
<1>3. Found' /\ BeforeAccess'
  BY FoundStep, BeforeAccessStep
<1>5. OptionsMatch
  BY FoundMatches
<1>4. ActsAsCaller' /\ OldPasswordRefused' /\ AccessClass'
  BY <1>2, <1>5, ActsAsCallerStep, OldPasswordStep, AccessClassStep
<1> QED
  BY <1>1, <1>2, <1>3, <1>4

LEMMA Invariance == Spec => []Inv
BY InitInv, InvStep, PTL DEF Spec

----------------------------------------------------------------------------
(* The theorems *)

(* The loop of exports_options over the list, with its "longest so far", is   *)
(* a correct search, however many SIGHUPs arrive during it: for every exports *)
(* file, every address and every path that is not a mere sibling of an        *)
(* exported directory it ends with the options, path, password hash and       *)
(* anonymous ids of the first matching host of the first line with the        *)
(* innermost directory, and with nothing where no line matches or the file    *)
(* has an error.                                                              *)
THEOREM SearchCorrect == Spec => []OptionsMatch
<1>1. Inv => OptionsMatch
  BY FoundMatches DEF Inv
<1> QED
  BY <1>1, Invariance, PTL

(* Once PREP has switched the user, the process has the identity the export   *)
(* promises this caller until the procedure ends, or is root because          *)
(* read_executable, read_by_owner or write_by_owner said so; a server that    *)
(* cannot switch stays who it is.                                             *)
THEOREM CallerServed == Spec => []ActsAsCaller
<1>1. Inv => ActsAsCaller
  BY DEF Inv
<1> QED
  BY <1>1, Invariance, PTL

(* No procedure works for a first handle made under another password than the *)
(* one the export has in the list that was searched (up to collisions of      *)
(* fnv1a_32, which is any function that maps no password to 0).  The second   *)
(* handle of RENAME is not covered: its hash is not looked at.                *)
THEOREM PasswordBinds == Spec => []OldPasswordRefused
<1>1. Inv => OldPasswordRefused
  BY DEF Inv
<1> QED
  BY <1>1, Invariance, PTL

(* ACCESS and the kernel agree on the class of the caller, for every file and *)
(* every credential: where ACCESS answers EXECUTE or DELETE, the identity of  *)
(* the process may do it.                                                     *)
THEOREM AccessTrue == Spec => []AccessClass
<1>1. Inv => AccessClass
  BY DEF Inv
<1> QED
  BY <1>1, Invariance, PTL

(* The state has the shape the code's types give it: above all, the cursor    *)
(* stays in the list and the options are bits that exist.                     *)
THEOREM TypeCorrect == Spec => []TypeOK
<1> DEFINE T == /\ exports_opts \subseteq NotExported /\ setup \in Setups
                /\ ~exports_access => cursor = NoCursor
<1>1. Init => T
  BY DEF Init, UsersInit, ExportsInit
<1>2. T /\ Inv /\ [Next]_vars => T'
  <2> SUFFICES ASSUME T, Inv, [Next]_vars PROVE T'
    OBVIOUS
  <2>1. ASSUME NEW path, NEW walk, NEW check, BeginSearch(path, walk, check), setup' = setup PROVE T'
    BY <2>1 DEF BeginSearch, exports_options_begin
  <2>2. ASSUME UNCHANGED exportVars, setup' = setup PROVE T'
    BY <2>2 DEF exportVars, foundVars
  <2>3. CASE ArriveNfs
    BY <2>3 DEF ArriveNfs, foundVars
  <2>15. CASE PrepSearch
    BY <2>1, <2>15 DEF PrepSearch, userVars
  <2>16. CASE RenameDecomp \/ Finish
    BY <2>16 DEF RenameDecomp, Finish, foundVars, userVars
  <2>4. CASE ArriveMnt
    BY <2>1, <2>4 DEF ArriveMnt, userVars
  <2>5. CASE MntAuth
    BY <2>1, <2>5 DEF MntAuth, userVars
  <2>6. CASE RenameCompat
    BY <2>1, <2>6 DEF RenameCompat, userVars
  <2>7. CASE SearchStep
    <3> DEFINE item == export_list[cursor.pos]
    <3>1. exports_access /\ exports_access' = exports_access /\ setup' = setup
      BY <2>7 DEF SearchStep, exports_options_step, userVars
    <3>2. exports_opts' = exports_opts \/ \E k \in DOMAIN item.hosts : exports_opts' = item.hosts[k].options
      BY <2>7 DEF SearchStep, exports_options_step, foundVars, find_host
    <3>3. \A k \in DOMAIN item.hosts : item.hosts[k].options \subseteq NotExported
      <4>1. PICK line : item = add_item(line)
        <5>1. /\ export_list = parsed(searched) /\ Sound(searched)
              /\ cursor.pos \in 1..(Len(export_list) + 1)
          BY <3>1 DEF Inv, Listed, Searching
        <5>2. cursor.pos <= Len(export_list)
          BY <2>7 DEF SearchStep, exports_options_step
        <5> DEFINE n == Len(Lines(searched))
        <5>3. n \in Nat /\ Len(export_list) = n /\ \A i \in 1..n : export_list[i] = add_item(Lines(searched)[i])
          BY <5>1, ListOf
        <5> HIDE DEF n
        <5>4. cursor.pos \in 1..n
          BY <5>1, <5>2, <5>3
        <5> QED
          BY <5>3, <5>4
      <4>2. item.hosts = IF line.hosts = <<>> THEN <<AnonHost>> ELSE [i \in DOMAIN line.hosts |-> add_host(line.hosts[i])]
        BY <4>1 DEF add_item
      <4>3. AnonHost.options = {}
        BY DEF AnonHost
      <4>4. ASSUME NEW spec PROVE add_host(spec).options \subseteq NotExported
        <5>1. add_host(spec).options = add_option(spec.words)
          BY DEF add_host
        <5>2. \A word \in DOMAIN Sets : Sets[word] \in OPTIONS
          BY DEF Sets, OPTIONS
        <5>3. add_option(spec.words) \subseteq OPTIONS
          BY <5>2 DEF add_option
        <5> QED
          BY <5>1, <5>3 DEF NotExported
      <4> HIDE DEF item
      <4>5. CASE line.hosts = <<>>
        <5>1. DOMAIN item.hosts = {1} /\ item.hosts[1] = AnonHost
          BY <4>2, <4>5
        <5> QED
          BY <4>3, <5>1
      <4>6. CASE line.hosts # <<>>
        <5>1. \A k \in DOMAIN item.hosts : item.hosts[k] = add_host(line.hosts[k])
          BY <4>2, <4>6
        <5> QED
          BY <4>4, <5>1
      <4> QED
        BY <4>5, <4>6
    <3> QED
      BY <3>1, <3>2, <3>3
  <2>8. CASE SearchEnd
    BY <2>8 DEF SearchEnd, exports_options_end, foundVars, userVars
  <2>9. CASE MntCheck \/ PrepRefuses \/ SwitchFails \/ RenameChecked \/ Translate \/ Crash
    BY <2>2, <2>9 DEF MntCheck, PrepRefuses, SwitchFails, RenameChecked, Translate, Crash, userVars
  <2>10. CASE PrepAdmits
    BY <2>2, <2>10 DEF PrepAdmits, switch_user, userVars
  <2>11. CASE Elevate \/ Transfer \/ Access
    BY <2>2, <2>11 DEF Elevate, Transfer, Access, userVars
  <2>12. CASE SigHup
    BY <2>12 DEF SigHup, exports_parse
  <2>13. CASE Edit \/ UNCHANGED vars
    BY <2>13 DEF Edit, EditExports, foundVars, userVars, vars, exportVars
  <2>14. CASE Restart
    BY <2>14 DEF Restart
  <2> QED
    BY <2>3, <2>4, <2>5, <2>6, <2>7, <2>8, <2>9, <2>10, <2>11, <2>12, <2>13, <2>14, <2>15,
       <2>16 DEF Next
<1>3. T /\ Inv => TypeOK
  <2> SUFFICES ASSUME T, Inv PROVE TypeOK
    OBVIOUS
  <2>1. Len(export_list) \in Nat
    BY ListOf DEF Inv, Listed
  <2>2. cursor.pos \in 0..(Len(export_list) + 1)
    <3>1. CASE exports_access
      BY <2>1, <3>1 DEF Inv, Searching
    <3>2. CASE ~exports_access
      BY <2>1, <3>2 DEF NoCursor
    <3> QED
      BY <3>1, <3>2
  <2> QED
    BY <2>2 DEF TypeOK, Inv, Listed, Flow, Identity, Places, Walking, Checking
<1> HIDE DEF T
<1> QED
  BY <1>1, <1>2, <1>3, Invariance, PTL DEF Spec
=============================================================================
