------------------------------ MODULE IpRegion ------------------------------
(***************************************************************************)
(* The IP-region lookup of netutils/ipregion.go: the tables InitFromFile  *)
(* builds from the two CSV files, and GetIPCountryName, which finds an    *)
(* address's range in countryIPInfos with sort.Search and its country in  *)
(* countryInfosAA.                                                         *)
(*   - An address string is given by what net.ParseIP makes of it: nil,  *)
(*     or the 16-byte form (an IPv4 address as ::ffff:a.b.c.d).           *)
(*   - A country code is [c |-> name, up |-> case], so that ToLower is a  *)
(*     real conversion: codes that differ only in case meet.              *)
(*   - A CSV line is a tuple of its columns; SToUI/SToI are the identity *)
(*     on columns that already hold numbers.                               *)
(***************************************************************************)
EXTENDS Integers, Sequences, SequencesExt

\* net.ParseIP: nil for a string that is no address; IPv4 in its 16-byte form.
ParseIP(addr) ==
    CASE addr.t = "v4"  -> <<0,0,0,0,0,0,0,0,0,0,255,255>> \o addr.b
      [] addr.t = "v6"  -> addr.b
      [] OTHER          -> <<>>

\* binary.BigEndian.Uint32
Uint32BE(s) == ((s[1] * 256 + s[2]) * 256 + s[3]) * 256 + s[4]

\* ip2int: the last four bytes of the 16-byte form.
Ip2Int(ip) == IF Len(ip) = 16 THEN Uint32BE(SubSeq(ip, 13, 16)) ELSE Uint32BE(ip)

\* convertCSVToCountryIPInfo, one line: ip_from, ip_to, a2, a3, country.
IPLineToInfo(line) ==
    [IPFrom |-> line[1], IPTo |-> line[2], A2 |-> line[5], A3 |-> line[6], Country |-> line[7]]

\* convertCSVToCountryInfo, one line: country, a2, a3, num, dialing code.
LineToCountryInfo(line) ==
    [Country |-> line[1], A2 |-> line[2], A3 |-> line[3], Num |-> line[4], DialingCode |-> line[5]]

\* strings.ToLower on a code.
Lower(x) == [x EXCEPT !.up = FALSE]

\* getCountryInfoKey: strings.ToLower(a2 + "_" + a3).
CountryInfoKey(a2, a3) == <<Lower(a2), Lower(a3)>>

\* InitFromFile: the two tables and both indexes of the country infos; a
\* later line with the same key replaces an earlier one.
InitFromFile(ipLines, infoLines) ==
    LET infos == [i \in 1..Len(infoLines) |-> LineToCountryInfo(infoLines[i])]
        add(m, ci) == (ci.k :> ci.v) @@ m
    IN  [countryIPInfos  |-> [i \in 1..Len(ipLines) |-> IPLineToInfo(ipLines[i])],
         countryInfosAA  |-> FoldLeft(add, <<>>, [i \in 1..Len(infos) |->
                                [k |-> CountryInfoKey(infos[i].A2, infos[i].A3), v |-> infos[i]]]),
         countryInfosNum |-> FoldLeft(add, <<>>, [i \in 1..Len(infos) |->
                                [k |-> infos[i].Num, v |-> infos[i]]])]

\* The predicate getIPCountryIPInfo gives sort.Search, at index h (from 0).
Reaches(cts, intip, h) == cts[h + 1].IPFrom >= intip \/ cts[h + 1].IPTo >= intip

\* sort.Search's loop on [i, j): h = int(uint(i+j) >> 1), then
\* i = h + 1 when the predicate fails at h, else j = h.
RECURSIVE Search(_, _, _, _)
Search(cts, intip, i, j) ==
    IF i >= j THEN i
    ELSE LET h == (i + j) \div 2
         IN  IF ~Reaches(cts, intip, h) THEN Search(cts, intip, h + 1, j)
             ELSE Search(cts, intip, i, h)

\* Mutant: the range check after the search ignores ip_from.
RangeAtNoFrom(cts, intip, n) ==
    IF n = Len(cts) \/ cts[n + 1].IPTo < intip
    THEN [ok |-> FALSE] ELSE [ok |-> TRUE, info |-> cts[n + 1]]

\* The check after the search: the range at index n (from 0) is the
\* address's only if it holds it.
RangeAt(cts, intip, n) ==
    IF n = Len(cts) \/ cts[n + 1].IPFrom > intip \/ cts[n + 1].IPTo < intip
    THEN [ok |-> FALSE] ELSE [ok |-> TRUE, info |-> cts[n + 1]]

\* getIPCountryIPInfo on the parsed address ip: no table or an
\* unparsable address finds nothing; else the first range whose ip_from
\* or ip_to reaches the address, if it holds it.
LookupIP(cts, ip) ==
    IF cts = <<>> \/ ip = <<>> THEN [ok |-> FALSE]
    ELSE RangeAt(cts, Ip2Int(ip), Search(cts, Ip2Int(ip), 0, Len(cts)))

GetIPCountryIPInfo(ipr, addr) == LookupIP(ipr.countryIPInfos, ParseIP(addr))

\* getIPCountryInfo's second lookup, on the range r found, and
\* GetIPCountryName's "unknown" when either finds nothing.
CountryOf(aa, r) ==
    IF r.ok /\ CountryInfoKey(r.info.A2, r.info.A3) \in DOMAIN aa
    THEN aa[CountryInfoKey(r.info.A2, r.info.A3)].Country ELSE "unknown"

GetIPCountryName(ipr, addr) == CountryOf(ipr.countryInfosAA, GetIPCountryIPInfo(ipr, addr))

\* GetCountryInfoByNum
GetCountryInfoByNum(ipr, num) ==
    IF num \in DOMAIN ipr.countryInfosNum
    THEN [ok |-> TRUE, c |-> ipr.countryInfosNum[num]] ELSE [ok |-> FALSE]

\* IncRegInfo: regionInfo[region] += count, from 0 when absent.
IncRegInfo(region, regionInfo, count) ==
    IF region \in DOMAIN regionInfo
    THEN [regionInfo EXCEPT ![region] = @ + count]
    ELSE (region :> count) @@ regionInfo
=============================================================================
