--------------------------- MODULE ProviderTable ---------------------------
(***************************************************************************)
(* How each DNS provider talks to its service, one definition per provider *)
(* and named after its struct.  What the words mean is in DnsProvider:     *)
(*                                                                         *)
(*   zone     how the zone of the record is found; "asked", "askedAbove"   *)
(*            and "shortest" ask the service for one candidate after the   *)
(*            other and go on to the next if it refuses to answer          *)
(*   name     under which name of that zone the record is filed; "full"    *)
(*            also when the name is given relative to the zone found, or   *)
(*            is the one the account stands for                            *)
(*   read     whether what add_txt or remove_txt reads first is trusted    *)
(*            when the service refuses to answer                           *)
(*   add      what add_txt asks for                                        *)
(*   answer   whether a refused write is an error of add_txt               *)
(*   remove   what remove_txt asks for; "nothing" also when it looks for   *)
(*            another name than the one added, or names no record          *)
(***************************************************************************)

Api(zone, name, read, add, answer, remove) ==
    [zone |-> zone, name |-> name, read |-> read, add |-> add,
     answer |-> answer, remove |-> remove]

\* Most providers: one request that creates the record and is checked.
Plain(zone, name, remove) == Api(zone, name, "none", "create", "checked", remove)

Acmedns          == Api("byName", "full", "none", "replace", "checked", "nothing")
Acmeproxy        == Plain("byName", "wrong", "byValue")
Active24         == Plain("longest", "full", "findValue")
Aliyun           == Plain("given", "short", "findValue")
Alviy            == Plain("given", "full", "findValue")
Alwaysdata       == Plain("given", "full", "findValue")
Anikeen          == Plain("given", "short", "findName")
Anx              == Plain("asked", "full", "findValue")
Area7            == Plain("given", "short", "findName")
Artfiles         == Api("longest", "short", "sound", "rezone", "checked", "rezone")
Aruba            == Plain("given", "full", "findValue")
Arvan            == Plain("suffix", "full", "findValue")
Aurora           == Plain("asked", "full", "findValue")
Autodns          == Plain("asked", "full", "byValue")
Azion            == Plain("suffix", "full", "findValue")
Azure            == Api("longest", "ofDomain", "blindAdd", "merge", "checked", "merge")
Baidu            == Plain("asked", "full", "findValue")
Beget            == Api("longest", "ofDomain", "sound", "merge", "checked", "merge")
BestHosting      == Plain("byName", "wrong", "findValue")
Bhosted          == Plain("twolabels", "full", "byValue")
Bookmyname       == Plain("byName", "full", "byValue")
Bunny            == Api("suffix", "full", "none", "create", "unchecked", "findValue")
Clouddns         == Plain("longest", "full", "findValue")
Cloudflare       == Plain("asked", "full", "findValue")
Cloudns          == Plain("given", "full", "findValue")
Cn               == Plain("suffix", "full", "findValue")
Conoha           == Plain("given", "full", "findValue")
Constellix       == Plain("askedAbove", "full", "allOfName")
Cpanel           == Plain("given", "wrong", "findValue")
Curanet          == Plain("asked", "full", "findValue")
Cyon             == Plain("given", "full", "allOfName")
Czechia          == Plain("byName", "full", "byValue")
Da               == Plain("given", "wrong", "nothing")
Ddnss            == Api("byName", "full", "none", "replace", "checked", "allOfName")
Desec            == Api("given", "full", "none", "set", "checked", "allOfName")
Df               == Api("byName", "full", "none", "refuse", "checked", "nothing")
Digitalocean     == Plain("suffix", "full", "findValue")
Dnsexit          == Plain("asked", "full", "byValue")
Dnshome          == Plain("given", "full", "findValue")
Dnsimple         == Plain("suffix", "full", "findValue")
Dnsmadeeasy      == Plain("suffix", "short", "findValue")
Dnspod           == Plain("suffix", "short", "findValue")
Dnsservices      == Plain("suffix", "full", "findValue")
Doapi            == Plain("given", "full", "findValue")
Domeneshop       == Plain("suffix", "full", "findValue")
Dpi              == Plain("suffix", "short", "findValue")
Dreamhost        == Plain("byName", "full", "byValue")
Duckdns          == Api("byName", "full", "none", "replace", "unchecked", "nothing")
Durabledns       == Plain("longest", "full", "findValue")
Dyn              == Api("suffix", "full", "none", "create", "unchecked", "allOfName")
Dynadot          == Plain("suffix", "short", "findValue")
Dynu             == Plain("suffix", "short", "findValue")
Dynv6            == Plain("suffix", "full", "findValue")
Easydns          == Plain("asked", "full", "findName")
Edgecenter       == Api("given", "full", "none", "set", "checked", "allOfName")
Edgedns          == Api("askedAbove", "full", "blindAdd", "probe", "checked", "merge")
Efficientip      == Plain("byName", "full", "byValue")
Eurodns          == Plain("given", "short", "findName")
Euserv           == Plain("longest", "full", "findValue")
Exoscale         == Plain("askedAbove", "full", "findValue")
Firestorm        == Plain("byName", "full", "byValue")
Fornex           == Plain("asked", "full", "findValue")
Freedns          == Plain("first", "short", "findValue")
Freemyip         == Api("byName", "full", "none", "replace", "checked", "nothing")
GandiLivedns     == Api("suffix", "full", "none", "set", "checked", "allOfName")
Gcloud           == Api("longest", "full", "none", "set", "checked", "ifSame")
Gcore            == Api("given", "full", "none", "set", "checked", "allOfName")
Geoscaling       == Plain("longest", "full", "findValue")
Gname            == Plain("registered", "full", "findValue")
Godaddy          == Api("given", "short", "blind", "rezoneOnly", "unchecked", "rezoneName")
Googledomains    == Plain("askedAbove", "full", "byValue")
He               == Plain("longest", "full", "findValue")
HeDdns           == Api("byName", "wrong", "none", "replace", "checked", "allOfName")
Hestiacp         == Plain("given", "full", "findValue")
Hetzner          == Api("byName", "full", "none", "refuse", "checked", "nothing")
Hetznercloud     == Plain("asked", "full", "findValue")
Hexonet          == Plain("asked", "full", "byValue")
Hosting1984      == Plain("asked", "wrong", "findValue")
Hostingde        == Plain("asked", "full", "findValue")
Hostingukraine   == Plain("given", "short", "findName")
Hostline         == Plain("given", "short", "findName")
Hosttech         == Plain("suffix", "full", "findValue")
Hostup           == Plain("suffix", "full", "nothing")
Huaweicloud      == Api("asked", "full", "blindAdd", "merge", "checked", "allOfName")
Infoblox         == Plain("byName", "full", "findValue")
InfobloxUddi     == Plain("asked", "full", "findValue")
Infomaniak       == Api("suffix", "full", "none", "create", "unchecked", "findValue")
Internetbs       == Plain("given", "full", "byValue")
Inwx             == Plain("given", "short", "findValue")
Ionos            == Api("suffix", "full", "none", "create", "unchecked", "findValue")
IonosCloud       == Plain("suffix", "full", "findValue")
Ipprojects       == Plain("byName", "full", "byValue")
Ipv64            == Plain("longest", "ofDomain", "byValue")
Ispconfig        == Plain("asked", "full", "findValue")
Ispman           == Plain("given", "short", "findName")
Jd               == Plain("longest", "full", "nothing")
Joker            == Api("asked", "full", "none", "replace", "checked", "allOfName")
Kappernet        == Plain("asked", "full", "byValue")
Kas              == Plain("suffix", "full", "findValue")
Kinghost         == Plain("byName", "full", "byValue")
Knot             == Api("byName", "full", "none", "refuse", "checked", "nothing")
La               == Plain("asked", "wrong", "findValue")
Leaseweb         == Api("shortest", "full", "none", "set", "checked", "allOfName")
Lexicon          == Api("byName", "full", "none", "refuse", "checked", "nothing")
Limacity         == Plain("above", "full", "allOfName")
Linode           == Plain("longest", "ofDomain", "findName")
Linodev4         == Plain("suffix", "full", "findValue")
Loopia           == Plain("longest", "full", "findValue")
Luadns           == Api("suffix", "full", "none", "create", "unchecked", "findValue")
Maradns          == Api("byName", "full", "sound", "create", "checked", "rezone")
Mgwm             == Plain("byName", "full", "byValue")
Miab             == Plain("longest", "full", "byValue")
Mijnhost         == Api("suffix", "full", "blindRemove", "rezone", "checked", "rezone")
Misaka           == Plain("longest", "full", "allOfName")
Myapi            == Plain("byName", "full", "byValue")
Mydevil          == Plain("given", "full", "findValue")
Mydnsjp          == Plain("byName", "full", "byValue")
Myloc            == Plain("suffix", "short", "findName")
MythicBeasts     == Plain("asked", "full", "byValue")
Namecheap        == Api("split", "full", "blind", "rezone", "unchecked", "rezone")
Namecom          == Plain("suffix", "full", "findValue")
Namesilo         == Plain("given", "full", "findValue")
Nanelo           == Plain("longest", "full", "byValue")
Nederhost        == Plain("asked", "full", "byValue")
Neodigit         == Plain("asked", "short", "findValue")
Netcup           == Api("given", "short", "sound", "rezone", "checked", "rezone")
Netim            == Plain("given", "short", "findName")
Netlify          == Api("suffix", "full", "none", "create", "unchecked", "findName")
Nic              == Plain("longest", "ofDomain", "findValue")
Njalla           == Plain("suffix", "full", "findValue")
Nm               == Plain("byName", "full", "nothing")
Nodion           == Plain("given", "full", "findValue")
Nsd              == Api("byName", "full", "none", "refuse", "checked", "nothing")
Nsone            == Api("above", "full", "blind", "probe", "unchecked", "allOfName")
Nsupdate         == Plain("twolabels", "full", "allOfName")
Nw               == Plain("suffix", "full", "findValue")
Oci              == Plain("asked", "full", "byValue")
Omglol           == Plain("byName", "full", "findValue")
One              == Plain("longest", "full", "findValue")
Online           == Api("askedAbove", "full", "none", "create", "unchecked", "nothing")
Openprovider     == Api("longest", "full", "sound", "rezone", "checked", "rezoneName")
OpenproviderRest == Plain("asked", "full", "byValue")
Openstack        == Api("longest", "full", "sound", "merge", "checked", "merge")
Opnsense         == Plain("longest", "full", "findValue")
Opusdns          == Plain("asked", "full", "byValue")
Ovh              == Plain("longest", "short", "findValue")
Pdnsmanager      == Plain("given", "short", "findName")
Pleskxml         == Plain("given", "short", "findValue")
Pmiab            == Plain("given", "full", "allOfName")
Pointhq          == Plain("asked", "full", "allOfName")
Porkbun          == Plain("given", "full", "findValue")
Poweradmin       == Plain("longest", "full", "findValue")
Powerdns         == Api("suffix", "wrong", "none", "replace", "checked", "allOfName")
Qc               == Plain("given", "full", "findValue")
Rackcorp         == Plain("asked", "full", "byValue")
Rackspace        == Plain("suffix", "full", "findValue")
Rage4            == Plain("suffix", "full", "findValue")
Rcode0           == Api("asked", "full", "blindAdd", "probe", "checked", "twoWrites")
Regru            == Plain("above", "ofDomain", "byValue")
Restena          == Plain("given", "full", "byValue")
Route53          == Api("longest", "full", "sound", "merge", "checked", "rest")
Samba            == Api("byName", "full", "none", "refuse", "checked", "nothing")
Scaleway         == Plain("suffix", "full", "byValue")
Schlundtech      == Plain("asked", "full", "byValue")
Sdns             == Plain("given", "short", "findName")
Selectel         == Plain("above", "full", "byValue")
Selfhost         == Api("byName", "full", "none", "replace", "checked", "nothing")
Shellrent        == Plain("suffix", "full", "findValue")
Simply           == Plain("given", "full", "byValue")
Sitehost         == Plain("longest", "full", "findValue")
Sotoon           == Api("asked", "full", "sound", "merge", "checked", "merge")
Spaceship        == Plain("asked", "full", "byValue")
Subreg           == Plain("asked", "full", "findValue")
SynologyDsm      == Plain("longest", "full", "byValue")
Technitium       == Plain("given", "full", "byValue")
Tele3            == Plain("byName", "full", "byValue")
Tencent          == Plain("given", "short", "findValue")
Timeweb          == Plain("suffix", "full", "byValue")
Transip          == Plain("asked", "full", "byValue")
Udr              == Plain("longest", "full", "byValue")
Unoeuro          == Plain("askedAbove", "full", "byValue")
Variomedia       == Plain("asked", "full", "byValue")
Veesp            == Plain("longest", "full", "findName")
Vercel           == Plain("given", "full", "findValue")
Virakcloud       == Plain("asked", "wrong", "findValue")
Vscale           == Plain("given", "full", "findValue")
Vultr            == Plain("given", "full", "byValue")
Websupport       == Plain("longest", "full", "byValue")
Wedos            == Plain("suffix", "full", "findValue")
WestCn           == Plain("itself", "full", "findValue")
Wexbo            == Plain("given", "short", "findName")
World4you        == Plain("suffix", "full", "findValue")
Wts              == Plain("given", "short", "findName")
Yandex           == Plain("suffix", "full", "findValue")
Yandex360        == Plain("suffix", "full", "byValue")
Yc               == Plain("suffix", "full", "allOfName")
Zilore           == Plain("asked", "full", "findValue")
Zone             == Plain("given", "full", "findValue")
Zoneedit         == Plain("byName", "full", "byValue")
Zonomi           == Api("byName", "full", "sound", "merge", "checked", "allOfName")

\* The registered providers, as the set of the ways they work.
Providers == {
    Acmedns, Acmeproxy, Active24, Aliyun, Alviy, Alwaysdata, Anikeen, Anx,
    Area7, Artfiles, Aruba, Arvan, Aurora, Autodns, Azion, Azure, Baidu,
    Beget, BestHosting, Bhosted, Bookmyname, Bunny, Clouddns, Cloudflare,
    Cloudns, Cn, Conoha, Constellix, Cpanel, Curanet, Cyon, Czechia, Da,
    Ddnss, Desec, Df, Digitalocean, Dnsexit, Dnshome, Dnsimple, Dnsmadeeasy,
    Dnspod, Dnsservices, Doapi, Domeneshop, Dpi, Dreamhost, Duckdns,
    Durabledns, Dyn, Dynadot, Dynu, Dynv6, Easydns, Edgecenter, Edgedns,
    Efficientip, Eurodns, Euserv, Exoscale, Firestorm, Fornex, Freedns,
    Freemyip, GandiLivedns, Gcloud, Gcore, Geoscaling, Gname, Godaddy,
    Googledomains, He, HeDdns, Hestiacp, Hetzner, Hetznercloud, Hexonet,
    Hosting1984, Hostingde, Hostingukraine, Hostline, Hosttech, Hostup,
    Huaweicloud, Infoblox, InfobloxUddi, Infomaniak, Internetbs, Inwx,
    Ionos, IonosCloud, Ipprojects, Ipv64, Ispconfig, Ispman, Jd, Joker,
    Kappernet, Kas, Kinghost, Knot, La, Leaseweb, Lexicon, Limacity, Linode,
    Linodev4, Loopia, Luadns, Maradns, Mgwm, Miab, Mijnhost, Misaka, Myapi,
    Mydevil, Mydnsjp, Myloc, MythicBeasts, Namecheap, Namecom, Namesilo,
    Nanelo, Nederhost, Neodigit, Netcup, Netim, Netlify, Nic, Njalla, Nm,
    Nodion, Nsd, Nsone, Nsupdate, Nw, Oci, Omglol, One, Online,
    Openprovider, OpenproviderRest, Openstack, Opnsense, Opusdns, Ovh,
    Pdnsmanager, Pleskxml, Pmiab, Pointhq, Porkbun, Poweradmin, Powerdns,
    Qc, Rackcorp, Rackspace, Rage4, Rcode0, Regru, Restena, Route53, Samba,
    Scaleway, Schlundtech, Sdns, Selectel, Selfhost, Shellrent, Simply,
    Sitehost, Sotoon, Spaceship, Subreg, SynologyDsm, Technitium, Tele3,
    Tencent, Timeweb, Transip, Udr, Unoeuro, Variomedia, Veesp, Vercel,
    Virakcloud, Vscale, Vultr, Websupport, Wedos, WestCn, Wexbo, World4you,
    Wts, Yandex, Yandex360, Yc, Zilore, Zone, Zoneedit, Zonomi
}

=============================================================================
