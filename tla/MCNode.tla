---- MODULE MCNode ----
\* The components of one node and of its users' side, side by side: a behaviour is one of one
\* of them, chosen at the start, and the others stay as they begin.
EXTENDS DomainRecords, IpfsNode, RangeStream, Proxy, HandleForm, Startup, SealedMessages

VARIABLE part
Parts == {"domains", "ipfs", "ranges", "proxy", "form", "startup", "mail"}

MCInit ==
    /\ part \in Parts
    /\ IpfsInit /\ StreamInit /\ StartupInit
    /\ DomainInit /\ record \in {Missing, {"key", "root"}, {"root"}, {"alias"}}
    /\ (part = "domains" \/ (service = "SNS" /\ record = Missing))
    /\ ProxyInit /\ (part = "proxy" \/ site.kind = "point")
    /\ FormInit /\ (part = "form" \/ \A h \in Handles : eligible[h] = "free")
    /\ MailInit /\ (part = "mail" \/ \A x \in Names : owner[x] = NoKey)

MCNext ==
    \/ /\ part = "domains" /\ DomainNext
       /\ UNCHANGED <<ipfsVars, streamVars, proxyVars, formVars, startupVars, mailVars>>
    \/ /\ part = "ipfs" /\ IpfsNext
       /\ UNCHANGED <<domainVars, streamVars, proxyVars, formVars, startupVars, mailVars>>
    \/ /\ part = "ranges" /\ StreamNext
       /\ UNCHANGED <<domainVars, ipfsVars, proxyVars, formVars, startupVars, mailVars>>
    \/ /\ part = "proxy" /\ ProxyNext
       /\ UNCHANGED <<domainVars, ipfsVars, streamVars, formVars, startupVars, mailVars>>
    \/ /\ part = "form" /\ FormNext
       /\ UNCHANGED <<domainVars, ipfsVars, streamVars, proxyVars, startupVars, mailVars>>
    \/ /\ part = "startup" /\ StartupNext
       /\ UNCHANGED <<domainVars, ipfsVars, streamVars, proxyVars, formVars, mailVars>>
    \/ /\ part = "mail" /\ MailNext
       /\ UNCHANGED <<domainVars, ipfsVars, streamVars, proxyVars, formVars, startupVars>>

MCSpec ==
    /\ MCInit
    /\ [][MCNext /\ UNCHANGED part]_<<part, domainVars, ipfsVars, streamVars, proxyVars,
                                      formVars, startupVars, mailVars>>
    /\ IpfsFairness
====
