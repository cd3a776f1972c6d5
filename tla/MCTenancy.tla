------------------------------ MODULE MCTenancy ------------------------------
(* Instances of Tenancy for TLC. *)
EXTENDS Tenancy, TLC

CONSTANTS acme, brunel,            \* tenants
          platform, acmeHost, brunelDomain,   \* hosts
          contactOfAcme, contactOfBrunel, firmOfBrunel, dealOfAcme

\* One tenant has a subdomain, the other a domain of its own.
MCSubdomain == [h \in Hosts |-> IF h = acmeHost THEN acme ELSE NoTenant]
MCCustomDomain == [h \in Hosts |-> IF h = brunelDomain THEN brunel ELSE NoTenant]

Bearer(admin, tenant, role) == [admin |-> admin, tenant |-> tenant, role |-> role]
Members == {Bearer(FALSE, t, "firm_member") : t \in Tenants}

\* An administrator, a user without a membership, and a member of a tenant.
MCBearers ==
    {Bearer(TRUE, NoTenant, NoRole), Bearer(FALSE, NoTenant, NoRole), Bearer(FALSE, acme, "firm_member")}

Contacts == {"Contact"}
Related  == {"Contact", "Activity"}

\* The deal is with the contact of its tenant.
MCSeededAs == [id \in Seeded |->
    [model  |-> CASE id = dealOfAcme -> "Deal" [] id = firmOfBrunel -> "Organization"
                  [] OTHER -> "Contact",
     tenant |-> IF id \in {contactOfAcme, dealOfAcme} THEN acme ELSE brunel,
     refs   |-> IF id = dealOfAcme THEN {contactOfAcme} ELSE {}]]

RequestSymmetry == Permutations(Requests)

=============================================================================
