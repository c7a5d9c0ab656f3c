SPECIFICATION MCSpec
CONSTANTS
    Hosts <- SomeHosts
    Below <- SomeBelow
    BareLabels <- SomeBareLabels
    IpHosts <- SomeIps
    Names = {"sid"}
    Session = Session
    Origins <- CredentialOrigins
    Callers <- AllCallers
    Statuses = {"final", "301-303", "307-308"}
    Userinfos = {"nobody", "server"}
    Paths <- RootOnly
    Attributes = {}
    Files <- NoFile
    Options <- NoOptions
    MaxUrls = 1
    MaxInvocations = 1
    MaxRedirs = 2
    MaxTime = 2
    MaxHopTime = 1
    MaxClock = 4
INVARIANTS CredentialsStayHome BodyWithItsMethod SendsBounded CookiesStayHome OneValuePerCookie
