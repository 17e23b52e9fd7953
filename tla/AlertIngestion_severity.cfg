SPECIFICATION RacesSpec
CONSTANTS
    a1 = a1
    a2 = a2
    a3 = a3
    a4 = a4
    a5 = a5
    batch = batch
    again = again
    post = post
    e1 = e1
    e2 = e2
    e3 = e3
    svc = svc
    t1 = t1
    t2 = t2
    None = None
    Alerts = {a1, a2, a3, a4, a5}
    Requests = {batch, again, post}
    Retried = {batch, again}
    Services = {svc}
    Types = {t1, t2}
    ExternalIds = {e1, e2, e3}
    BatchOf <- MCBatchOf
    ServiceOf <- MCServiceOf
    TypeOf <- MCTypeOf
    SeverityOf <- MCSeverityOf
    StartedAt <- MCStartedAt
    ExternalId <- MCExternalId
    Window = 1
    MaxCrashes = 0
PROPERTY
    SeverityRatchets
CHECK_DEADLOCK FALSE
