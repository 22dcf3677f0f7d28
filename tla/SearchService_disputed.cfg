SPECIFICATION Spec
CONSTANTS
  s1 = s1
  None = None
  Service = {s1}
  Amendment = {m1}
  ServiceOf <- OneService
PROPERTY NoRefundInOpenDispute
