CONSTANTS
  Tokens = {t1, t2}
  Ids = {i1}
  EntryIds = {}
  Selectors = {}
  Domains = {}
  Certs = {}
  Expiries = {1}
  Serials = {}
  MaxList = 1
SPECIFICATION TokenSpec
PROPERTY DeleteTokenKeepsOthers
